------------------------- MODULE RingBufferData_proofs -------------------------
(***************************************************************************)
(* Theorems about RingBufferData, for every ring size, every set of        *)
(* record lengths and, on the CAS ring, every number of producers and      *)
(* every preemption pattern: the cursors, the bytes of held records, and   *)
(* the refinement mapping of RingBufferFifo, step by step.                 *)
(***************************************************************************)
EXTENDS RingBufferFifo, WellFoundedInduction, SequenceTheorems, TLAPS

(***************************************************************************)
(* Type correctness.                                                       *)
(***************************************************************************)

LEMMA SizePositive == Size \in Nat /\ Size > 0
  BY SizeAssumption

(* `pos & mask` is a slot of the ring. *)
LEMMA IndexInRange ==
  ASSUME NEW x \in Nat
  PROVE  Index(x) \in 0..(Size - 1)
  BY SizePositive DEF Index

(* What a reader parses as a record header is some cell of the ring. *)
LEMMA HeaderType ==
  ASSUME TypeOK, NEW r \in Readers
  PROVE  /\ HeaderAt(r) \in Cell
         /\ HeaderAt(r).len \in Nat
<1>1. HeaderAt(r) \in Cell
  BY IndexInRange DEF TypeOK, HeaderAt
<1> QED BY <1>1 DEF Cell

LEMMA InitType == Init => TypeOK
  BY SizePositive, ModeAssumption DEF Init, TypeOK, ZeroCell, Cell

LEMMA NextType == TypeOK /\ [Next]_vars => TypeOK'
<1> SUFFICES ASSUME TypeOK, [Next]_vars PROVE TypeOK'
  OBVIOUS
<1> USE SizePositive, LensAssumption, ModeAssumption
    DEF IsCas, TypeOK, Leave, Return, prodVars, readVars
<1>1. ASSUME NEW p \in Producers, NEW n \in Lens, Begin(p, n) PROVE TypeOK'
  BY <1>1 DEF Begin
<1>2. ASSUME NEW p \in Producers, LoadCursor(p) PROVE TypeOK'
  BY <1>2 DEF LoadCursor
<1>3. ASSUME NEW p \in Producers, SpaceFound(p) PROVE TypeOK'
  BY <1>3 DEF SpaceFound
<1>4. ASSUME NEW p \in Producers, NoSpace(p) PROVE TypeOK'
  BY <1>4 DEF NoSpace
<1>5. ASSUME NEW p \in Producers, TakeReservation(p) PROVE TypeOK'
  BY <1>5 DEF TakeReservation
<1>6. ASSUME NEW p \in Producers, LoseReservation(p) PROVE TypeOK'
  BY <1>6 DEF LoseReservation
<1>7. ASSUME NEW p \in Producers, PushSlice(p) PROVE TypeOK'
  <2> DEFINE c == [by |-> {p}, start |-> start[p], off |-> off[p],
                   len |-> IF off[p] = 0 THEN want[p] ELSE 0, dummy |-> FALSE]
  <2>1. c \in Cell
    BY DEF Cell
  <2>2. mem' \in [0..(Size - 1) -> Cell]
    <3> HIDE DEF c
    <3>1. mem' = [mem EXCEPT ![Index(start[p] + off[p])] = c]
      BY <1>7 DEF PushSlice, c
    <3> QED BY <2>1, <3>1
  <2> QED BY <1>7, <2>2 DEF PushSlice
<1>8. ASSUME NEW p \in Producers, PushDummy(p) PROVE TypeOK'
  <2> DEFINE c == [by |-> {p}, start |-> start[p], off |-> 0,
                   len |-> want[p], dummy |-> TRUE]
  <2>1. c \in Cell
    BY DEF Cell
  <2>2. mem' \in [0..(Size - 1) -> Cell]
    <3> HIDE DEF c
    <3>1. mem' = [mem EXCEPT ![Index(start[p])] = c]
      BY <1>8 DEF PushDummy, c
    <3> QED BY <2>1, <3>1
  <2> QED BY <1>8, <2>2 DEF PushDummy
<1>9. ASSUME NEW p \in Producers, Abandon(p) PROVE TypeOK'
  BY <1>9 DEF Abandon
<1>10. ASSUME NEW p \in Producers, CommitTail(p) PROVE TypeOK'
  BY <1>10 DEF CommitTail, CommitSize
<1>11. ASSUME NEW r \in Readers, LoadStatus(r) PROVE TypeOK'
  BY <1>11 DEF LoadStatus
<1>12. ASSUME NEW r \in Readers, NoRecord(r) PROVE TypeOK'
  BY <1>12 DEF NoRecord
<1>13. ASSUME NEW r \in Readers, SkipDummy(r) PROVE TypeOK'
  <2>1. HeaderAt(r).len \in Nat
    BY HeaderType
  <2>2. head' \in Nat
    BY <1>13, <2>1 DEF SkipDummy, WholeRecord
  <2>3. /\ rpc' = [rpc EXCEPT ![r] = "idle"] /\ at' = [at EXCEPT ![r] = 0]
        /\ unread' = [unread EXCEPT ![r] = 0] /\ rlen' = [rlen EXCEPT ![r] = 0]
        /\ UNCHANGED <<mode, tail, reserved, mem, pc, want, cur, start, off>>
    BY <1>13 DEF SkipDummy, WholeRecord
  <2> QED
    BY <2>2, <2>3
<1>14. ASSUME NEW r \in Readers, TakeRecord(r) PROVE TypeOK'
  <2>1. HeaderAt(r).len \in Nat
    BY HeaderType
  <2>2. /\ rpc' = [rpc EXCEPT ![r] = "hold"] /\ rlen' = [rlen EXCEPT ![r] = HeaderAt(r).len]
        /\ unread' = [unread EXCEPT ![r] = 0]
        /\ UNCHANGED <<mode, head, tail, reserved, mem, pc, want, cur, start, off, at>>
    BY <1>14 DEF TakeRecord, WholeRecord
  <2> QED
    BY <2>1, <2>2
<1>15. ASSUME NEW r \in Readers, DropRef(r) PROVE TypeOK'
  BY <1>15 DEF DropRef
<1>16. CASE UNCHANGED vars
  BY <1>16 DEF vars
<1> QED
  BY <1>1, <1>2, <1>3, <1>4, <1>5, <1>6, <1>7, <1>8, <1>9, <1>10, <1>11,
     <1>12, <1>13, <1>14, <1>15, <1>16 DEF Next, Transaction, Poll, ReadHeader

(* Every behaviour of the ring keeps its variables within their types, the  *)
(* cursors being naturals (no reservation is ever taken back).              *)
THEOREM TypeCorrect == Spec => []TypeOK
  BY InitType, NextType, PTL DEF Spec

(***************************************************************************)
(* The cursors and the reservations.  Only two steps are not bookkeeping:  *)
(* taking a reservation, which must fit between the other reservations and *)
(* head + Size although head and reserved_tail were loaded one after the   *)
(* other, and committing it, after which the next open reservation must    *)
(* start at the new tail.                                                  *)
(***************************************************************************)

LEMMA InitCursors == Init => CursorInv
  BY InitType, SizePositive, ModeAssumption
  DEF Init, CursorInv, CursorOrder, LoadsStillHold, OpenWithin, ReaderAtHead,
      ReservationsDisjoint, NoStrandedReservation, Open

(* What a producer step that neither takes nor ends a reservation keeps.    *)
LEMMA QuietProducer ==
  ASSUME CursorInv, UNCHANGED <<mode, head, tail, reserved, readVars>>,
         \A q \in Producers : Open(q)' = Open(q),
         \A q \in Producers : Open(q) => start'[q] = start[q] /\ want'[q] = want[q]
  PROVE  /\ CursorOrder' /\ ReaderAtHead'
         /\ ReservationsDisjoint' /\ NoStrandedReservation'
<1>1. CursorOrder' /\ ReaderAtHead'
  BY DEF CursorInv, CursorOrder, ReaderAtHead, readVars, IsCas
<1>2. ReservationsDisjoint'
  BY DEF CursorInv, ReservationsDisjoint
<1>3. NoStrandedReservation'
  BY DEF CursorInv, NoStrandedReservation, IsCas
<1> QED BY <1>1, <1>2, <1>3

(* A per-core ring has one transaction at a time.                           *)
LEMMA Alone ==
  ASSUME SingleWriter, CursorInv, ~IsCas, NEW p \in Producers, NEW q \in Producers,
         pc[p] # "idle", pc[q] # "idle"
  PROVE  p = q
  BY DEF SingleWriter, CursorInv, OpenWithin

(* What a reader step keeps, whether or not it moves head forward.          *)
LEMMA ReaderStep ==
  ASSUME CursorInv, UNCHANGED <<mode, tail, reserved, prodVars>>,
         NEW h \in Nat, head' = h, head <= h, h <= tail
  PROVE  /\ CursorOrder' /\ LoadsStillHold' /\ OpenWithin'
         /\ ReservationsDisjoint' /\ NoStrandedReservation'
<1> USE SizePositive DEF CursorInv, TypeOK, prodVars, Open, IsCas
<1>1. CursorOrder'
  BY DEF CursorOrder
<1>2. LoadsStillHold'
  BY DEF LoadsStillHold
<1>3. OpenWithin'
  BY DEF OpenWithin
<1>4. ReservationsDisjoint'
  BY DEF ReservationsDisjoint
<1>5. NoStrandedReservation'
  BY DEF NoStrandedReservation
<1> QED BY <1>1, <1>2, <1>3, <1>4, <1>5

LEMMA NextCursors ==
  ASSUME SingleWriter, SingleReader, CursorInv, [Next]_vars
  PROVE  CursorInv'
<1>0. TypeOK
  BY DEF CursorInv
<1>18. \A p, q \in Producers : ~IsCas /\ pc[p] # "idle" /\ pc[q] # "idle" => p = q
  BY Alone
<1>17. TypeOK'
  BY <1>0, NextType
<1> USE <1>0, SizePositive, LensAssumption, ModeAssumption DEF IsCas
<1>1. ASSUME NEW p \in Producers, NEW n \in Lens, Begin(p, n) PROVE CursorInv'
  <2> USE <1>1 DEF Begin, TypeOK
  <2>1. LoadsStillHold'
    BY DEF CursorInv, LoadsStillHold, CursorOrder
  <2>2. OpenWithin'
    BY DEF CursorInv, OpenWithin, Open
  <2>3. /\ UNCHANGED <<mode, head, tail, reserved, readVars>>
        /\ \A q \in Producers : Open(q)' = Open(q)
        /\ \A q \in Producers : Open(q) => start'[q] = start[q] /\ want'[q] = want[q]
    BY DEF Open, readVars
  <2> QED
    BY <2>1, <2>2, <2>3, <1>17, QuietProducer DEF CursorInv
<1>2. ASSUME NEW p \in Producers, LoadCursor(p) PROVE CursorInv'
  <2> USE <1>2 DEF LoadCursor, TypeOK
  <2>1. LoadsStillHold'
    BY DEF CursorInv, LoadsStillHold, CursorOrder
  <2>2. OpenWithin'
    BY DEF CursorInv, OpenWithin, Open
  <2>3. /\ UNCHANGED <<mode, head, tail, reserved, readVars>>
        /\ \A q \in Producers : Open(q)' = Open(q)
        /\ \A q \in Producers : Open(q) => start'[q] = start[q] /\ want'[q] = want[q]
    BY DEF Open, readVars
  <2> QED
    BY <2>1, <2>2, <2>3, <1>17, QuietProducer DEF CursorInv
<1>3. ASSUME NEW p \in Producers, SpaceFound(p) PROVE CursorInv'
  <2> USE <1>3 DEF SpaceFound, FreeSpace, TypeOK
  <2>1. LoadsStillHold'
    <3>1. /\ IsCas => cur[p] <= reserved /\ cur[p] + want[p] <= head + Size
          /\ ~IsCas => cur[p] <= head /\ tail + want[p] <= cur[p] + Size
      <4>1. /\ IsCas => cur[p] <= reserved
            /\ ~IsCas => cur[p] <= head
        BY DEF CursorInv, LoadsStillHold
      <4> QED
        BY <4>1
    <3>2. /\ pc' = [pc EXCEPT ![p] = "take"]
          /\ UNCHANGED <<mode, head, tail, reserved, want, cur>>
      OBVIOUS
    <3> QED
      BY <3>1, <3>2, SMTT(20) DEF CursorInv, LoadsStillHold
  <2>2. OpenWithin'
    BY DEF CursorInv, OpenWithin, Open
  <2>3. /\ UNCHANGED <<mode, head, tail, reserved, readVars>>
        /\ \A q \in Producers : Open(q)' = Open(q)
        /\ \A q \in Producers : Open(q) => start'[q] = start[q] /\ want'[q] = want[q]
    BY DEF Open, readVars
  <2> QED
    BY <2>1, <2>2, <2>3, <1>17, QuietProducer DEF CursorInv
<1>4. ASSUME NEW p \in Producers, NoSpace(p) PROVE CursorInv'
  <2> USE <1>4 DEF NoSpace, Leave, TypeOK
  <2>1. LoadsStillHold'
    BY DEF CursorInv, LoadsStillHold, CursorOrder
  <2>2. OpenWithin'
    BY DEF CursorInv, OpenWithin, Open
  <2>3. /\ UNCHANGED <<mode, head, tail, reserved, readVars>>
        /\ \A q \in Producers : Open(q)' = Open(q)
        /\ \A q \in Producers : Open(q) => start'[q] = start[q] /\ want'[q] = want[q]
    BY DEF Open, readVars
  <2> QED
    BY <2>1, <2>2, <2>3, <1>17, QuietProducer DEF CursorInv
<1>5. ASSUME NEW p \in Producers, LoseReservation(p) PROVE CursorInv'
  <2> USE <1>5 DEF LoseReservation, TypeOK
  <2>1. LoadsStillHold'
    BY DEF CursorInv, LoadsStillHold, CursorOrder
  <2>2. OpenWithin'
    BY DEF CursorInv, OpenWithin, Open
  <2>3. /\ UNCHANGED <<mode, head, tail, reserved, readVars>>
        /\ \A q \in Producers : Open(q)' = Open(q)
        /\ \A q \in Producers : Open(q) => start'[q] = start[q] /\ want'[q] = want[q]
    BY DEF Open, readVars
  <2> QED
    BY <2>1, <2>2, <2>3, <1>17, QuietProducer DEF CursorInv
<1>6. ASSUME NEW p \in Producers, PushSlice(p) PROVE CursorInv'
  <2> USE <1>6 DEF PushSlice, TypeOK
  <2>1. LoadsStillHold'
    BY DEF CursorInv, LoadsStillHold, CursorOrder
  <2>2. OpenWithin'
    BY DEF CursorInv, OpenWithin, Open
  <2>3. /\ UNCHANGED <<mode, head, tail, reserved, readVars>>
        /\ \A q \in Producers : Open(q)' = Open(q)
        /\ \A q \in Producers : Open(q) => start'[q] = start[q] /\ want'[q] = want[q]
    BY DEF Open, readVars
  <2> QED
    BY <2>1, <2>2, <2>3, <1>17, QuietProducer DEF CursorInv
<1>7. ASSUME NEW p \in Producers, PushDummy(p) PROVE CursorInv'
  <2> USE <1>7 DEF PushDummy, TypeOK
  <2>1. LoadsStillHold'
    BY DEF CursorInv, LoadsStillHold, CursorOrder
  <2>2. OpenWithin'
    BY DEF CursorInv, OpenWithin, Open
  <2>3. /\ UNCHANGED <<mode, head, tail, reserved, readVars>>
        /\ \A q \in Producers : Open(q)' = Open(q)
        /\ \A q \in Producers : Open(q) => start'[q] = start[q] /\ want'[q] = want[q]
    BY DEF Open, readVars
  <2> QED
    BY <2>1, <2>2, <2>3, <1>17, QuietProducer DEF CursorInv
<1>8. ASSUME NEW p \in Producers, TakeReservation(p) PROVE CursorInv'
  <2> USE <1>8 DEF TakeReservation, TypeOK
  <2>1. LoadsStillHold'
    <3>1. \A q \in Producers : q # p =>
            pc'[q] = pc[q] /\ cur'[q] = cur[q] /\ want'[q] = want[q] /\ cur[q] \in Nat
      OBVIOUS
    <3>2. /\ pc'[p] = "write" /\ pc[p] # "idle"
          /\ UNCHANGED <<mode, head, tail>> /\ reserved <= reserved'
      OBVIOUS
    <3>3. LoadsStillHold /\ reserved \in Nat /\ reserved' \in Nat
      BY DEF CursorInv
    <3> HIDE <1>8 DEF TakeReservation, TypeOK
    <3> QED BY <3>1, <3>2, <3>3 DEF LoadsStillHold
  <2>2. OpenWithin'
    <3>1. /\ ~Open(p) /\ want[p] > 0 /\ Open(p)' /\ off'[p] = 0 /\ want'[p] = want[p]
          /\ ~IsCas => p \in CoreProducers
          /\ tail' = tail /\ reserved' = IF IsCas THEN reserved + want[p] ELSE reserved
          /\ start'[p] = IF IsCas THEN reserved ELSE tail
      BY DEF CursorInv, OpenWithin, Open
    <3>2. \A q \in Producers : q # p =>
            /\ (pc'[q] # "idle" <=> pc[q] # "idle") /\ (Open(q)' <=> Open(q))
            /\ start'[q] = start[q] /\ want'[q] = want[q] /\ off'[q] = off[q]
      BY DEF Open
    <3>3. ASSUME NEW q \in Producers, q # p
          PROVE  /\ pc'[q] # "idle" => want'[q] > 0
                 /\ pc'[q] # "idle" /\ ~IsCas => q \in CoreProducers
                 /\ Open(q)' => off'[q] <= want'[q]
                 /\ Open(q)' /\ IsCas => start'[q] + want'[q] <= reserved'
                 /\ Open(q)' /\ ~IsCas => start'[q] = tail'
      <4>1. ~IsCas => ~Open(q)
        BY <1>18, <3>3 DEF Open
      <4> QED BY <4>1, <3>1, <3>2, <3>3 DEF CursorInv, OpenWithin
    <3> QED
      BY <3>1, <3>3, IsCas' = IsCas DEF OpenWithin
  <2>3. CursorOrder'
    BY DEF CursorInv, CursorOrder, LoadsStillHold
  <2>4. ReaderAtHead'
    BY DEF CursorInv, ReaderAtHead, readVars
  <2>5. ReservationsDisjoint'
    <3>1. CASE IsCas
      <4>1. /\ start'[p] = reserved /\ want'[p] = want[p]
            /\ tail' = tail /\ head' = head
            /\ tail <= reserved /\ reserved + want[p] <= head + Size
        BY <3>1 DEF CursorInv, LoadsStillHold, CursorOrder
      <4>2. \A q \in Producers : q # p =>
              (Open(q)' <=> Open(q)) /\ start'[q] = start[q] /\ want'[q] = want[q]
        BY DEF Open
      <4>3. \A q \in Producers : q # p /\ Open(q) => start[q] + want[q] <= reserved
        BY <3>1 DEF CursorInv, OpenWithin
      <4>4. ReservationsDisjoint
        BY DEF CursorInv
      <4>5. \A q \in Producers : q # p /\ Open(q)' =>
              start'[q] + want'[q] <= start'[p] /\ tail' <= start'[q]
              /\ start'[q] + want'[q] <= head' + Size
        BY <4>1, <4>2, <4>3, <4>4 DEF ReservationsDisjoint
      <4>6. tail' <= start'[p] /\ start'[p] + want'[p] <= head' + Size
        BY <4>1
      <4>7. \A q, s \in Producers : q # p /\ s # p /\ q # s /\ Open(q)' /\ Open(s)' =>
              start'[q] + want'[q] <= start'[s] \/ start'[s] + want'[s] <= start'[q]
        BY <4>2, <4>4 DEF ReservationsDisjoint
      <4> QED
        BY <4>5, <4>6, <4>7 DEF ReservationsDisjoint
    <3>2. CASE ~IsCas
      <4>1. \A q \in Producers : Open(q)' => q = p
        BY <1>18, <3>2 DEF Open
      <4>2. tail' <= start'[p] /\ start'[p] + want'[p] <= head' + Size
        BY <3>2 DEF CursorInv, LoadsStillHold
      <4> QED
        BY <4>1, <4>2 DEF ReservationsDisjoint
    <3> QED BY <3>1, <3>2
  <2>6. NoStrandedReservation'
    <3>1. SUFFICES ASSUME IsCas PROVE NoStrandedReservation'
      BY DEF NoStrandedReservation
    <3>2. /\ Open(p)' /\ start'[p] = reserved /\ start'[p] + want'[p] = reserved'
          /\ tail' = tail /\ reserved' = reserved + want[p] /\ want[p] > 0
          /\ \A q \in Producers : q # p =>
               (Open(q)' <=> Open(q)) /\ start'[q] = start[q] /\ want'[q] = want[q]
          /\ ~Open(p)
      BY <3>1 DEF CursorInv, OpenWithin, Open
    <3>3. tail <= reserved'
      BY <3>1, <3>2 DEF CursorInv, NoStrandedReservation
    <3>4. \E q \in Producers : Open(q)' /\ start'[q] = tail
      BY <3>1, <3>2 DEF CursorInv, NoStrandedReservation
    <3>5. ASSUME NEW q \in Producers, Open(q)', start'[q] + want'[q] # reserved'
          PROVE  \E s \in Producers : Open(s)' /\ start'[s] = start'[q] + want'[q]
      <4>1. CASE q = p
        BY <4>1, <3>2, <3>5
      <4>2. CASE q # p /\ start[q] + want[q] = reserved
        BY <4>2, <3>2
      <4>3. CASE q # p /\ start[q] + want[q] # reserved
        <5>1. PICK s \in Producers : Open(s) /\ start[s] = start[q] + want[q]
          BY <4>3, <3>1, <3>2, <3>5 DEF CursorInv, NoStrandedReservation
        <5>2. s # p
          BY <5>1, <3>2
        <5> QED BY <4>3, <5>1, <5>2, <3>2
      <4> QED BY <4>1, <4>2, <4>3
    <3> QED
      BY <3>2, <3>3, <3>4, <3>5 DEF NoStrandedReservation
  <2> QED
    BY <2>1, <2>2, <2>3, <2>4, <2>5, <2>6, <1>17 DEF CursorInv
<1>9. ASSUME NEW p \in Producers, Abandon(p) PROVE CursorInv'
  <2> USE <1>9 DEF Abandon, Leave, TypeOK
  <2>1. LoadsStillHold'
    BY DEF CursorInv, LoadsStillHold
  <2>2. OpenWithin'
    BY DEF CursorInv, OpenWithin, Open
  <2>3. CursorOrder' /\ ReaderAtHead'
    BY DEF CursorInv, CursorOrder, ReaderAtHead, readVars
  <2>4. ReservationsDisjoint'
    <3>1. /\ UNCHANGED <<head, tail>>
          /\ \A q \in Producers : Open(q)' =>
               Open(q) /\ start'[q] = start[q] /\ want'[q] = want[q]
      BY DEF Open
    <3>2. ReservationsDisjoint
      BY DEF CursorInv
    <3> HIDE <1>9 DEF Abandon, Leave, TypeOK
    <3> QED BY <3>1, <3>2 DEF ReservationsDisjoint
  <2>5. NoStrandedReservation'
    BY DEF NoStrandedReservation
  <2> QED
    BY <2>1, <2>2, <2>3, <2>4, <2>5, <1>17 DEF CursorInv
<1>10. ASSUME NEW p \in Producers, CommitTail(p) PROVE CursorInv'
  <2> USE <1>10 DEF CommitTail, CommitSize, Leave, TypeOK
  <2>1. /\ Open(p) /\ tail = start[p] /\ tail' = start[p] + want[p] /\ want[p] > 0
        /\ \A q \in Producers : Open(q)' <=> Open(q) /\ q # p
        /\ \A q \in Producers : q # p =>
             start'[q] = start[q] /\ want'[q] = want[q] /\ off'[q] = off[q] /\ cur'[q] = cur[q]
    BY DEF CursorInv, OpenWithin, Open
  <2>2. \A q \in Producers : Open(q) /\ q # p => IsCas /\ start[q] >= tail'
    <3>1. SUFFICES ASSUME NEW q \in Producers, Open(q), q # p
                   PROVE  IsCas /\ start[q] >= start[p] + want[p]
      BY <2>1
    <3>2. IsCas
      BY <1>18, <3>1, <2>1 DEF Open
    <3>3. want[q] > 0 /\ start[q] >= tail
      BY <3>1 DEF CursorInv, OpenWithin, ReservationsDisjoint, Open
    <3>4. start[p] + want[p] <= start[q] \/ start[q] + want[q] <= start[p]
      BY <3>1, <2>1 DEF CursorInv, ReservationsDisjoint
    <3> QED BY <3>2, <3>3, <3>4, <2>1
  <2>3. LoadsStillHold'
    BY <1>18, <2>1 DEF CursorInv, LoadsStillHold
  <2>4. OpenWithin'
    BY <2>1, <2>2 DEF CursorInv, OpenWithin, Open
  <2>5. CursorOrder'
    BY <2>1 DEF CursorInv, CursorOrder, OpenWithin, ReservationsDisjoint
  <2>6. ReaderAtHead'
    BY <2>1 DEF CursorInv, ReaderAtHead, readVars
  <2>7. ReservationsDisjoint'
    BY <2>1, <2>2 DEF CursorInv, ReservationsDisjoint
  <2>8. NoStrandedReservation'
    <3>1. SUFFICES ASSUME IsCas PROVE NoStrandedReservation'
      BY DEF NoStrandedReservation
    <3>2. reserved' = reserved /\ start[p] + want[p] <= reserved
      BY <3>1, <2>1 DEF CursorInv, OpenWithin
    <3>3. ASSUME start[p] + want[p] # reserved
          PROVE  \E q \in Producers : Open(q)' /\ start'[q] = start[p] + want[p]
      <4>1. PICK q \in Producers : Open(q) /\ start[q] = start[p] + want[p]
        BY <3>1, <3>3, <2>1 DEF CursorInv, NoStrandedReservation
      <4>2. q # p
        BY <4>1, <2>1
      <4> QED BY <4>1, <4>2, <2>1
    <3>4. ASSUME NEW q \in Producers, Open(q)', start'[q] + want'[q] # reserved'
          PROVE  \E s \in Producers : Open(s)' /\ start'[s] = start'[q] + want'[q]
      <4>1. Open(q) /\ q # p /\ start'[q] = start[q] /\ want'[q] = want[q] /\ want[q] > 0
        BY <3>4, <2>1 DEF CursorInv, OpenWithin, Open
      <4>2. PICK s \in Producers : Open(s) /\ start[s] = start[q] + want[q]
        BY <4>1, <3>1, <3>2, <3>4 DEF CursorInv, NoStrandedReservation
      <4>3. s # p
        BY <4>1, <4>2, <2>1, <2>2
      <4> QED BY <4>1, <4>2, <4>3, <2>1
    <3> QED
      BY <2>1, <3>2, <3>3, <3>4 DEF NoStrandedReservation
  <2> QED
    BY <2>3, <2>4, <2>5, <2>6, <2>7, <2>8, <1>17 DEF CursorInv
<1>11. ASSUME NEW r \in Readers, LoadStatus(r) PROVE CursorInv'
  <2> USE <1>11 DEF LoadStatus, TypeOK
  <2>1. ReaderAtHead'
    BY HeaderType DEF CursorInv, ReaderAtHead, CursorOrder
  <2>2. UNCHANGED <<mode, head, tail, reserved, prodVars>>
    OBVIOUS
  <2>3. \E h \in Nat : head' = h /\ head <= h /\ h <= tail
    BY <2>2 DEF CursorInv, CursorOrder
  <2> QED
    BY <2>1, <2>2, <2>3, <1>17, ReaderStep DEF CursorInv
<1>12. ASSUME NEW r \in Readers, NoRecord(r) PROVE CursorInv'
  <2> USE <1>12 DEF NoRecord, Return, TypeOK
  <2>1. ReaderAtHead'
    BY HeaderType DEF CursorInv, ReaderAtHead, CursorOrder
  <2>2. UNCHANGED <<mode, head, tail, reserved, prodVars>>
    OBVIOUS
  <2>3. \E h \in Nat : head' = h /\ head <= h /\ h <= tail
    BY <2>2 DEF CursorInv, CursorOrder
  <2> QED
    BY <2>1, <2>2, <2>3, <1>17, ReaderStep DEF CursorInv
<1>13. ASSUME NEW r \in Readers, TakeRecord(r) PROVE CursorInv'
  <2> USE <1>13 DEF TakeRecord, WholeRecord, TypeOK
  <2>1. ReaderAtHead'
    <3>1. at[r] = head /\ at[r] + unread[r] <= tail
      BY DEF CursorInv, ReaderAtHead
    <3>2. /\ rlen' = [rlen EXCEPT ![r] = HeaderAt(r).len] /\ HeaderAt(r).len \in Nat
          /\ HeaderAt(r).len <= unread[r]
          /\ rpc' = [rpc EXCEPT ![r] = "hold"] /\ unread' = [unread EXCEPT ![r] = 0]
          /\ UNCHANGED <<mode, head, tail, at>>
      BY HeaderType
    <3>3. at[r] + HeaderAt(r).len <= tail
      BY <3>1, <3>2
    <3> QED
      BY <3>1, <3>2, <3>3 DEF CursorInv, ReaderAtHead
  <2>2. UNCHANGED <<mode, head, tail, reserved, prodVars>>
    OBVIOUS
  <2>3. \E h \in Nat : head' = h /\ head <= h /\ h <= tail
    BY <2>2 DEF CursorInv, CursorOrder
  <2> QED
    BY <2>1, <2>2, <2>3, <1>17, ReaderStep DEF CursorInv
<1>14. ASSUME NEW r \in Readers, SkipDummy(r) PROVE CursorInv'
  <2> USE <1>14 DEF SkipDummy, WholeRecord, Return, TypeOK
  <2>1. \E h \in Nat : head' = h /\ head <= h /\ h <= tail
    <3> DEFINE n == HeaderAt(r).len
    <3>1. n \in Nat /\ n <= unread[r] /\ head' = at[r] + n
      BY HeaderType
    <3>2. at[r] = head /\ at[r] + unread[r] <= tail /\ unread[r] \in Nat
      BY DEF CursorInv, ReaderAtHead
    <3>3. head' = head + n /\ head + n <= tail
      <4> HIDE DEF n
      <4> QED BY <3>1, <3>2
    <3> QED BY <3>1, <3>3
  <2>2. ReaderAtHead'
    BY DEF CursorInv, ReaderAtHead, SingleReader
  <2>3. UNCHANGED <<mode, tail, reserved, prodVars>>
    OBVIOUS
  <2> QED
    BY <2>1, <2>2, <2>3, <1>17, ReaderStep DEF CursorInv
<1>15. ASSUME NEW r \in Readers, DropRef(r) PROVE CursorInv'
  <2> USE <1>15 DEF DropRef, Return, TypeOK
  <2>1. \E h \in Nat : head' = h /\ head <= h /\ h <= tail
    <3>1. head' = head + rlen[r] /\ rlen[r] \in Nat /\ head + rlen[r] <= tail
      BY HeaderType DEF CursorInv, ReaderAtHead
    <3> QED BY <3>1
  <2>2. ReaderAtHead'
    BY DEF CursorInv, ReaderAtHead, SingleReader
  <2>3. UNCHANGED <<mode, tail, reserved, prodVars>>
    OBVIOUS
  <2> QED
    BY <2>1, <2>2, <2>3, <1>17, ReaderStep DEF CursorInv
<1>16. CASE UNCHANGED vars
  BY <1>16 DEF vars, CursorInv, TypeOK, CursorOrder, LoadsStillHold, OpenWithin,
     ReaderAtHead, ReservationsDisjoint, NoStrandedReservation, Open
<1> QED
  BY <1>1, <1>2, <1>3, <1>4, <1>5, <1>6, <1>7, <1>8, <1>9, <1>10, <1>11,
     <1>12, <1>13, <1>14, <1>15, <1>16 DEF Next, Transaction, Poll, ReadHeader

(* For every ring size and every interleaving of any number of producers    *)
(* (one, on a per-core ring) with one reader: no reservation overlaps       *)
(* another or unread data (data.rs:61-65).                                  *)
THEOREM ReservationsNeverOverlap ==
  ASSUME SingleWriter, SingleReader
  PROVE  Spec => []ReservationsDisjoint
<1>1. CursorInv => ReservationsDisjoint
  BY DEF CursorInv
<1> QED
  BY <1>1, InitCursors, NextCursors, PTL DEF Spec

(* On the CAS ring the unpublished space is always a chain of open          *)
(* reservations starting at tail, so some producer is free to commit        *)
(* (data.rs:106-107).                                                       *)
THEOREM SomeCommitIsNext ==
  ASSUME SingleWriter, SingleReader
  PROVE  Spec => []NoStrandedReservation
<1>1. CursorInv => NoStrandedReservation
  BY DEF CursorInv
<1> QED
  BY <1>1, InitCursors, NextCursors, PTL DEF Spec

(* A release never moves head back nor past tail: a reader's record ends    *)
(* within what was published when it looked, and only it moves head.        *)
LEMMA HeadStep ==
  ASSUME CursorInv, [Next]_vars
  PROVE  [head' >= head /\ head' <= tail]_head
<1>1. SUFFICES ASSUME head' # head PROVE head' >= head /\ head' <= tail
  OBVIOUS
<1>2. \E r \in Readers : SkipDummy(r) \/ DropRef(r)
  BY <1>1 DEF Next, vars, Transaction, Poll, ReadHeader, Begin, LoadCursor, SpaceFound, NoSpace,
     TakeReservation, LoseReservation, PushSlice, PushDummy, Abandon, CommitTail,
     LoadStatus, NoRecord, TakeRecord
<1>3. ASSUME NEW r \in Readers, SkipDummy(r) PROVE head' >= head /\ head' <= tail
  <2> DEFINE n == HeaderAt(r).len
  <2>1. n \in Nat /\ n <= unread[r] /\ head' = at[r] + n
    BY <1>3, SizePositive, HeaderType DEF SkipDummy, WholeRecord, CursorInv, TypeOK
  <2>2. /\ at[r] = head /\ at[r] + unread[r] <= tail
        /\ unread[r] \in Nat /\ head \in Nat /\ tail \in Nat
    BY <1>3 DEF SkipDummy, WholeRecord, CursorInv, ReaderAtHead, TypeOK
  <2> HIDE DEF n
  <2> QED BY <2>1, <2>2
<1>4. ASSUME NEW r \in Readers, DropRef(r) PROVE head' >= head /\ head' <= tail
  <2>1. head' = head + rlen[r] /\ rlen[r] \in Nat /\ head + rlen[r] <= tail /\ head \in Nat
    BY <1>4 DEF DropRef, CursorInv, ReaderAtHead, TypeOK
  <2> QED BY <2>1
<1> QED BY <1>2, <1>3, <1>4

(* For every instance with one reader per ring, head only advances, and     *)
(* only over published records (dll/src/ringbuffer.rs:97, 282).             *)
THEOREM HeadNeverRetreats ==
  ASSUME SingleWriter, SingleReader
  PROVE  Spec => HeadAdvances
<1>1. CursorInv /\ [Next]_vars => [head' >= head /\ head' <= tail]_head
  BY HeadStep
<1> QED
  BY <1>1, InitCursors, NextCursors, PTL DEF Spec, HeadAdvances

(***************************************************************************)
(* What a reader holds.  The cursors alone do not say that the bytes       *)
(* behind a PacketRef are one record: that needs the memory as well.  The  *)
(* published bytes are cut into records by a set of boundaries that        *)
(* contains head and tail; an open reservation has written exactly the     *)
(* bytes it counts in its offset; and what a reader loaded from a header   *)
(* is still in that header.                                                *)
(***************************************************************************)

RecordLen(x) == mem[Index(x)].len

\* The n cells from x on are one record of one producer.
IntactAt(x, n) ==
  \E p \in Producers : \A i \in 0..(n - 1) :
    LET c == mem[Index(x + i)]
    IN  c.by = {p} /\ c.start = x /\ c.off = i /\ ~c.dummy

\* A header that says how far it is to the next boundary.
RecordAt(x) ==
  /\ RecordLen(x) > 0
  /\ mem[Index(x)].dummy \/ IntactAt(x, RecordLen(x))

Boundaries(S) ==
  /\ S \subseteq 0..tail /\ head \in S /\ tail \in S
  /\ \A s \in S : head <= s /\ s < tail => RecordAt(s) /\ s + RecordLen(s) \in S
  /\ \A s, u \in S : head <= s /\ s < u => s + RecordLen(s) <= u
  /\ \A r \in Readers : rpc[r] = "header" => at[r] + unread[r] \in S

\* The bytes tx.offset counts.
Written(p) ==
  \A i \in 0..(off[p] - 1) :
    mem[Index(start[p] + i)] =
      [by |-> {p}, start |-> start[p], off |-> i,
       len |-> IF i = 0 THEN want[p] ELSE 0, dummy |-> FALSE]

\* The header a reservation given up has instead.
Marked(p) ==
  mem[Index(start[p])] =
    [by |-> {p}, start |-> start[p], off |-> 0, len |-> want[p], dummy |-> TRUE]

OpenWritten ==
  \A p \in Producers :
    /\ pc[p] = "write" => Written(p)
    /\ pc[p] = "dummy" => Marked(p)

ReaderKnows ==
  \A r \in Readers :
    /\ rpc[r] = "header" => unread[r] > 0
    /\ rpc[r] = "hold" => rlen[r] > 0 /\ rlen[r] = RecordLen(at[r]) /\ ~HeaderAt(r).dummy

MemoryInv == CursorInv /\ OpenWritten /\ ReaderKnows /\ \E S : Boundaries(S)

(* Two positions less than a ring length apart are two slots.               *)
LEMMA IndexApart ==
  ASSUME NEW x \in Nat, NEW y \in Nat, x < y, y < x + Size
  PROVE  Index(x) # Index(y)
<1> DEFINE a == x \div Size
           b == y \div Size
<1>1. a \in Int /\ b \in Int /\ x = a * Size + (x % Size) /\ y = b * Size + (y % Size)
  BY SizePositive
<1>2. SUFFICES ASSUME x % Size = y % Size PROVE FALSE
  BY DEF Index
<1>3. (b - a) * Size = y - x
  BY <1>1, <1>2, SizePositive
<1>4. b - a >= 1
  BY <1>3, <1>1, SizePositive
<1>5. (b - a) * Size >= Size
  BY <1>4, <1>1, SizePositive
<1> QED BY <1>3, <1>5, SizePositive

(* The slot a producer writes is none of the published ones and none of     *)
(* those another open reservation, or it itself, has written.               *)
LEMMA SlotIsOwn ==
  ASSUME CursorInv, NEW p \in Producers, Open(p), NEW k \in Nat, k < want[p]
  PROVE  /\ start[p] + k \in Nat
         /\ \A y \in Nat : head <= y /\ y < tail => Index(y) # Index(start[p] + k)
         /\ \A i \in Nat : i < want[p] /\ i # k => Index(start[p] + i) # Index(start[p] + k)
         /\ \A q \in Producers, i \in Nat : q # p /\ Open(q) /\ i < want[q] =>
              Index(start[q] + i) # Index(start[p] + k)
<1> DEFINE w == start[p] + k
<1>1. /\ w \in Nat /\ head \in Nat /\ tail \in Nat /\ want[p] \in Nat /\ start[p] \in Nat
      /\ head <= tail /\ tail <= start[p] /\ start[p] + want[p] <= head + Size
  BY DEF CursorInv, TypeOK, CursorOrder, ReservationsDisjoint
<1>2. ASSUME NEW y \in Nat, head <= y, y < head + Size, y # w
      PROVE  Index(y) # Index(w)
  <2>1. head <= w /\ w < head + Size
    BY <1>1, SizePositive
  <2>2. CASE y < w
    BY <1>1, <1>2, <2>1, <2>2, IndexApart, SizePositive
  <2>3. CASE w < y
    BY <1>1, <1>2, <2>1, <2>3, IndexApart, SizePositive
  <2> HIDE DEF w
  <2> QED BY <1>1, <1>2, <2>2, <2>3
<1>3. ASSUME NEW y \in Nat, head <= y, y < tail PROVE Index(y) # Index(w)
  BY <1>1, <1>2, <1>3, SizePositive
<1>4. ASSUME NEW i \in Nat, i < want[p], i # k PROVE Index(start[p] + i) # Index(w)
  BY <1>1, <1>2, <1>4, SizePositive
<1>5. ASSUME NEW q \in Producers, NEW i \in Nat, q # p, Open(q), i < want[q]
      PROVE  Index(start[q] + i) # Index(w)
  <2>1. /\ want[q] \in Nat /\ start[q] \in Nat
        /\ tail <= start[q] /\ start[q] + want[q] <= head + Size
        /\ start[p] + want[p] <= start[q] \/ start[q] + want[q] <= start[p]
    BY <1>5 DEF CursorInv, TypeOK, ReservationsDisjoint
  <2>2. start[q] + i \in Nat /\ head <= start[q] + i /\ start[q] + i < head + Size
    BY <1>1, <1>5, <2>1, SizePositive
  <2>3. start[q] + i # w
    BY <1>1, <1>5, <2>1
  <2> HIDE DEF w
  <2> QED BY <1>2, <2>2, <2>3
<1> QED BY <1>1, <1>3, <1>4, <1>5


(* A step that leaves the published bytes and tail alone, and leaves head   *)
(* where it is or moves it to another boundary, keeps the boundaries.       *)
LEMMA BoundariesKept ==
  ASSUME TypeOK, NEW S, Boundaries(S), tail' = tail, head' \in S, head <= head',
         \A y \in Nat : head <= y /\ y < tail => mem'[Index(y)] = mem[Index(y)],
         \A r \in Readers : rpc'[r] = "header" => at'[r] + unread'[r] \in S
  PROVE  Boundaries(S)'
<1> USE DEF TypeOK
<1>1. ASSUME NEW s \in S, head' <= s, s < tail'
      PROVE  RecordAt(s)' /\ s + RecordLen(s)' \in S
  <2>1. s \in Nat /\ head <= s /\ s < tail
    BY <1>1 DEF Boundaries
  <2>2. RecordLen(s)' = RecordLen(s) /\ mem'[Index(s)] = mem[Index(s)]
    BY <2>1 DEF RecordLen
  <2>3. RecordAt(s) /\ s + RecordLen(s) \in S
    BY <1>1, <2>1 DEF Boundaries
  <2>4. ASSUME IntactAt(s, RecordLen(s)) PROVE IntactAt(s, RecordLen(s))'
    <3>1. PICK p \in Producers : \A i \in 0..(RecordLen(s) - 1) :
            LET c == mem[Index(s + i)]
            IN  c.by = {p} /\ c.start = s /\ c.off = i /\ ~c.dummy
      BY <2>4 DEF IntactAt
    <3>2. ASSUME NEW i \in 0..(RecordLen(s) - 1) PROVE mem'[Index(s + i)] = mem[Index(s + i)]
      <4>1. RecordLen(s) \in Nat
        BY <2>1, IndexInRange DEF RecordLen, Cell
      <4>2. s + i \in Nat /\ head <= s + i /\ s + i < tail
        BY <2>1, <2>3, <4>1 DEF Boundaries
      <4> QED BY <4>2
    <3>3. \A i \in 0..(RecordLen(s)' - 1) :
            LET c == mem'[Index(s + i)]
            IN  c.by = {p} /\ c.start = s /\ c.off = i /\ ~c.dummy
      BY <2>2, <3>1, <3>2
    <3> QED BY <3>3 DEF IntactAt
  <2> QED BY <2>2, <2>3, <2>4 DEF RecordAt
<1>2. ASSUME NEW s \in S, NEW u \in S, head' <= s, s < u
      PROVE  s + RecordLen(s)' <= u
  <2>1. s \in Nat /\ head <= s /\ s < tail
    BY <1>2 DEF Boundaries
  <2>2. RecordLen(s)' = RecordLen(s)
    BY <2>1 DEF RecordLen
  <2> QED BY <1>2, <2>1, <2>2 DEF Boundaries
<1> QED BY <1>1, <1>2 DEF Boundaries

(* A step that writes no byte.                                              *)
LEMMA WritesKept ==
  ASSUME OpenWritten, UNCHANGED mem,
         \A p \in Producers : Open(p)' =>
           \/ pc'[p] = "write" /\ off'[p] = 0
           \/ /\ pc'[p] = pc[p] /\ start'[p] = start[p]
              /\ want'[p] = want[p] /\ off'[p] = off[p]
  PROVE  OpenWritten'
<1>1. ASSUME NEW p \in Producers, pc'[p] = "write" PROVE Written(p)'
  <2>1. CASE off'[p] = 0
    BY <2>1 DEF Written
  <2>2. CASE off'[p] # 0
    <3>1. pc[p] = "write" /\ start'[p] = start[p] /\ want'[p] = want[p] /\ off'[p] = off[p]
      BY <1>1, <2>2 DEF Open
    <3> QED BY <3>1 DEF OpenWritten, Written
  <2> QED BY <2>1, <2>2
<1>2. ASSUME NEW p \in Producers, pc'[p] = "dummy"
      PROVE  Marked(p)'
  <2>1. pc[p] = "dummy" /\ start'[p] = start[p] /\ want'[p] = want[p]
    BY <1>2 DEF Open
  <2> QED BY <2>1 DEF OpenWritten, Marked
<1> QED BY <1>1, <1>2 DEF OpenWritten

(* What a reader knows outlasts every step that is not its own and leaves   *)
(* the published bytes alone.                                               *)
LEMMA ReaderKept ==
  ASSUME CursorInv, ReaderKnows, UNCHANGED <<rpc, at, unread, rlen>>,
         \A y \in Nat : head <= y /\ y < tail => mem'[Index(y)] = mem[Index(y)]
  PROVE  ReaderKnows'
<1>1. ASSUME NEW r \in Readers, rpc[r] = "hold"
      PROVE  mem'[Index(at[r])] = mem[Index(at[r])]
  <2>1. at[r] = head /\ at[r] + rlen[r] <= tail /\ rlen[r] > 0
    BY <1>1 DEF CursorInv, ReaderAtHead, ReaderKnows
  <2> QED BY <2>1 DEF CursorInv, TypeOK
<1> QED BY <1>1 DEF ReaderKnows, RecordLen, HeaderAt

(* A producer's own write: no published byte and no other byte of an open   *)
(* reservation is at its slot.                                              *)
LEMMA OneCellWritten ==
  ASSUME CursorInv, NEW p \in Producers, Open(p), NEW k \in Nat, k < want[p],
         NEW c, mem' = [mem EXCEPT ![Index(start[p] + k)] = c]
  PROVE  /\ mem'[Index(start[p] + k)] = c
         /\ \A y \in Nat : Index(y) # Index(start[p] + k) => mem'[Index(y)] = mem[Index(y)]
         /\ \A y \in Nat : head <= y /\ y < tail => mem'[Index(y)] = mem[Index(y)]
         /\ \A i \in Nat : i < want[p] /\ i # k =>
              mem'[Index(start[p] + i)] = mem[Index(start[p] + i)]
<1> DEFINE w == Index(start[p] + k)
<1> USE DEF CursorInv
<1>1. /\ \A y \in Nat : Index(y) # w => mem'[Index(y)] = mem[Index(y)]
      /\ mem'[w] = c
  BY SlotIsOwn, IndexInRange DEF TypeOK
<1>2. \A y \in Nat : head <= y /\ y < tail => mem'[Index(y)] = mem[Index(y)]
  BY <1>1, SlotIsOwn
<1>3. ASSUME NEW i \in Nat, i < want[p], i # k
      PROVE  mem'[Index(start[p] + i)] = mem[Index(start[p] + i)]
  <2>1. Index(start[p] + i) # w
    BY <1>3, SlotIsOwn
  <2>2. start[p] + i \in Nat
    BY DEF TypeOK
  <2> QED BY <1>1, <2>1, <2>2
<1> QED BY <1>1, <1>2, <1>3

LEMMA OtherWritesKept ==
  ASSUME CursorInv, OpenWritten, NEW p \in Producers, Open(p), NEW k \in Nat, k < want[p],
         NEW c, mem' = [mem EXCEPT ![Index(start[p] + k)] = c],
         UNCHANGED <<start, want>>,
         \A q \in Producers : q # p => pc'[q] = pc[q] /\ off'[q] = off[q]
  PROVE  \A q \in Producers : q # p =>
           /\ pc'[q] = "write" => Written(q)'
           /\ pc'[q] = "dummy" => Marked(q)'
<1> DEFINE w == Index(start[p] + k)
<1> USE DEF CursorInv
<1>1. \A y \in Nat : Index(y) # w => mem'[Index(y)] = mem[Index(y)]
  BY OneCellWritten
<1>4. ASSUME NEW q \in Producers, q # p, Open(q), NEW i \in Nat, i < want[q]
      PROVE  mem'[Index(start[q] + i)] = mem[Index(start[q] + i)]
  <2>1. Index(start[q] + i) # w
    BY <1>4, SlotIsOwn
  <2>2. start[q] + i \in Nat
    BY DEF TypeOK
  <2> QED BY <1>1, <2>1, <2>2
<1>5. ASSUME NEW q \in Producers, q # p, pc'[q] = "write" PROVE Written(q)'
  <2>1. pc[q] = "write" /\ Open(q) /\ off'[q] = off[q] /\ start'[q] = start[q] /\ want'[q] = want[q]
    BY <1>5 DEF Open
  <2>2. off[q] \in Nat /\ want[q] \in Nat /\ off[q] <= want[q]
    BY <2>1 DEF OpenWithin, TypeOK
  <2>3. \A i \in 0..(off[q] - 1) : mem'[Index(start[q] + i)] = mem[Index(start[q] + i)]
    BY <1>4, <1>5, <2>1, <2>2
  <2>4. Written(q)
    BY <2>1 DEF OpenWritten
  <2> HIDE DEF w
  <2> QED BY <2>1, <2>3, <2>4 DEF Written
<1>6. ASSUME NEW q \in Producers, q # p, pc'[q] = "dummy"
      PROVE  Marked(q)'
  <2>1. pc[q] = "dummy" /\ Open(q) /\ start'[q] = start[q] /\ want'[q] = want[q]
        /\ want[q] > 0 /\ start[q] \in Nat
    BY <1>6 DEF Open, OpenWithin, TypeOK
  <2>2. mem'[Index(start[q])] = mem[Index(start[q])]
    <3>1. 0 \in Nat /\ 0 < want[q] /\ start[q] + 0 = start[q]
      BY <2>1 DEF TypeOK
    <3>2. mem'[Index(start[q] + 0)] = mem[Index(start[q] + 0)]
      BY <1>4, <1>6, <2>1, <3>1
    <3> QED BY <3>1, <3>2
  <2>3. Marked(q)
    BY <2>1 DEF OpenWritten
  <2> QED BY <2>1, <2>2, <2>3 DEF Marked
<1> QED BY <1>5, <1>6


LEMMA InitMemory == Init => MemoryInv
<1> SUFFICES ASSUME Init PROVE MemoryInv
  OBVIOUS
<1>1. OpenWritten /\ ReaderKnows
  BY DEF Init, OpenWritten, ReaderKnows
<1>2. Boundaries({0})
  BY DEF Init, Boundaries
<1> QED BY <1>1, <1>2, InitCursors DEF MemoryInv

(* A step that touches neither the memory nor the reader, and opens at most *)
(* a reservation with nothing written in it.                                *)
LEMMA QuietMemory ==
  ASSUME MemoryInv, CursorInv', UNCHANGED <<head, tail, mem, readVars>>,
         \A p \in Producers : Open(p)' =>
           \/ pc'[p] = "write" /\ off'[p] = 0
           \/ /\ pc'[p] = pc[p] /\ start'[p] = start[p]
              /\ want'[p] = want[p] /\ off'[p] = off[p]
  PROVE  MemoryInv'
<1>1. PICK S : Boundaries(S)
  BY DEF MemoryInv
<1>2. TypeOK /\ CursorInv /\ ReaderKnows /\ OpenWritten
  BY DEF MemoryInv, CursorInv
<1>3. Boundaries(S)'
  <2>1. head' \in S /\ head <= head' /\ tail' = tail /\ mem' = mem
    BY <1>1, <1>2 DEF Boundaries, TypeOK
  <2>2. \A r \in Readers : rpc'[r] = "header" => at'[r] + unread'[r] \in S
    BY <1>1 DEF Boundaries, readVars
  <2> QED BY <1>1, <1>2, <2>1, <2>2, BoundariesKept
<1>4. ReaderKnows'
  BY <1>2, ReaderKept DEF readVars
<1>5. OpenWritten'
  BY <1>2, WritesKept
<1> QED BY <1>3, <1>4, <1>5 DEF MemoryInv

(* A producer's write.                                                      *)
LEMMA WriteMemory ==
  ASSUME MemoryInv, CursorInv', UNCHANGED <<head, tail, start, want, readVars>>,
         NEW p \in Producers, Open(p), NEW k \in Nat, k < want[p],
         NEW c, mem' = [mem EXCEPT ![Index(start[p] + k)] = c],
         \A q \in Producers : q # p => pc'[q] = pc[q] /\ off'[q] = off[q],
         pc'[p] = "write" => Written(p)',
         pc'[p] = "dummy" => Marked(p)'
  PROVE  MemoryInv'
<1>1. PICK S : Boundaries(S)
  BY DEF MemoryInv
<1>2. TypeOK /\ CursorInv /\ ReaderKnows /\ OpenWritten
  BY DEF MemoryInv, CursorInv
<1>3. /\ \A y \in Nat : head <= y /\ y < tail => mem'[Index(y)] = mem[Index(y)]
      /\ \A q \in Producers : q # p =>
           /\ pc'[q] = "write" => Written(q)'
           /\ pc'[q] = "dummy" => Marked(q)'
  <2>1. UNCHANGED <<start, want>>
    OBVIOUS
  <2> QED BY <1>2, <2>1, OneCellWritten, OtherWritesKept
<1>4. Boundaries(S)'
  <2>1. head' \in S /\ head <= head' /\ tail' = tail
    BY <1>1, <1>2 DEF Boundaries, TypeOK
  <2>2. \A r \in Readers : rpc'[r] = "header" => at'[r] + unread'[r] \in S
    BY <1>1 DEF Boundaries, readVars
  <2> QED BY <1>1, <1>2, <1>3, <2>1, <2>2, BoundariesKept
<1>5. ReaderKnows'
  BY <1>2, <1>3, ReaderKept DEF readVars
<1>6. OpenWritten'
  <2>1. ASSUME NEW q \in Producers
        PROVE  /\ pc'[q] = "write" => Written(q)'
               /\ pc'[q] = "dummy" => Marked(q)'
    <3>1. CASE q = p
      BY <3>1
    <3>2. CASE q # p
      BY <3>2, <1>3
    <3> QED BY <3>1, <3>2
  <2> QED BY <2>1 DEF OpenWritten
<1> QED BY <1>4, <1>5, <1>6 DEF MemoryInv

(* A commit makes one more record of what its producer wrote.               *)
LEMMA CommitMemory ==
  ASSUME MemoryInv, CursorInv', NEW p \in Producers, CommitTail(p)
  PROVE  MemoryInv'
<1>1. PICK S : Boundaries(S)
  BY DEF MemoryInv
<1>2. TypeOK /\ CursorInv /\ ReaderKnows /\ OpenWritten
  BY DEF MemoryInv, CursorInv
<1> DEFINE n == want[p]
<1>3. /\ Open(p) /\ start[p] = tail /\ tail' = tail + n /\ n > 0 /\ n \in Nat
      /\ tail \in Nat /\ head \in Nat /\ head <= tail
      /\ UNCHANGED <<mode, head, mem, rpc, at, unread, rlen>>
  <2>1. Open(p) /\ n > 0 /\ n \in Nat /\ tail \in Nat /\ head \in Nat /\ head <= tail
    BY <1>2 DEF CommitTail, Open, CursorInv, OpenWithin, CursorOrder, TypeOK
  <2>2. start[p] = tail
    BY <1>2, <2>1 DEF CommitTail, CursorInv, OpenWithin
  <2>3. tail' = tail + n
    BY <2>2 DEF CommitTail, CommitSize
  <2> QED BY <2>1, <2>2, <2>3 DEF CommitTail, readVars
<1>4. RecordAt(tail) /\ RecordLen(tail) = n
  <2>1. CASE pc[p] = "dummy"
    <3>1. mem[Index(tail)] =
            [by |-> {p}, start |-> tail, off |-> 0, len |-> n, dummy |-> TRUE]
      BY <1>2, <1>3, <2>1 DEF OpenWritten, Marked
    <3> HIDE DEF n
    <3> QED BY <1>3, <3>1 DEF RecordAt, RecordLen
  <2>2. CASE pc[p] # "dummy"
    <3>1. pc[p] = "write" /\ off[p] = n
      BY <2>2 DEF CommitTail
    <3>2. \A i \in 0..(n - 1) :
            mem[Index(tail + i)] =
              [by |-> {p}, start |-> tail, off |-> i,
               len |-> IF i = 0 THEN n ELSE 0, dummy |-> FALSE]
      BY <1>2, <1>3, <3>1 DEF OpenWritten, Written
    <3> HIDE DEF n
    <3>3. RecordLen(tail) = n
      <4>1. 0 \in 0..(n - 1) /\ tail + 0 = tail
        BY <1>3
      <4>2. mem[Index(tail + 0)] =
              [by |-> {p}, start |-> tail, off |-> 0, len |-> n, dummy |-> FALSE]
        BY <3>2, <4>1
      <4> QED BY <4>1, <4>2 DEF RecordLen
    <3>4. ASSUME NEW i \in 0..(n - 1)
          PROVE  LET c == mem[Index(tail + i)]
                 IN  c.by = {p} /\ c.start = tail /\ c.off = i /\ ~c.dummy
      <4>1. mem[Index(tail + i)] =
              [by |-> {p}, start |-> tail, off |-> i,
               len |-> IF i = 0 THEN n ELSE 0, dummy |-> FALSE]
        BY <3>2
      <4> QED BY <4>1
    <3>5. IntactAt(tail, n)
      BY <3>4 DEF IntactAt
    <3> QED BY <1>3, <3>3, <3>5 DEF RecordAt
  <2> QED BY <2>1, <2>2
<1> HIDE DEF n
<1>12. S \subseteq 0..tail
  BY <1>1 DEF Boundaries
<1>13. PICK T : T = S \cup {tail + n}
  OBVIOUS
<1>5. \A s \in T : s \in Nat /\ s <= tail + n
  BY <1>3, <1>12, <1>13
<1>6. \A s \in T : head <= s /\ s < tail + n => s \in S /\ RecordAt(s) /\ s + RecordLen(s) \in T
  <2>1. ASSUME NEW s \in T, head <= s, s < tail + n
        PROVE  s \in S /\ RecordAt(s) /\ s + RecordLen(s) \in T
    <3>1. s \in S
      BY <1>3, <1>13, <2>1
    <3>2. CASE s = tail
      BY <1>4, <1>13, <3>1, <3>2
    <3>3. CASE s # tail
      <4>1. s < tail
        BY <1>3, <1>12, <3>1, <3>3
      <4> QED BY <1>1, <1>13, <2>1, <3>1, <4>1 DEF Boundaries
    <3> QED BY <3>2, <3>3
  <2> QED BY <2>1
<1>7. \A s, u \in T : head <= s /\ s < u => s + RecordLen(s) <= u
  <2>1. ASSUME NEW s \in T, NEW u \in T, head <= s, s < u PROVE s + RecordLen(s) <= u
    <3>1. s < tail + n
      BY <1>3, <1>5, <2>1
    <3>2. s \in S /\ s + RecordLen(s) \in T
      BY <1>6, <2>1, <3>1
    <3>3. CASE u \in S
      BY <1>1, <2>1, <3>2, <3>3 DEF Boundaries
    <3>4. CASE u \notin S
      BY <1>5, <1>13, <3>2, <3>4
    <3> QED BY <3>3, <3>4
  <2> QED BY <2>1
<1>8. \A x : (RecordAt(x)' <=> RecordAt(x)) /\ RecordLen(x)' = RecordLen(x)
  BY <1>3 DEF RecordAt, RecordLen, IntactAt
<1>9. Boundaries(T)'
  <2>1. T \subseteq 0..tail' /\ head' \in T /\ tail' \in T
    BY <1>1, <1>3, <1>5, <1>13 DEF Boundaries
  <2>2. \A s \in T : head' <= s /\ s < tail' => RecordAt(s)' /\ s + RecordLen(s)' \in T
    BY <1>3, <1>6, <1>8
  <2>3. \A s, u \in T : head' <= s /\ s < u => s + RecordLen(s)' <= u
    BY <1>3, <1>7, <1>8
  <2>4. \A r \in Readers : rpc'[r] = "header" => at'[r] + unread'[r] \in T
    BY <1>1, <1>3, <1>13 DEF Boundaries
  <2>5. \A s, u \in T : head' <= s /\ s < u => (s + RecordLen(s) <= u)'
    BY <2>3
  <2> QED BY <2>1, <2>2, <2>4, <2>5 DEF Boundaries
<1>10. ReaderKnows'
  BY <1>2, <1>3, ReaderKept
<1>11. OpenWritten'
  <2>1. \A q \in Producers : Open(q)' =>
          /\ pc'[q] = pc[q] /\ start'[q] = start[q]
          /\ want'[q] = want[q] /\ off'[q] = off[q]
    BY <1>2 DEF CommitTail, Leave, TypeOK, Open
  <2> QED BY <1>2, <1>3, <2>1, WritesKept
<1> QED BY <1>9, <1>10, <1>11 DEF MemoryInv


(* A reader at work moves head, if at all, from one boundary to the next.   *)
LEMMA ReaderMemory ==
  ASSUME MemoryInv, CursorInv', UNCHANGED <<tail, mem, prodVars>>,
         head' = head \/ (head < tail /\ head' = head + RecordLen(head)),
         ReaderKnows',
         \A r \in Readers : rpc'[r] = "header" =>
           \/ rpc[r] = "header" /\ at'[r] = at[r] /\ unread'[r] = unread[r]
           \/ at'[r] + unread'[r] = tail
  PROVE  MemoryInv'
<1>1. PICK S : Boundaries(S)
  BY DEF MemoryInv
<1>2. TypeOK /\ OpenWritten
  BY DEF MemoryInv, CursorInv
<1>3. head \in Nat /\ head \in S
  BY <1>1, <1>2 DEF Boundaries, TypeOK
<1>4. head' \in S /\ head <= head'
  <2>1. CASE head' = head
    BY <1>3, <2>1
  <2>2. CASE head < tail /\ head' = head + RecordLen(head)
    <3>1. head + RecordLen(head) \in S
      BY <1>1, <1>3, <2>2 DEF Boundaries
    <3>2. RecordLen(head) \in Nat
      BY <1>2, <1>3, IndexInRange DEF RecordLen, Cell, TypeOK
    <3> QED BY <1>3, <2>2, <3>1, <3>2
  <2> QED BY <2>1, <2>2
<1>5. \A r \in Readers : rpc'[r] = "header" => at'[r] + unread'[r] \in S
  BY <1>1 DEF Boundaries
<1>6. Boundaries(S)'
  BY <1>1, <1>2, <1>4, <1>5, BoundariesKept
<1>7. OpenWritten'
  BY <1>2, WritesKept DEF prodVars
<1> QED BY <1>6, <1>7 DEF MemoryInv

(* A reader that found bytes to read finds a whole record at head.          *)
LEMMA HeaderIsWhole ==
  ASSUME MemoryInv, NEW r \in Readers, rpc[r] = "header"
  PROVE  WholeRecord(r) /\ at[r] = head /\ head < tail
<1>1. PICK S : Boundaries(S)
  BY DEF MemoryInv
<1>2. /\ at[r] = head /\ at[r] + unread[r] <= tail /\ unread[r] > 0
      /\ at[r] + unread[r] \in S /\ unread[r] \in Nat /\ head \in Nat /\ tail \in Nat
  BY <1>1 DEF MemoryInv, CursorInv, ReaderAtHead, ReaderKnows, Boundaries, TypeOK
<1>3. head < tail
  BY <1>2
<1>4. RecordLen(head) > 0 /\ head + RecordLen(head) <= head + unread[r]
  BY <1>1, <1>2, <1>3 DEF Boundaries, RecordAt
<1>5. RecordLen(head) \in Nat /\ HeaderAt(r).len = RecordLen(head)
  BY <1>2, HeaderType DEF HeaderAt, RecordLen, MemoryInv, CursorInv
<1> QED BY <1>2, <1>3, <1>4, <1>5 DEF WholeRecord

LEMMA NextMemory ==
  ASSUME SingleWriter, SingleReader, MemoryInv, [Next]_vars
  PROVE  MemoryInv'
<1>0. CursorInv /\ CursorInv' /\ TypeOK /\ ReaderKnows /\ OpenWritten
  BY NextCursors DEF MemoryInv, CursorInv
<1> USE DEF TypeOK
<1>1. ASSUME NEW p \in Producers, NEW n \in Lens, Begin(p, n) PROVE MemoryInv'
  BY <1>0, <1>1, QuietMemory DEF Begin, Open
<1>2. ASSUME NEW p \in Producers, LoadCursor(p) PROVE MemoryInv'
  BY <1>0, <1>2, QuietMemory DEF LoadCursor, Open
<1>3. ASSUME NEW p \in Producers, SpaceFound(p) PROVE MemoryInv'
  BY <1>0, <1>3, QuietMemory DEF SpaceFound, Open
<1>4. ASSUME NEW p \in Producers, NoSpace(p) PROVE MemoryInv'
  BY <1>0, <1>4, QuietMemory DEF NoSpace, Leave, Open
<1>5. ASSUME NEW p \in Producers, LoseReservation(p) PROVE MemoryInv'
  BY <1>0, <1>5, QuietMemory DEF LoseReservation, Open
<1>6. ASSUME NEW p \in Producers, TakeReservation(p) PROVE MemoryInv'
  BY <1>0, <1>6, QuietMemory DEF TakeReservation, Open
<1>7. ASSUME NEW p \in Producers, Abandon(p) PROVE MemoryInv'
  BY <1>0, <1>7, QuietMemory DEF Abandon, Leave, Open
<1>8. ASSUME NEW p \in Producers, PushSlice(p) PROVE MemoryInv'
  <2>5. PICK k : k = off[p]
    OBVIOUS
  <2>6. PICK c : c = [by |-> {p}, start |-> start[p], off |-> k,
                      len |-> IF k = 0 THEN want[p] ELSE 0, dummy |-> FALSE]
    OBVIOUS
  <2>1. /\ Open(p) /\ k \in Nat /\ k < want[p] /\ pc[p] = "write"
        /\ mem' = [mem EXCEPT ![Index(start[p] + k)] = c]
        /\ UNCHANGED <<head, tail, pc, start, want, readVars>>
        /\ off' = [off EXCEPT ![p] = k + 1]
    BY <1>0, <1>8, <2>5, <2>6 DEF PushSlice, Open
  <2>2. \A q \in Producers : q # p => pc'[q] = pc[q] /\ off'[q] = off[q]
    BY <1>0, <2>1
  <2>3. Written(p)'
    <3>1. ASSUME NEW i \in 0..(off'[p] - 1)
          PROVE  mem'[Index(start[p] + i)] =
                   [by |-> {p}, start |-> start[p], off |-> i,
                    len |-> IF i = 0 THEN want[p] ELSE 0, dummy |-> FALSE]
      <4>1. off'[p] = k + 1
        BY <1>0, <2>1
      <4>2. /\ \A j \in Nat : j < want[p] /\ j # k =>
                 mem'[Index(start[p] + j)] = mem[Index(start[p] + j)]
            /\ mem'[Index(start[p] + k)] = c
        <5>1. ASSUME NEW j \in Nat
              PROVE  Index(start[p] + j) \in 0..(Size - 1)
          <6>1. start[p] \in Nat
            BY <1>0
          <6>2. start[p] + j \in Nat
            BY <6>1
          <6> QED BY <6>2, IndexInRange
        <5>2. \A j \in Nat : j < want[p] /\ j # k => Index(start[p] + j) # Index(start[p] + k)
          BY <1>0, <2>1, SlotIsOwn
        <5> QED BY <1>0, <2>1, <5>1, <5>2
      <4>3. CASE i = k
        BY <2>6, <4>2, <4>3
      <4>4. CASE i # k
        <5>1. i \in 0..(k - 1) /\ i \in Nat /\ i < want[p]
          BY <1>0, <2>1, <4>1, <4>4
        <5>2. Written(p)
          BY <1>0, <2>1 DEF OpenWritten
        <5> QED BY <2>5, <4>2, <4>4, <5>1, <5>2 DEF Written
      <4> QED BY <4>3, <4>4
    <3>2. start' = start /\ want' = want
      BY <2>1
    <3> QED BY <3>1, <3>2 DEF Written
  <2>4. pc'[p] # "dummy"
    BY <2>1
  <2> QED BY <1>0, <2>1, <2>2, <2>3, <2>4, WriteMemory
<1>9. ASSUME NEW p \in Producers, PushDummy(p) PROVE MemoryInv'
  <2>5. PICK c : c = [by |-> {p}, start |-> start[p], off |-> 0, len |-> want[p], dummy |-> TRUE]
    OBVIOUS
  <2>6. Open(p) /\ 0 < want[p] /\ start[p] + 0 = start[p]
    <3>1. Open(p) /\ start[p] \in Nat /\ off[p] < want[p] /\ off[p] \in Nat /\ want[p] \in Nat
      BY <1>0, <1>9 DEF PushDummy, Open
    <3> QED BY <3>1
  <2>1. /\ mem' = [mem EXCEPT ![Index(start[p] + 0)] = c]
        /\ UNCHANGED <<head, tail, start, want, off, readVars>>
        /\ pc' = [pc EXCEPT ![p] = "dummy"]
    BY <1>9, <2>5, <2>6 DEF PushDummy
  <2>2. \A q \in Producers : q # p => pc'[q] = pc[q] /\ off'[q] = off[q]
    BY <1>0, <2>1
  <2>3. Marked(p)'
    <3>1. Index(start[p]) \in 0..(Size - 1)
      BY <1>0, IndexInRange
    <3>2. mem'[Index(start[p])] = c /\ start' = start /\ want' = want
      BY <1>0, <2>1, <2>6, <3>1
    <3> QED BY <2>5, <3>2 DEF Marked
  <2>4. pc'[p] # "write"
    BY <1>0, <2>1
  <2> QED BY <1>0, <2>1, <2>2, <2>3, <2>4, <2>6, WriteMemory
<1>10. ASSUME NEW p \in Producers, CommitTail(p) PROVE MemoryInv'
  BY <1>0, <1>10, CommitMemory
<1>20. \A r, s \in Readers : r = s
  BY DEF SingleReader
<1>11. ASSUME NEW r \in Readers, LoadStatus(r) PROVE MemoryInv'
  <2>1. ReaderKnows' /\ at'[r] + unread'[r] = tail
    BY <1>0, <1>11, <1>20 DEF LoadStatus, ReaderKnows
  <2>2. head' = head /\ UNCHANGED <<tail, mem, prodVars>>
    BY <1>11 DEF LoadStatus
  <2>3. \A s \in Readers : at'[s] + unread'[s] = tail
    BY <1>20, <2>1
  <2> QED BY <1>0, <2>1, <2>2, <2>3, ReaderMemory
<1>12. ASSUME NEW r \in Readers, NoRecord(r) PROVE MemoryInv'
  BY <1>12, HeaderIsWhole DEF NoRecord
<1>13. ASSUME NEW r \in Readers, TakeRecord(r) PROVE MemoryInv'
  <2>1. rpc'[r] = "hold" /\ rlen'[r] = HeaderAt(r).len
    BY <1>0, <1>13 DEF TakeRecord
  <2>2. UNCHANGED <<head, tail, mem, at, prodVars>> /\ HeaderAt(r).len > 0 /\ ~HeaderAt(r).dummy
    BY <1>13 DEF TakeRecord, WholeRecord
  <2>3. ReaderKnows'
    <3>1. HeaderAt(r)' = HeaderAt(r) /\ RecordLen(at[r])' = HeaderAt(r).len
      BY <2>2 DEF HeaderAt, RecordLen
    <3> QED BY <1>20, <2>1, <2>2, <3>1 DEF ReaderKnows
  <2>4. \A s \in Readers : rpc'[s] = "hold"
    BY <1>20, <2>1
  <2>5. head' = head /\ UNCHANGED <<tail, mem, prodVars>>
    BY <2>2
  <2> QED BY <1>0, <2>3, <2>4, <2>5, ReaderMemory
<1>14. ASSUME NEW r \in Readers, SkipDummy(r) PROVE MemoryInv'
  <2>1. rpc[r] = "header" /\ head' = at[r] + HeaderAt(r).len /\ Return(r)
        /\ UNCHANGED <<tail, mem, prodVars>>
    BY <1>14 DEF SkipDummy
  <2>2. at[r] = head /\ head < tail
    BY <2>1, HeaderIsWhole
  <2>3. head' = head + RecordLen(head)
    BY <2>1, <2>2 DEF HeaderAt, RecordLen
  <2>4. \A s \in Readers : rpc'[s] = "idle"
    BY <1>0, <1>20, <2>1 DEF Return
  <2>5. ReaderKnows'
    BY <2>4 DEF ReaderKnows
  <2> QED BY <1>0, <2>1, <2>2, <2>3, <2>4, <2>5, ReaderMemory
<1>15. ASSUME NEW r \in Readers, DropRef(r) PROVE MemoryInv'
  <2>1. rpc[r] = "hold" /\ head' = at[r] + rlen[r] /\ Return(r)
        /\ UNCHANGED <<tail, mem, prodVars>>
    BY <1>15 DEF DropRef
  <2>2. at[r] = head /\ at[r] + rlen[r] <= tail /\ rlen[r] > 0 /\ rlen[r] = RecordLen(at[r])
    BY <1>0, <2>1 DEF ReaderKnows, CursorInv, ReaderAtHead
  <2>3. head < tail /\ head' = head + RecordLen(head)
    BY <1>0, <2>1, <2>2
  <2>4. \A s \in Readers : rpc'[s] = "idle"
    BY <1>0, <1>20, <2>1 DEF Return
  <2>5. ReaderKnows'
    BY <2>4 DEF ReaderKnows
  <2> QED BY <1>0, <2>1, <2>3, <2>4, <2>5, ReaderMemory
<1>16. CASE UNCHANGED vars
  BY <1>0, <1>16, QuietMemory DEF vars, readVars, Open
<1> QED
  BY <1>1, <1>2, <1>3, <1>4, <1>5, <1>6, <1>7, <1>8, <1>9, <1>10, <1>11,
     <1>12, <1>13, <1>14, <1>15, <1>16 DEF Next, Transaction, Poll, ReadHeader

(* For every ring size and record length, and any number of producers on    *)
(* the CAS ring: from the moment a PacketRef is handed out until it is      *)
(* dropped, the bytes behind it are one whole record of one producer        *)
(* (dll/src/ringbuffer.rs:79-81).                                           *)
THEOREM HeldRecordsIntact ==
  ASSUME SingleWriter, SingleReader
  PROVE  Spec => []HeldIntact
<1>1. MemoryInv => HeldIntact
  <2> SUFFICES ASSUME MemoryInv, NEW r \in Readers, rpc[r] = "hold"
               PROVE  IntactAt(at[r], rlen[r])
    BY DEF HeldIntact, IntactAt
  <2>1. PICK S : Boundaries(S)
    BY DEF MemoryInv
  <2>2. /\ at[r] = head /\ at[r] + rlen[r] <= tail /\ rlen[r] > 0
        /\ rlen[r] = RecordLen(at[r]) /\ ~HeaderAt(r).dummy
        /\ head \in Nat /\ tail \in Nat /\ rlen[r] \in Nat
    BY DEF MemoryInv, CursorInv, ReaderAtHead, ReaderKnows, TypeOK
  <2>3. head < tail
    BY <2>2
  <2>4. RecordAt(head)
    BY <2>1, <2>2, <2>3 DEF Boundaries
  <2> QED BY <2>2, <2>4 DEF RecordAt, HeaderAt
<1> QED
  BY <1>1, InitMemory, NextMemory, PTL DEF Spec

(* The client's reader never meets a malformed or half-published header:    *)
(* whenever head and tail differ, a whole record starts at head, so that    *)
(* the reader returns None only for an empty ring, and the waits and        *)
(* consistency checks of dll/src/ringbuffer.rs:278-303 never reject one.    *)
HeadersWhole == \A r \in Readers : rpc[r] = "header" => WholeRecord(r)

THEOREM NoRecordRejected ==
  ASSUME SingleWriter, SingleReader
  PROVE  Spec => []HeadersWhole
<1>1. MemoryInv => HeadersWhole
  BY HeaderIsWhole DEF HeadersWhole
<1> QED
  BY <1>1, InitMemory, NextMemory, PTL DEF Spec

(***************************************************************************)
(* The inductive invariant: the space between head and the frontier is cut *)
(* into published records and open reservations, and tail is one of the    *)
(* cuts.                                                                   *)
(***************************************************************************)

Cut(B) ==
  /\ B \in Seq(Nat) /\ Len(B) >= 1
  /\ B[1] = head /\ B[Len(B)] = Frontier
  /\ \E k \in 1..Len(B) : B[k] = tail
  /\ \A i, j \in 1..Len(B) : i < j => B[i] < B[j]
  /\ \A i \in 1..(Len(B) - 1) :
       IF B[i] < tail
       THEN RecordLen(B[i]) = B[i + 1] - B[i]
       ELSE \E q \in Producers : Open(q) /\ start[q] = B[i] /\ want[q] = B[i + 1] - B[i]

FifoInv ==
  /\ MemoryInv
  /\ \A p \in Producers : pc[p] # "idle" => want[p] \in Lens
  /\ \E B : Cut(B)

(***************************************************************************)
(* The refinement mapping, seen through the cuts.                          *)
(***************************************************************************)

(* The frontier is the end of the last reservation.                         *)
FrontierKnown ==
  /\ IsCas => Frontier = reserved
  /\ \A p \in Producers : ~IsCas /\ Open(p) => Frontier = tail + want[p]
  /\ ~IsCas /\ (\A p \in Producers : ~Open(p)) => Frontier = tail

LEMMA OneOpenAtAPlace ==
  ASSUME CursorInv, NEW p \in Producers, NEW q \in Producers, Open(p), Open(q),
         ~IsCas \/ start[p] = start[q]
  PROVE  p = q
<1>1. /\ want[p] > 0 /\ want[q] > 0 /\ want[p] \in Nat /\ want[q] \in Nat
      /\ start[p] \in Nat /\ start[q] \in Nat
  BY DEF CursorInv, TypeOK, OpenWithin, Open
<1>2. start[p] = start[q]
  BY DEF CursorInv, OpenWithin
<1>3. SUFFICES ASSUME p # q PROVE FALSE
  OBVIOUS
<1>4. start[p] + want[p] <= start[q] \/ start[q] + want[q] <= start[p]
  BY <1>3 DEF CursorInv, ReservationsDisjoint
<1> QED BY <1>1, <1>2, <1>4

LEMMA FrontierIs == CursorInv => FrontierKnown
<1> SUFFICES ASSUME CursorInv PROVE FrontierKnown
  OBVIOUS
<1>1. ASSUME NEW p \in Producers, ~IsCas, Open(p) PROVE Frontier = tail + want[p]
  <2>1. (CHOOSE q \in Producers : Open(q)) = p
    BY <1>1, OneOpenAtAPlace
  <2>2. start[p] = tail
    BY <1>1 DEF CursorInv, OpenWithin
  <2> QED BY <1>1, <2>1, <2>2 DEF Frontier
<1>2. /\ IsCas => Frontier = reserved
      /\ ~IsCas /\ (\A p \in Producers : ~Open(p)) => Frontier = tail
  BY DEF Frontier
<1> QED BY <1>1, <1>2 DEF FrontierKnown

LEMMA FrontierNext == CursorInv' => FrontierKnown'
<1>1. (CursorInv => FrontierKnown)'
  BY FrontierIs, PTL
<1> QED BY <1>1

(* The entry of a reservation not yet published.                            *)
OpenEntry(q) == [by |-> {q}, len |-> want[q], st |-> "open"]

EntriesKnown ==
  \A q \in Producers : Open(q) /\ tail <= start[q] => EntryAt(start[q]) = OpenEntry(q)

LEMMA EntriesAre == CursorInv => EntriesKnown
<1> SUFFICES ASSUME CursorInv, NEW q \in Producers, Open(q), tail <= start[q]
             PROVE  EntryAt(start[q]) = OpenEntry(q)
  BY DEF EntriesKnown
<1>1. (CHOOSE p \in Producers : Open(p) /\ start[p] = start[q]) = q
  BY OneOpenAtAPlace
<1>2. ~(start[q] < tail)
  BY DEF CursorInv, TypeOK
<1> QED BY <1>1, <1>2 DEF EntryAt, OpenEntry

LEMMA EntriesNext == CursorInv' => EntriesKnown'
<1>1. (CursorInv => EntriesKnown)'
  BY EntriesAre, PTL
<1> QED BY <1>1

(* Induction over the naturals, on a set of naturals.                       *)
LEMMA SetInduction ==
  ASSUME NEW T, 0 \in T, \A n \in Nat : n \in T => n + 1 \in T
  PROVE  Nat \subseteq T
<1> DEFINE U == {n \in Nat : n \notin T}
<1>1. SUFFICES ASSUME U # {} PROVE FALSE
  OBVIOUS
<1>2. PICK x \in U : \A y \in U : ~ (<<y, x>> \in OpToRel(<, Nat))
  <2>1. IsWellFoundedOn(OpToRel(<, Nat), Nat)
    BY NatLessThanWellFounded
  <2>2. U \subseteq Nat
    OBVIOUS
  <2> HIDE DEF U
  <2> QED BY <1>1, <2>1, <2>2, WFMin, Zenon
<1>3. x # 0 /\ x \in Nat /\ x \notin T
  OBVIOUS
<1>4. x - 1 \in Nat /\ <<x - 1, x>> \in Nat \X Nat /\ x - 1 < x
  BY <1>3
<1>5. x - 1 \notin U
  <2>1. <<x - 1, x>> \in OpToRel(<, Nat)
    BY <1>4 DEF OpToRel
  <2> QED BY <1>2, <2>1
<1>6. x - 1 \in T
  BY <1>4, <1>5
<1> QED BY <1>3, <1>4, <1>6

(* The equation the chain of records solves.                                *)
ChainBody(f) ==
  [x \in Nat |->
     IF x >= Frontier \/ ~KnownAt(x) THEN <<>>
     ELSE <<EntryAt(x)>> \o f[x + EntryAt(x).len]]

LEMMA EntryLength ==
  ASSUME CursorInv, NEW x \in Nat, KnownAt(x)
  PROVE  EntryAt(x).len \in Nat /\ EntryAt(x).len > 0
<1>1. CASE x < tail
  <2>1. mem[Index(x)].len \in Nat /\ mem[Index(x)].len > 0
    BY <1>1, IndexInRange DEF KnownAt, CursorInv, TypeOK, Cell
  <2> QED BY <1>1, <2>1 DEF EntryAt
<1>2. CASE ~(x < tail)
  <2>1. PICK q \in Producers : Open(q) /\ start[q] = x
    BY <1>2 DEF KnownAt
  <2>2. tail <= start[q] /\ want[q] \in Nat /\ want[q] > 0
    BY <2>1 DEF CursorInv, TypeOK, OpenWithin, Open, ReservationsDisjoint
  <2>3. EntryAt(x) = OpenEntry(q)
    BY <2>1, <2>2, EntriesAre DEF EntriesKnown
  <2> QED BY <2>2, <2>3 DEF OpenEntry
<1> QED BY <1>1, <1>2

LEMMA ChainExists ==
  ASSUME CursorInv
  PROVE  \E f : f = ChainBody(f)
<1> DEFINE Solves(f, n) ==
             \A x \in Nat : x + n >= Frontier =>
               f[x] = IF x >= Frontier \/ ~KnownAt(x) THEN <<>>
                      ELSE <<EntryAt(x)>> \o f[x + EntryAt(x).len]
           T == {n \in Nat : \E f : f = [x \in Nat |-> f[x]] /\ Solves(f, n)}
<1>1. Frontier \in Nat
  <2>1. FrontierKnown /\ tail \in Nat /\ reserved \in Nat /\ \A p \in Producers : want[p] \in Nat
    BY FrontierIs DEF CursorInv, TypeOK
  <2> QED BY <2>1 DEF FrontierKnown
<1>2. 0 \in T
  <2>1. PICK f : f = [x \in Nat |-> <<>>]
    OBVIOUS
  <2>2. Solves(f, 0) /\ f = [x \in Nat |-> f[x]]
    BY <1>1, <2>1
  <2> HIDE DEF Solves
  <2> QED BY <2>2
<1>3. ASSUME NEW n \in Nat, n \in T PROVE n + 1 \in T
  <2>1. PICK f : f = [x \in Nat |-> f[x]] /\ Solves(f, n)
    BY <1>3
  <2>2. PICK g : g = [x \in Nat |-> IF x + n >= Frontier THEN f[x] ELSE ChainBody(f)[x]]
    OBVIOUS
  <2>3. g = [x \in Nat |-> g[x]]
    BY <2>2
  <2>4. \A x \in Nat : x + n >= Frontier => g[x] = f[x]
    BY <2>2
  <2>5. ASSUME NEW x \in Nat, x + (n + 1) >= Frontier
        PROVE  g[x] = IF x >= Frontier \/ ~KnownAt(x) THEN <<>>
                      ELSE <<EntryAt(x)>> \o g[x + EntryAt(x).len]
    <3>1. g[x] = IF x >= Frontier \/ ~KnownAt(x) THEN <<>>
                 ELSE <<EntryAt(x)>> \o f[x + EntryAt(x).len]
      <4>1. CASE x + n >= Frontier
        BY <2>1, <2>4, <4>1
      <4>2. CASE ~(x + n >= Frontier)
        BY <2>2, <4>2 DEF ChainBody
      <4> QED BY <4>1, <4>2
    <3>2. ASSUME KnownAt(x) PROVE g[x + EntryAt(x).len] = f[x + EntryAt(x).len]
      <4>1. EntryAt(x).len \in Nat /\ EntryAt(x).len > 0
        BY <3>2, EntryLength
      <4>2. x + EntryAt(x).len \in Nat /\ x + EntryAt(x).len + n >= Frontier
        BY <1>1, <2>5, <4>1
      <4> QED BY <2>4, <4>2
    <3> QED BY <3>1, <3>2
  <2>6. Solves(g, n + 1)
    BY <2>5
  <2> HIDE DEF Solves
  <2> QED BY <2>3, <2>6
<1>4. Frontier \in T
  <2> HIDE DEF T
  <2>1. Nat \subseteq T
    BY <1>2, <1>3, SetInduction
  <2> QED BY <1>1, <2>1
<1>5. PICK f : f = [x \in Nat |-> f[x]] /\ Solves(f, Frontier)
  BY <1>4
<1>6. \A x \in Nat : f[x] = IF x >= Frontier \/ ~KnownAt(x) THEN <<>>
                           ELSE <<EntryAt(x)>> \o f[x + EntryAt(x).len]
  BY <1>1, <1>5
<1>7. f = ChainBody(f)
  <2> HIDE DEF Solves, T
  <2> QED BY <1>5, <1>6 DEF ChainBody
<1> QED BY <1>7

LEMMA RecordsUnfold ==
  ASSUME CursorInv
  PROVE  \E f : f = ChainBody(f) /\ Records = f[head]
<1>1. PICK f : f = CHOOSE g : g = ChainBody(g)
  OBVIOUS
<1>2. f = ChainBody(f)
  BY <1>1, ChainExists, Zenon
<1>3. Records = f[head]
  BY <1>1 DEF Records, ChainBody
<1> QED BY <1>2, <1>3

(* Each cut but the last begins an entry that ends at the next cut.         *)
LEMMA CutFacts ==
  ASSUME NEW B, Cut(B)
  PROVE  /\ Len(B) \in Nat /\ Len(B) >= 1
         /\ \A i \in 1..Len(B) : B[i] \in Nat
         /\ \A i \in 1..(Len(B) - 1) :
              i \in 1..Len(B) /\ i + 1 \in 1..Len(B) /\ B[i] < B[i + 1] /\ B[i] < Frontier
<1>1. B \in Seq(Nat) /\ Len(B) >= 1
  BY DEF Cut
<1>2. PICK N : N = Len(B)
  OBVIOUS
<1>3. N \in Nat /\ N >= 1 /\ \A i \in 1..N : B[i] \in Nat
  BY <1>1, <1>2, LenProperties
<1>4. ASSUME NEW i \in 1..(N - 1)
      PROVE  i \in 1..N /\ i + 1 \in 1..N /\ B[i] < B[i + 1] /\ B[i] < Frontier
  <2>1. i \in 1..N /\ i + 1 \in 1..N /\ N \in 1..N /\ i < i + 1 /\ i < N
    BY <1>3
  <2>2. (\A k, j \in 1..N : k < j => B[k] < B[j]) /\ B[N] = Frontier
    BY <1>2 DEF Cut
  <2> QED BY <2>1, <2>2
<1> QED BY <1>2, <1>3, <1>4

LEMMA CutEntries ==
  ASSUME CursorInv, NEW B, Cut(B), NEW i \in 1..(Len(B) - 1)
  PROVE  KnownAt(B[i]) /\ EntryAt(B[i]).len = B[i + 1] - B[i]
<1>1. B[i] \in Nat /\ B[i + 1] \in Nat /\ B[i] < B[i + 1]
  BY CutFacts
<1>2. CASE B[i] < tail
  <2>1. RecordLen(B[i]) = B[i + 1] - B[i]
    BY <1>2 DEF Cut
  <2> QED BY <1>1, <1>2, <2>1 DEF KnownAt, EntryAt, RecordLen
<1>3. CASE ~(B[i] < tail)
  <2>1. PICK q \in Producers : Open(q) /\ start[q] = B[i] /\ want[q] = B[i + 1] - B[i]
    BY <1>3 DEF Cut
  <2>2. tail <= start[q]
    BY <2>1 DEF CursorInv, ReservationsDisjoint
  <2>3. EntryAt(B[i]) = OpenEntry(q)
    BY <2>1, <2>2, EntriesAre DEF EntriesKnown
  <2> QED BY <1>3, <2>1, <2>3 DEF OpenEntry, KnownAt
<1> QED BY <1>2, <1>3

RecordsFollow ==
  \A B : Cut(B) => /\ Records = [i \in 1..(Len(B) - 1) |-> EntryAt(B[i])]
                   /\ Records \in Seq({EntryAt(B[i]) : i \in 1..(Len(B) - 1)})

LEMMA RecordsAlong == CursorInv => RecordsFollow
<1> SUFFICES ASSUME CursorInv, NEW B, Cut(B)
             PROVE  /\ Records = [i \in 1..(Len(B) - 1) |-> EntryAt(B[i])]
                    /\ Records \in Seq({EntryAt(B[i]) : i \in 1..(Len(B) - 1)})
  BY DEF RecordsFollow
<1>1. PICK f : f = ChainBody(f) /\ Records = f[head]
  BY RecordsUnfold
<1>2. PICK N : N = Len(B)
  OBVIOUS
<1>3. PICK E : E = {EntryAt(B[i]) : i \in 1..(N - 1)}
  OBVIOUS
<1> DEFINE Rest(k) ==
             /\ f[B[N - k]] \in Seq(E) /\ Len(f[B[N - k]]) = k
             /\ \A j \in 1..k : f[B[N - k]][j] = EntryAt(B[N - k - 1 + j])
           T == {k \in Nat : k < N => Rest(k)}
<1>4. /\ N \in Nat /\ N >= 1 /\ \A i \in 1..N : B[i] \in Nat
      /\ B[1] = head /\ B[N] = Frontier
  BY <1>2, CutFacts DEF Cut
<1>5. \A x \in Nat : f[x] = IF x >= Frontier \/ ~KnownAt(x) THEN <<>>
                           ELSE <<EntryAt(x)>> \o f[x + EntryAt(x).len]
  BY <1>1 DEF ChainBody
<1>6. 0 \in T
  <2>1. N - 0 = N /\ N \in 1..N
    BY <1>4
  <2>2. f[B[N - 0]] = <<>>
    <3>1. PICK x \in Nat : x = B[N]
      BY <1>4, <2>1
    <3>2. x >= Frontier
      BY <1>4, <3>1
    <3>3. f[x] = <<>>
      BY <1>5, <3>2
    <3> QED BY <2>1, <3>1, <3>3
  <2>3. <<>> \in Seq(E) /\ Len(<<>>) = 0 /\ 1..0 = {}
    OBVIOUS
  <2>4. Rest(0)
    <3>1. PICK g : g = f[B[N - 0]]
      OBVIOUS
    <3>2. g \in Seq(E) /\ Len(g) = 0
      BY <2>2, <2>3, <3>1
    <3> QED BY <2>3, <3>1, <3>2
  <2> HIDE DEF Rest
  <2> QED BY <2>4
<1>7. ASSUME NEW k \in Nat, k \in T PROVE k + 1 \in T
  <2>1. SUFFICES ASSUME k + 1 < N PROVE Rest(k + 1)
    OBVIOUS
  <2>2. PICK i \in 1..(N - 1) : i = N - (k + 1)
    <3>1. N - (k + 1) \in 1..(N - 1)
      BY <1>4, <2>1
    <3> QED BY <3>1
  <2>3. N - k = i + 1 /\ N - (k + 1) = i /\ k < N /\ N - k - 1 = i
    BY <1>4, <2>1, <2>2
  <2>4. /\ f[B[i + 1]] \in Seq(E) /\ Len(f[B[i + 1]]) = k
        /\ \A j \in 1..k : f[B[i + 1]][j] = EntryAt(B[i + j])
    BY <1>7, <2>3
  <2>5. /\ KnownAt(B[i]) /\ EntryAt(B[i]).len = B[i + 1] - B[i]
        /\ B[i] \in Nat /\ B[i + 1] \in Nat /\ B[i] < Frontier
    BY <1>2, <1>4, CutEntries, CutFacts
  <2>6. f[B[i]] = <<EntryAt(B[i])>> \o f[B[i + 1]]
    <3>1. B[i] + EntryAt(B[i]).len = B[i + 1] /\ ~(B[i] >= Frontier)
      <4>1. Frontier \in Nat
        BY <1>4
      <4> QED BY <2>5, <4>1
    <3> QED BY <1>5, <2>5, <3>1
  <2>7. EntryAt(B[i]) \in E /\ <<EntryAt(B[i])>> \in Seq(E)
    BY <1>3
  <2>8. PICK e, s : e = EntryAt(B[i]) /\ s = f[B[i + 1]]
    OBVIOUS
  <2>9. /\ <<e>> \o s \in Seq(E) /\ Len(<<e>> \o s) = k + 1
        /\ (<<e>> \o s)[1] = e
        /\ \A j \in 1..k : (<<e>> \o s)[j + 1] = s[j]
    BY <2>4, <2>7, <2>8
  <2>10. ASSUME NEW j \in 1..(k + 1) PROVE f[B[i]][j] = EntryAt(B[i - 1 + j])
    <3>1. CASE j = 1
      BY <2>6, <2>8, <2>9, <3>1
    <3>2. CASE j # 1
      <4>1. j - 1 \in 1..k /\ (j - 1) + 1 = j /\ i + (j - 1) = i - 1 + j
        BY <3>2
      <4>2. s[j - 1] = EntryAt(B[i + (j - 1)])
        BY <2>4, <2>8, <4>1
      <4>3. f[B[i]][j] = s[j - 1]
        BY <2>6, <2>8, <2>9, <4>1
      <4> QED BY <4>1, <4>2, <4>3
    <3> QED BY <3>1, <3>2
  <2> QED BY <2>3, <2>6, <2>8, <2>9, <2>10
<1>8. Nat \subseteq T
  <2> HIDE DEF T
  <2> QED BY <1>6, <1>7, SetInduction
<1>9. Rest(N - 1)
  <2>1. N - 1 \in Nat /\ N - 1 < N
    BY <1>4
  <2> HIDE DEF Rest
  <2> QED BY <1>8, <2>1
<1>10. /\ Records \in Seq(E) /\ Len(Records) = N - 1
       /\ \A j \in 1..(N - 1) : Records[j] = EntryAt(B[j])
  <2>1. N - (N - 1) = 1 /\ \A j \in 1..(N - 1) : 1 - 1 + j = j
    BY <1>4
  <2> QED BY <1>1, <1>4, <1>9, <2>1
<1>11. Records = [i \in 1..(N - 1) |-> EntryAt(B[i])]
  <2>1. Records = [i \in 1..(N - 1) |-> Records[i]]
    BY <1>10
  <2> QED BY <1>10, <2>1
<1> QED BY <1>2, <1>3, <1>10, <1>11

LEMMA RecordsNext == CursorInv' => RecordsFollow'
<1>1. (CursorInv => RecordsFollow)'
  BY RecordsAlong, PTL
<1> QED BY <1>1

(* The records fill the space from head to the frontier.                    *)
LEMMA SpaceUsed ==
  ASSUME CursorInv, NEW B, Cut(B)
  PROVE  Fifo!Used = Frontier - head
<1>1. PICK N, R : N = Len(B) /\ R = Records
  OBVIOUS
<1>2. /\ N \in Nat /\ N >= 1 /\ \A i \in 1..N : B[i] \in Nat
      /\ B[1] = head /\ B[N] = Frontier
  BY <1>1, CutFacts DEF Cut
<1>3. R \in Seq({EntryAt(B[i]) : i \in 1..(N - 1)}) /\ R = [i \in 1..(N - 1) |-> EntryAt(B[i])]
  BY <1>1, RecordsAlong DEF RecordsFollow
<1>4. Len(R) = N - 1 /\ N - 1 \in Nat
  BY <1>2, <1>3
<1>5. \A i \in 1..(N - 1) : R[i].len = B[i + 1] - B[i] /\ B[i] \in Nat /\ B[i + 1] \in Nat
  BY <1>1, <1>3, CutEntries, CutFacts
<1> DEFINE Sums(u) == u = [i \in 0..Len(R) |-> IF i = 0 THEN 0 ELSE u[i - 1] + R[i].len]
<1>6. PICK u : u = CHOOSE w : Sums(w)
  OBVIOUS
<1>7. Sums(u)
  <2>1. PICK w : w = [i \in 0..(N - 1) |-> B[i + 1] - B[1]]
    OBVIOUS
  <2>2. ASSUME NEW i \in 0..(N - 1)
        PROVE  w[i] = IF i = 0 THEN 0 ELSE w[i - 1] + R[i].len
    <3>1. CASE i = 0
      <4>1. w[i] = B[0 + 1] - B[1]
        BY <2>1, <3>1
      <4>2. 0 + 1 = 1 /\ B[1] \in Nat
        BY <1>2
      <4> QED BY <3>1, <4>1, <4>2
    <3>2. CASE i # 0
      <4>1. i \in 1..(N - 1) /\ i - 1 \in 0..(N - 1) /\ (i - 1) + 1 = i
        BY <1>2, <3>2
      <4>2. w[i] = B[i + 1] - B[1] /\ w[i - 1] = B[i] - B[1]
        BY <2>1, <4>1
      <4>3. R[i].len = B[i + 1] - B[i] /\ B[i] \in Nat /\ B[i + 1] \in Nat /\ B[1] \in Nat
        BY <1>2, <1>5, <4>1
      <4> QED BY <3>2, <4>2, <4>3
    <3> QED BY <3>1, <3>2
  <2>3. w = [i \in 0..(N - 1) |-> IF i = 0 THEN 0 ELSE w[i - 1] + R[i].len]
    <3>1. w = [i \in 0..(N - 1) |-> w[i]]
      BY <2>1
    <3> QED BY <2>2, <3>1
  <2>4. Sums(w)
    BY <1>4, <2>3
  <2> HIDE DEF Sums
  <2> QED BY <1>6, <2>4, Zenon
<1>8. Fifo!Used = u[N - 1]
  BY <1>1, <1>4, <1>6 DEF Fifo!Used
<1> DEFINE T == {k \in Nat : k < N => u[k] = B[k + 1] - B[1]}
<1>9. 0 \in T
  <2>1. u[0] = 0
    BY <1>2, <1>4, <1>7
  <2>2. B[0 + 1] - B[1] = 0
    BY <1>2
  <2> QED BY <2>1, <2>2
<1>10. ASSUME NEW k \in Nat, k \in T PROVE k + 1 \in T
  <2>1. SUFFICES ASSUME k + 1 < N PROVE u[k + 1] = B[k + 1 + 1] - B[1]
    OBVIOUS
  <2>2. k + 1 \in 1..(N - 1) /\ k + 1 \in 0..Len(R) /\ k + 1 # 0 /\ (k + 1) - 1 = k /\ k < N
    BY <1>2, <1>4, <2>1
  <2>3. u[k + 1] = u[k] + R[k + 1].len
    BY <1>7, <2>2
  <2>4. u[k] = B[k + 1] - B[1]
    BY <1>10, <2>2
  <2>5. R[k + 1].len = B[k + 1 + 1] - B[k + 1] /\ B[k + 1] \in Nat /\ B[k + 1 + 1] \in Nat
    BY <1>5, <2>2
  <2> QED BY <1>2, <2>3, <2>4, <2>5
<1>11. u[N - 1] = B[N] - B[1]
  <2>1. Nat \subseteq T
    <3> HIDE DEF T
    <3> QED BY <1>9, <1>10, SetInduction
  <2>2. N - 1 \in Nat /\ N - 1 < N /\ (N - 1) + 1 = N
    BY <1>2
  <2>3. u[N - 1] = B[(N - 1) + 1] - B[1]
    BY <2>1, <2>2
  <2> QED BY <2>2, <2>3
<1> QED BY <1>2, <1>8, <1>11

(* The entry of a published record is read off its header.                  *)
Published(x) ==
  [by |-> mem[Index(x)].by, len |-> mem[Index(x)].len,
   st |-> IF mem[Index(x)].dummy THEN "dummy" ELSE "record"]

LEMMA EntryKinds ==
  ASSUME CursorInv, NEW B, Cut(B), NEW i \in 1..(Len(B) - 1)
  PROVE  IF B[i] < tail
         THEN EntryAt(B[i]) = Published(B[i])
         ELSE \E q \in Producers :
                /\ Open(q) /\ start[q] = B[i] /\ want[q] = B[i + 1] - B[i] /\ tail <= start[q]
                /\ EntryAt(B[i]) = OpenEntry(q)
<1>1. CASE B[i] < tail
  BY <1>1 DEF EntryAt, Published
<1>2. CASE ~(B[i] < tail)
  <2>1. PICK q \in Producers : Open(q) /\ start[q] = B[i] /\ want[q] = B[i + 1] - B[i]
    BY <1>2 DEF Cut
  <2>2. tail <= start[q]
    BY <2>1 DEF CursorInv, ReservationsDisjoint
  <2>3. EntryAt(B[i]) = OpenEntry(q)
    BY <2>1, <2>2, EntriesAre DEF EntriesKnown
  <2> QED BY <1>2, <2>1, <2>2, <2>3
<1> QED BY <1>1, <1>2

(* Neither a byte that stays nor a reservation that stays open changes its  *)
(* entry.                                                                   *)
LEMMA EntryStays ==
  ASSUME CursorInv, CursorInv', NEW x \in Nat,
         \/ x < tail /\ x < tail' /\ mem'[Index(x)] = mem[Index(x)]
         \/ \E q \in Producers :
              /\ Open(q) /\ start[q] = x /\ tail <= x
              /\ Open(q)' /\ start'[q] = x /\ tail' <= x /\ want'[q] = want[q]
  PROVE  EntryAt(x)' = EntryAt(x)
<1>1. CASE x < tail /\ x < tail' /\ mem'[Index(x)] = mem[Index(x)]
  BY <1>1 DEF EntryAt
<1>2. CASE \E q \in Producers :
             /\ Open(q) /\ start[q] = x /\ tail <= x
             /\ Open(q)' /\ start'[q] = x /\ tail' <= x /\ want'[q] = want[q]
  <2>1. PICK q \in Producers :
          /\ Open(q) /\ start[q] = x /\ tail <= x
          /\ Open(q)' /\ start'[q] = x /\ tail' <= x /\ want'[q] = want[q]
    BY <1>2
  <2>2. EntryAt(x) = OpenEntry(q)
    BY <2>1, EntriesAre DEF EntriesKnown
  <2>3. EntryAt(x)' = OpenEntry(q)'
    <3>1. Open(q)' /\ tail' <= start'[q] => EntryAt(start[q])' = OpenEntry(q)'
      BY EntriesNext DEF EntriesKnown
    <3>2. EntryAt(start[q])' = EntryAt(x)'
      BY <2>1 DEF EntryAt
    <3> QED BY <2>1, <3>1, <3>2
  <2> QED BY <2>1, <2>2, <2>3 DEF OpenEntry
<1> QED BY <1>1, <1>2

(***************************************************************************)
(* Steps that leave the cursors and the open reservations as they are.     *)
(***************************************************************************)

Quiet ==
  /\ UNCHANGED <<mode, head, tail, reserved>>
  /\ \A y \in Nat : head <= y /\ y < tail => mem'[Index(y)] = mem[Index(y)]
  /\ \A q \in Producers :
       /\ Open(q)' <=> Open(q)
       /\ Open(q) => start'[q] = start[q] /\ want'[q] = want[q]

LEMMA QuietKeeps ==
  ASSUME CursorInv, CursorInv', Quiet, NEW B, Cut(B)
  PROVE  Cut(B)' /\ Records' = Records
<1>1. PICK N : N = Len(B)
  OBVIOUS
<1>2. /\ N \in Nat /\ N >= 1 /\ \A i \in 1..N : B[i] \in Nat
      /\ \A i \in 1..(N - 1) : i \in 1..N /\ i + 1 \in 1..N
  BY <1>1, CutFacts
<1>3. Frontier' = Frontier
  <2>1. CASE IsCas
    BY <2>1, FrontierIs, FrontierNext DEF Quiet, FrontierKnown, IsCas
  <2>2. CASE ~IsCas /\ \E p \in Producers : Open(p)
    BY <2>2, FrontierIs, FrontierNext DEF Quiet, FrontierKnown, IsCas
  <2>3. CASE ~IsCas /\ \A p \in Producers : ~Open(p)
    BY <2>3, FrontierIs, FrontierNext DEF Quiet, FrontierKnown, IsCas
  <2> QED BY <2>1, <2>2, <2>3
<1>4. \A i \in 1..N : head <= B[i]
  <2>1. head \in Nat /\ B[1] = head /\ 1 \in 1..N
    BY <1>2 DEF CursorInv, TypeOK, Cut
  <2>2. \A i \in 1..N : 1 < i => B[1] < B[i]
    BY <1>1, <2>1 DEF Cut
  <2> QED BY <1>2, <2>1, <2>2
<1>5. ASSUME NEW i \in 1..(N - 1), B[i] < tail
      PROVE  mem'[Index(B[i])] = mem[Index(B[i])]
  BY <1>2, <1>4, <1>5 DEF Quiet
<1>6. Cut(B)'
  <2>1. ASSUME NEW i \in 1..(N - 1)
        PROVE  IF B[i] < tail'
               THEN RecordLen(B[i])' = B[i + 1] - B[i]
               ELSE \E q \in Producers :
                      Open(q)' /\ start'[q] = B[i] /\ want'[q] = B[i + 1] - B[i]
    <3>1. CASE B[i] < tail
      <4>1. RecordLen(B[i]) = B[i + 1] - B[i] /\ RecordLen(B[i])' = RecordLen(B[i])
        BY <1>1, <1>5, <3>1 DEF Cut, RecordLen
      <4> QED BY <3>1, <4>1 DEF Quiet
    <3>2. CASE ~(B[i] < tail)
      <4>1. PICK q \in Producers : Open(q) /\ start[q] = B[i] /\ want[q] = B[i + 1] - B[i]
        BY <1>1, <3>2 DEF Cut
      <4> QED BY <3>2, <4>1 DEF Quiet
    <3> QED BY <3>1, <3>2
  <2>2. /\ B \in Seq(Nat) /\ Len(B) >= 1
        /\ B[1] = head' /\ B[Len(B)] = Frontier'
        /\ \E k \in 1..Len(B) : B[k] = tail'
        /\ \A i, j \in 1..Len(B) : i < j => B[i] < B[j]
    BY <1>3 DEF Cut, Quiet
  <2> QED BY <1>1, <2>1, <2>2 DEF Cut
<1>7. \A i \in 1..(N - 1) : EntryAt(B[i])' = EntryAt(B[i])
  <2> SUFFICES ASSUME NEW i \in 1..(N - 1) PROVE EntryAt(B[i])' = EntryAt(B[i])
    OBVIOUS
  <2>1. PICK x \in Nat : x = B[i]
    BY <1>2
  <2>2. CASE x < tail
    <3>1. x < tail' /\ mem'[Index(x)] = mem[Index(x)]
      BY <1>5, <2>1, <2>2 DEF Quiet
    <3> QED BY <2>1, <2>2, <3>1, EntryStays
  <2>3. CASE ~(x < tail)
    <3>1. PICK q \in Producers : Open(q) /\ start[q] = x /\ tail <= x
      BY <1>1, <2>1, <2>3, EntryKinds
    <3>2. Open(q)' /\ start'[q] = x /\ tail' <= x /\ want'[q] = want[q]
      BY <3>1 DEF Quiet
    <3> QED BY <2>1, <3>1, <3>2, EntryStays
  <2> QED BY <2>2, <2>3
<1>8. Records' = Records
  <2>1. Records = [i \in 1..(N - 1) |-> EntryAt(B[i])]
    BY <1>1, RecordsAlong DEF RecordsFollow
  <2>2. Records' = [i \in 1..(N - 1) |-> EntryAt(B[i])']
    BY <1>1, <1>6, RecordsNext DEF RecordsFollow
  <2> QED BY <1>7, <2>1, <2>2
<1> QED BY <1>6, <1>8

(***************************************************************************)
(* TakeReservation adds an open entry at the end.                          *)
(***************************************************************************)

LEMMA TakeFacts ==
  ASSUME SingleWriter, CursorInv, CursorInv', NEW p \in Producers, TakeReservation(p)
  PROVE  /\ UNCHANGED <<mode, head, tail, mem, want, readVars>>
         /\ want[p] \in Nat /\ want[p] > 0 /\ pc[p] # "idle"
         /\ ~Open(p) /\ Open(p)' /\ start'[p] = Frontier /\ tail <= Frontier
         /\ Frontier' = Frontier + want[p] /\ Frontier + want[p] <= head + Size
         /\ \A q \in Producers : q # p =>
              (Open(q)' <=> Open(q)) /\ start'[q] = start[q]
<1>1. /\ pc[p] = "take" /\ want[p] \in Nat /\ want[p] > 0
      /\ reserved \in Nat /\ tail \in Nat /\ head \in Nat /\ cur[p] \in Nat
  BY DEF TakeReservation, CursorInv, TypeOK, OpenWithin
<1>2. /\ UNCHANGED <<mode, head, tail, mem, want, readVars>>
      /\ ~Open(p) /\ Open(p)'
      /\ start'[p] = IF IsCas THEN cur[p] ELSE tail
      /\ \A q \in Producers : q # p => (Open(q)' <=> Open(q)) /\ start'[q] = start[q]
  BY <1>1 DEF TakeReservation, CursorInv, TypeOK, Open
<1>3. CASE IsCas
  <2>1. Frontier = reserved /\ cur[p] = reserved /\ reserved' = reserved + want[p]
    BY <1>3, FrontierIs DEF FrontierKnown, TakeReservation
  <2>2. Frontier' = reserved'
    BY <1>2, <1>3, FrontierNext DEF FrontierKnown, IsCas
  <2>3. tail <= reserved /\ cur[p] + want[p] <= head + Size
    BY <1>1, <1>3 DEF CursorInv, CursorOrder, LoadsStillHold
  <2> QED BY <1>1, <1>2, <1>3, <2>1, <2>2, <2>3
<1>4. CASE ~IsCas
  <2>1. \A q \in Producers : ~Open(q)
    <3>1. \A q \in Producers : Open(q) => pc[q] # "idle"
      BY DEF Open
    <3> QED BY <1>1, <1>2, <1>4, <3>1, Alone
  <2>2. Frontier = tail
    BY <1>4, <2>1, FrontierIs DEF FrontierKnown
  <2>3. Frontier' = tail' + want'[p]
    BY <1>2, <1>4, FrontierNext DEF FrontierKnown, IsCas
  <2>4. cur[p] <= head /\ tail + want[p] <= cur[p] + Size
    BY <1>1, <1>4 DEF CursorInv, LoadsStillHold
  <2>5. tail + want[p] <= head + Size
    BY <1>1, <2>4, SizePositive
  <2> QED BY <1>1, <1>2, <1>4, <2>2, <2>3, <2>5
<1> QED BY <1>3, <1>4

LEMMA TakeKeeps ==
  ASSUME SingleWriter, CursorInv, CursorInv', NEW p \in Producers, TakeReservation(p),
         NEW B, Cut(B)
  PROVE  /\ \E C : Cut(C)'
         /\ Records' = Append(Records, OpenEntry(p))
<1>1. /\ UNCHANGED <<mode, head, tail, mem, want, readVars>>
      /\ want[p] \in Nat /\ want[p] > 0
      /\ ~Open(p) /\ Open(p)' /\ start'[p] = Frontier /\ tail <= Frontier
      /\ Frontier' = Frontier + want[p]
      /\ \A q \in Producers : q # p => (Open(q)' <=> Open(q)) /\ start'[q] = start[q]
  BY TakeFacts
<1>2. PICK N, F, C : N = Len(B) /\ F = Frontier + want[p] /\ C = Append(B, F)
  OBVIOUS
<1>3. /\ N \in Nat /\ N >= 1 /\ \A i \in 1..N : B[i] \in Nat
      /\ \A i \in 1..(N - 1) : i \in 1..N /\ i + 1 \in 1..N
      /\ B[N] = Frontier /\ B \in Seq(Nat) /\ tail \in Nat /\ B[1] = head
      /\ \A i, j \in 1..N : i < j => B[i] < B[j]
  BY <1>2, CutFacts DEF Cut, CursorInv, TypeOK
<1>4. N \in 1..N /\ Frontier \in Nat /\ F \in Nat /\ Frontier < F
  BY <1>1, <1>2, <1>3
<1>5. /\ C \in Seq(Nat) /\ Len(C) = N + 1 /\ C[N + 1] = F
      /\ \A i \in 1..N : C[i] = B[i]
  BY <1>2, <1>3, <1>4
<1>6. \A x : RecordLen(x)' = RecordLen(x)
  BY <1>1 DEF RecordLen
<1>7. ASSUME NEW i \in 1..N
      PROVE  IF C[i] < tail'
             THEN RecordLen(C[i])' = C[i + 1] - C[i]
             ELSE \E q \in Producers :
                    Open(q)' /\ start'[q] = C[i] /\ want'[q] = C[i + 1] - C[i]
  <2>1. CASE i = N
    <3>1. C[i] = Frontier /\ C[i + 1] = F /\ ~(C[i] < tail')
      BY <1>1, <1>3, <1>4, <1>5, <2>1
    <3>2. want'[p] = C[i + 1] - C[i]
      BY <1>1, <1>2, <1>4, <3>1
    <3> QED BY <1>1, <3>1, <3>2
  <2>2. CASE i # N
    <3>1. i \in 1..(N - 1) /\ i + 1 \in 1..N /\ C[i] = B[i] /\ C[i + 1] = B[i + 1]
      BY <1>3, <1>5, <2>2
    <3>2. CASE B[i] < tail
      BY <1>1, <1>2, <1>6, <3>1, <3>2 DEF Cut
    <3>3. CASE ~(B[i] < tail)
      <4>1. PICK q \in Producers : Open(q) /\ start[q] = B[i] /\ want[q] = B[i + 1] - B[i]
        BY <1>2, <3>1, <3>3 DEF Cut
      <4> QED BY <1>1, <3>1, <3>3, <4>1
    <3> QED BY <3>2, <3>3
  <2> QED BY <2>1, <2>2
<1>8. ASSUME NEW i \in 1..(N + 1), NEW j \in 1..(N + 1), i < j PROVE C[i] < C[j]
  <2>1. i \in 1..N /\ C[i] = B[i]
    BY <1>3, <1>5, <1>8
  <2>2. CASE j = N + 1
    <3>1. B[i] <= Frontier
      <4>1. i = N \/ i < N
        BY <1>3, <2>1
      <4> QED BY <1>3, <1>4, <2>1, <4>1
    <3> QED BY <1>3, <1>4, <1>5, <2>1, <2>2, <3>1
  <2>3. CASE j # N + 1
    BY <1>3, <1>5, <1>8, <2>1, <2>3
  <2> QED BY <2>2, <2>3
<1>9. Cut(C)'
  <2>1. C[1] = head' /\ C[Len(C)] = Frontier'
    BY <1>1, <1>2, <1>3, <1>5
  <2>2. \E k \in 1..Len(C) : C[k] = tail'
    <3>1. PICK k \in 1..N : B[k] = tail
      BY <1>2 DEF Cut
    <3>2. k \in 1..Len(C)
      BY <1>3, <1>5, <3>1
    <3> QED BY <1>1, <1>5, <3>1, <3>2
  <2>3. Len(C) >= 1 /\ Len(C) - 1 = N
    BY <1>3, <1>5
  <2> QED BY <1>5, <1>7, <1>8, <2>1, <2>2, <2>3 DEF Cut
<1>10. Records = [i \in 1..(N - 1) |-> EntryAt(B[i])]
  BY <1>2, RecordsAlong DEF RecordsFollow
<1>11. Records' = [i \in 1..N |-> EntryAt(C[i])']
  <2>1. Len(C) - 1 = N
    BY <1>3, <1>5
  <2> QED BY <1>9, <2>1, RecordsNext DEF RecordsFollow
<1>12. ASSUME NEW i \in 1..(N - 1) PROVE EntryAt(B[i])' = EntryAt(B[i])
  <2>1. PICK x \in Nat : x = B[i]
    BY <1>3
  <2>2. CASE x < tail
    <3>1. x < tail' /\ mem'[Index(x)] = mem[Index(x)]
      BY <1>1, <2>2
    <3> QED BY <2>1, <2>2, <3>1, EntryStays
  <2>3. CASE ~(x < tail)
    <3>1. PICK q \in Producers : Open(q) /\ start[q] = x /\ tail <= x
      BY <1>2, <2>1, <2>3, EntryKinds
    <3>2. Open(q)' /\ start'[q] = x /\ tail' <= x /\ want'[q] = want[q]
      BY <1>1, <3>1
    <3> QED BY <2>1, <3>1, <3>2, EntryStays
  <2> QED BY <2>2, <2>3
<1>13. EntryAt(C[N])' = OpenEntry(p)
  <2>1. Open(p)' /\ tail' <= start'[p]
    BY <1>1
  <2>2. EntryAt(start[p])' = OpenEntry(p)'
    BY <2>1, EntriesNext DEF EntriesKnown
  <2>3. start'[p] = C[N]
    BY <1>1, <1>3, <1>4, <1>5
  <2>4. EntryAt(start[p])' = EntryAt(C[N])'
    BY <2>3 DEF EntryAt
  <2> QED BY <1>1, <2>2, <2>4 DEF OpenEntry
<1>14. Records' = Append(Records, OpenEntry(p))
  <2>1. PICK R, e : R = Records /\ e = OpenEntry(p)
    OBVIOUS
  <2>2. /\ Len(R) = N - 1 /\ N - 1 \in Nat /\ \A i \in 1..(N - 1) : R[i] = EntryAt(B[i])
    BY <1>3, <1>10, <2>1
  <2>3. Append(R, e) = [i \in 1..N |-> IF i = N THEN e ELSE R[i]]
    <3>1. PICK T : T = {EntryAt(B[i]) : i \in 1..(N - 1)} \cup {e}
      OBVIOUS
    <3>2. R \in Seq(T)
      <4>1. R \in Seq({EntryAt(B[i]) : i \in 1..(N - 1)})
        BY <1>2, <2>1, RecordsAlong DEF RecordsFollow
      <4>2. \A i \in 1..Len(R) : R[i] \in T
        BY <2>2, <3>1
      <4> QED BY <2>2, <4>1, <4>2
    <3>3. /\ Append(R, e) \in Seq(T) /\ Len(Append(R, e)) = N
          /\ \A i \in 1..(N - 1) : Append(R, e)[i] = R[i]
          /\ Append(R, e)[N] = e
      BY <1>3, <2>2, <3>1, <3>2
    <3>4. PICK A : A = Append(R, e)
      OBVIOUS
    <3>5. A = [i \in 1..N |-> A[i]]
      <4>1. A \in Seq(T) /\ Len(A) = N
        BY <3>3, <3>4
      <4> QED BY <4>1
    <3>6. ASSUME NEW i \in 1..N PROVE A[i] = IF i = N THEN e ELSE R[i]
      BY <1>3, <3>3, <3>4
    <3> QED BY <3>4, <3>5, <3>6
  <2>4. ASSUME NEW i \in 1..N PROVE EntryAt(C[i])' = IF i = N THEN e ELSE R[i]
    <3>1. CASE i = N
      BY <1>13, <2>1, <3>1
    <3>2. CASE i # N
      <4>1. i \in 1..(N - 1) /\ C[i] = B[i]
        BY <1>3, <1>5, <3>2
      <4>2. EntryAt(C[i])' = EntryAt(B[i])'
        BY <4>1
      <4> QED BY <1>12, <2>2, <3>2, <4>1, <4>2
    <3> QED BY <3>1, <3>2
  <2> QED BY <1>11, <2>1, <2>3, <2>4
<1> QED BY <1>9, <1>14

LEMMA TakeReserves ==
  ASSUME SingleWriter, CursorInv, CursorInv', NEW p \in Producers, TakeReservation(p),
         NEW B, Cut(B)
  PROVE  Fifo!Reserve(p, want[p])
<1>1. /\ UNCHANGED <<mode, head, tail, mem, want, readVars>>
      /\ ~Open(p) /\ Frontier + want[p] <= head + Size
      /\ want[p] \in Nat /\ tail <= Frontier
  BY TakeFacts
<1>2. ASSUME NEW i \in DOMAIN Records
      PROVE  ~(Records[i].by = {p} /\ Records[i].st = "open")
  <2>1. i \in 1..(Len(B) - 1) /\ Records[i] = EntryAt(B[i])
    BY <1>2, RecordsAlong DEF RecordsFollow
  <2>2. CASE B[i] < tail
    <3>1. Records[i] = Published(B[i])
      BY <2>1, <2>2, EntryKinds
    <3> QED BY <3>1 DEF Published
  <2>3. CASE ~(B[i] < tail)
    <3>1. PICK q \in Producers : Open(q) /\ Records[i] = OpenEntry(q)
      BY <2>1, <2>3, EntryKinds
    <3>2. q # p
      BY <1>1, <3>1
    <3> QED BY <3>1, <3>2 DEF OpenEntry
  <2> QED BY <2>2, <2>3
<1>3. Fifo!Used + want[p] <= Size
  <2>1. Fifo!Used = Frontier - head
    BY SpaceUsed
  <2>2. Frontier \in Nat /\ head \in Nat
    <3>1. Len(B) \in 1..Len(B) /\ B[Len(B)] = Frontier
      BY CutFacts DEF Cut
    <3>2. B[Len(B)] \in Nat
      BY <3>1, CutFacts
    <3> QED BY <3>1, <3>2 DEF CursorInv, TypeOK
  <2> QED BY <1>1, <2>1, <2>2, SizePositive
<1>4. Records' = Append(Records, [by |-> {p}, len |-> want[p], st |-> "open"])
  BY TakeKeeps DEF OpenEntry
<1>5. UNCHANGED <<Held, ~IsCas>>
  BY <1>1 DEF Held, IsCas, readVars
<1> QED BY <1>2, <1>3, <1>4, <1>5 DEF Fifo!Reserve

(***************************************************************************)
(* CommitTail publishes the first open entry.                              *)
(***************************************************************************)

LEMMA CommitFacts ==
  ASSUME SingleWriter, MemoryInv, CursorInv', NEW p \in Producers, CommitTail(p)
  PROVE  /\ UNCHANGED <<mode, head, mem, readVars>>
         /\ tail \in Nat /\ want[p] \in Nat /\ want[p] > 0
         /\ Open(p) /\ ~Open(p)' /\ start[p] = tail /\ tail' = tail + want[p]
         /\ Frontier' = Frontier /\ tail' <= Frontier
         /\ mem[Index(tail)].by = {p} /\ mem[Index(tail)].len = want[p]
         /\ \A q \in Producers : q # p =>
              /\ Open(q)' <=> Open(q)
              /\ start'[q] = start[q] /\ want'[q] = want[q]
              /\ Open(q) => tail' <= start[q]
<1>0. CursorInv /\ TypeOK /\ OpenWritten
  BY DEF MemoryInv, CursorInv
<1>1. /\ Open(p) /\ want[p] > 0 /\ want[p] \in Nat /\ tail \in Nat
      /\ pc[p] = "dummy" \/ (pc[p] = "write" /\ off[p] = want[p])
      /\ UNCHANGED <<mode, head, mem, reserved, readVars>>
  BY <1>0 DEF CommitTail, Open, CursorInv, OpenWithin, TypeOK
<1>2. start[p] = tail
  BY <1>0, <1>1 DEF CommitTail, CursorInv, OpenWithin
<1>3. tail' = tail + want[p]
  BY <1>1, <1>2 DEF CommitTail, CommitSize
<1>4. /\ ~Open(p)'
      /\ \A q \in Producers : q # p =>
           (Open(q)' <=> Open(q)) /\ start'[q] = start[q] /\ want'[q] = want[q]
  BY <1>0 DEF CommitTail, Leave, TypeOK, Open
<1>5. mem[Index(tail)].by = {p} /\ mem[Index(tail)].len = want[p]
  <2>1. CASE pc[p] = "dummy"
    <3>1. Marked(p)
      BY <1>0, <2>1 DEF OpenWritten
    <3>2. mem[Index(tail)] = [by |-> {p}, start |-> start[p], off |-> 0,
                              len |-> want[p], dummy |-> TRUE]
      BY <1>2, <3>1 DEF Marked
    <3> QED BY <3>2
  <2>2. CASE pc[p] = "write" /\ off[p] = want[p]
    <3>1. 0 \in 0..(off[p] - 1) /\ start[p] + 0 = tail
      BY <1>1, <1>2, <2>2
    <3>2. Written(p)
      BY <1>0, <2>2 DEF OpenWritten
    <3>3. mem[Index(tail)] = [by |-> {p}, start |-> start[p], off |-> 0,
                              len |-> want[p], dummy |-> FALSE]
      BY <3>1, <3>2 DEF Written
    <3> QED BY <3>3
  <2> QED BY <1>1, <2>1, <2>2
<1>6. ASSUME NEW q \in Producers, q # p, Open(q)
      PROVE  tail' <= start[q]
  <2>1. tail <= start[q] /\ want[q] > 0 /\ want[q] \in Nat /\ start[q] \in Nat
    BY <1>0, <1>6 DEF CursorInv, OpenWithin, ReservationsDisjoint, Open, TypeOK
  <2>2. start[p] + want[p] <= start[q] \/ start[q] + want[q] <= start[p]
    BY <1>0, <1>1, <1>6 DEF CursorInv, ReservationsDisjoint
  <2> QED BY <1>1, <1>2, <1>3, <2>1, <2>2
<1>7. Frontier' = Frontier /\ tail' <= Frontier
  <2>1. CASE IsCas
    <3>1. Frontier = reserved /\ Frontier' = reserved' /\ start[p] + want[p] <= reserved
      BY <1>0, <1>1, <2>1, FrontierIs, FrontierNext
      DEF FrontierKnown, IsCas, CursorInv, OpenWithin
    <3> QED BY <1>1, <1>2, <1>3, <3>1
  <2>2. CASE ~IsCas
    <3>1. \A q \in Producers : ~Open(q)'
      BY <1>0, <1>1, <1>4, <2>2, Alone DEF Open
    <3>2. Frontier = tail + want[p]
      BY <1>0, <1>1, <2>2, FrontierIs DEF FrontierKnown
    <3>3. Frontier' = tail'
      BY <1>1, <2>2, <3>1, FrontierNext DEF FrontierKnown, IsCas
    <3> QED BY <1>1, <1>3, <3>2, <3>3
  <2> QED BY <2>1, <2>2
<1> QED BY <1>1, <1>2, <1>3, <1>4, <1>5, <1>6, <1>7

LEMMA CommitKeeps ==
  ASSUME SingleWriter, MemoryInv, CursorInv', NEW p \in Producers, CommitTail(p),
         NEW B, Cut(B)
  PROVE  /\ Cut(B)'
         /\ \E k \in DOMAIN Records, st \in {"record", "dummy"} : Fifo!Publish(k, st)
<1>0. CursorInv
  BY DEF MemoryInv
<1>1. /\ UNCHANGED <<mode, head, mem, readVars>>
      /\ tail \in Nat /\ want[p] \in Nat /\ want[p] > 0
      /\ Open(p) /\ ~Open(p)' /\ start[p] = tail /\ tail' = tail + want[p]
      /\ Frontier' = Frontier /\ tail' <= Frontier
      /\ mem[Index(tail)].by = {p} /\ mem[Index(tail)].len = want[p]
      /\ \A q \in Producers : q # p =>
           /\ Open(q)' <=> Open(q)
           /\ start'[q] = start[q] /\ want'[q] = want[q]
           /\ Open(q) => tail' <= start[q]
  BY CommitFacts
<1>2. PICK N : N = Len(B)
  OBVIOUS
<1>3. /\ N \in Nat /\ N >= 1 /\ \A i \in 1..N : B[i] \in Nat
      /\ \A i \in 1..(N - 1) : i \in 1..N /\ i + 1 \in 1..N
      /\ B[N] = Frontier /\ B \in Seq(Nat) /\ B[1] = head
      /\ \A i, j \in 1..N : i < j => B[i] < B[j]
  BY <1>2, CutFacts DEF Cut
<1>4. PICK k \in 1..N : B[k] = tail
  BY <1>2 DEF Cut
<1>5. k \in 1..(N - 1) /\ k + 1 \in 1..N /\ k < k + 1
  <2>1. k # N
    BY <1>1, <1>3, <1>4
  <2> QED BY <1>3, <2>1
<1>6. B[k + 1] = tail'
  <2>1. PICK q \in Producers : Open(q) /\ start[q] = B[k] /\ want[q] = B[k + 1] - B[k]
    <3>1. ~(B[k] < tail) /\ k \in 1..(Len(B) - 1)
      BY <1>1, <1>2, <1>4, <1>5
    <3> QED BY <3>1 DEF Cut
  <2>2. q = p
    BY <1>0, <1>1, <1>4, <2>1, OneOpenAtAPlace
  <2>3. want[p] = B[k + 1] - tail /\ B[k + 1] \in Nat
    BY <1>3, <1>4, <1>5, <2>1, <2>2
  <2> QED BY <1>1, <2>3
<1>7. \A i \in 1..N : (i < k => B[i] < tail) /\ (i > k => tail' <= B[i])
  <2>1. \A i \in 1..N : i < k => B[i] < tail
    BY <1>3, <1>4
  <2>2. ASSUME NEW i \in 1..N, i > k PROVE tail' <= B[i]
    <3>1. i = k + 1 \/ k + 1 < i
      BY <1>3, <1>4, <2>2
    <3> QED BY <1>1, <1>3, <1>5, <1>6, <3>1
  <2> QED BY <2>1, <2>2
<1>8. \A x : RecordLen(x)' = RecordLen(x)
  BY <1>1 DEF RecordLen
<1>9. Cut(B)'
  <2>1. ASSUME NEW i \in 1..(N - 1)
        PROVE  IF B[i] < tail'
               THEN RecordLen(B[i])' = B[i + 1] - B[i]
               ELSE \E q \in Producers :
                      Open(q)' /\ start'[q] = B[i] /\ want'[q] = B[i + 1] - B[i]
    <3>1. CASE i < k
      <4>1. B[i] < tail /\ B[i] < tail'
        BY <1>1, <1>3, <1>7, <3>1
      <4> QED BY <1>2, <1>8, <4>1 DEF Cut
    <3>2. CASE i = k
      <4>1. RecordLen(B[i]) = B[i + 1] - B[i] /\ B[i] < tail'
        BY <1>1, <1>4, <1>6, <3>2 DEF RecordLen
      <4> QED BY <1>8, <4>1
    <3>3. CASE i > k
      <4>1. tail' <= B[i] /\ ~(B[i] < tail) /\ ~(B[i] < tail')
        <5>1. tail' <= B[i] /\ B[i] \in Nat /\ tail < tail' /\ tail' \in Nat
          BY <1>1, <1>3, <1>7, <3>3
        <5> QED BY <1>1, <5>1
      <4>2. PICK q \in Producers : Open(q) /\ start[q] = B[i] /\ want[q] = B[i + 1] - B[i]
        BY <1>2, <4>1 DEF Cut
      <4>3. q # p
        BY <1>1, <4>1, <4>2
      <4> QED BY <1>1, <4>1, <4>2, <4>3
    <3> QED BY <1>4, <3>1, <3>2, <3>3
  <2>2. \E j \in 1..Len(B) : B[j] = tail'
    BY <1>2, <1>5, <1>6
  <2>3. B[1] = head' /\ B[Len(B)] = Frontier'
    BY <1>1, <1>2, <1>3
  <2>4. Len(B) >= 1 /\ \A i, j \in 1..Len(B) : i < j => B[i] < B[j]
    BY <1>2, <1>3
  <2> QED BY <1>2, <1>3, <2>1, <2>2, <2>3, <2>4 DEF Cut
<1>10. PICK R, R1 : R = Records /\ R1 = Records'
  OBVIOUS
<1>11. PICK st : st = IF mem[Index(tail)].dummy THEN "dummy" ELSE "record"
  OBVIOUS
<1>12. R = [i \in 1..(N - 1) |-> EntryAt(B[i])]
  BY <1>0, <1>2, <1>10, RecordsAlong DEF RecordsFollow
<1>13. R1 = [i \in 1..(N - 1) |-> EntryAt(B[i])']
  BY <1>2, <1>9, <1>10, RecordsNext DEF RecordsFollow
<1>14. ASSUME NEW i \in 1..(N - 1), i # k PROVE EntryAt(B[i])' = EntryAt(B[i])
  <2>1. PICK x \in Nat : x = B[i]
    BY <1>3
  <2>2. CASE i < k
    <3>1. x < tail /\ x < tail' /\ mem'[Index(x)] = mem[Index(x)]
      BY <1>1, <1>3, <1>7, <2>1, <2>2
    <3> QED BY <1>0, <2>1, <3>1, EntryStays
  <2>3. CASE i > k
    <3>1. tail' <= x /\ ~(x < tail) /\ tail <= x
      BY <1>1, <1>3, <1>7, <2>1, <2>3
    <3>2. PICK q \in Producers : Open(q) /\ start[q] = x
      BY <1>0, <1>2, <2>1, <3>1, EntryKinds
    <3>3. q # p
      BY <1>1, <3>1, <3>2
    <3>4. Open(q)' /\ start'[q] = x /\ want'[q] = want[q]
      BY <1>1, <3>2, <3>3
    <3> QED BY <1>0, <2>1, <3>1, <3>2, <3>4, EntryStays
  <2> QED BY <1>4, <1>14, <2>2, <2>3
<1>15. R[k] = [by |-> {p}, len |-> want[p], st |-> "open"]
  <2>1. EntryAt(tail) = OpenEntry(p)
    BY <1>0, <1>1, EntriesAre DEF EntriesKnown
  <2> QED BY <1>4, <1>5, <1>12, <2>1 DEF OpenEntry
<1>16. R1[k] = [by |-> {p}, len |-> want[p], st |-> st]
  <2>1. PICK t : t = tail
    OBVIOUS
  <2>2. t < tail' /\ mem' = mem /\ B[k] = t
    BY <1>1, <1>4, <2>1
  <2>3. EntryAt(t)' = [by |-> mem[Index(t)].by, len |-> mem[Index(t)].len,
                       st |-> IF mem[Index(t)].dummy THEN "dummy" ELSE "record"]
    BY <2>2 DEF EntryAt
  <2> QED BY <1>1, <1>5, <1>11, <1>13, <2>1, <2>2, <2>3
<1>17. R1 = [R EXCEPT ![k].st = st]
  <2>1. PICK e : e = [by |-> {p}, len |-> want[p], st |-> st]
    OBVIOUS
  <2>2. [R EXCEPT ![k].st = st] = [i \in 1..(N - 1) |-> IF i = k THEN e ELSE R[i]]
    <3>1. [R[k] EXCEPT !.st = st] = e
      BY <1>15, <2>1
    <3>2. [R EXCEPT ![k] = e] = [i \in 1..(N - 1) |-> IF i = k THEN e ELSE R[i]]
      BY <1>5, <1>12
    <3>3. [R EXCEPT ![k].st = st] = [R EXCEPT ![k] = e]
      BY <3>1
    <3> QED BY <3>2, <3>3
  <2>3. ASSUME NEW i \in 1..(N - 1) PROVE EntryAt(B[i])' = IF i = k THEN e ELSE R[i]
    BY <1>12, <1>13, <1>14, <1>16, <2>1
  <2> QED BY <1>13, <2>2, <2>3
<1>18. Fifo!Publish(k, st)
  <2>1. \A j \in 1..(k - 1) : R[j].st # "open"
    <3>1. SUFFICES ASSUME NEW j \in 1..(k - 1) PROVE R[j].st # "open"
      OBVIOUS
    <3>2. j \in 1..(N - 1) /\ j \in 1..N /\ j < k
      BY <1>3, <1>5
    <3>3. B[j] < tail
      BY <1>7, <3>2
    <3>4. R[j] = Published(B[j])
      BY <1>0, <1>2, <1>12, <3>2, <3>3, EntryKinds
    <3> QED BY <3>4 DEF Published
  <2>2. UNCHANGED <<Held, ~IsCas>>
    BY <1>1 DEF Held, IsCas, readVars
  <2> QED BY <1>10, <1>15, <1>17, <2>1, <2>2 DEF Fifo!Publish
<1>19. k \in DOMAIN Records /\ st \in {"record", "dummy"}
  BY <1>5, <1>10, <1>11, <1>12
<1> QED BY <1>9, <1>18, <1>19

(***************************************************************************)
(* Abandon withdraws the last entry, the only open one.                    *)
(***************************************************************************)

LEMMA FrontOf ==
  ASSUME NEW T, NEW s \in Seq(T), Len(s) >= 1
  PROVE  /\ SubSeq(s, 1, Len(s) - 1) \in Seq(T)
         /\ SubSeq(s, 1, Len(s) - 1) = [i \in 1..(Len(s) - 1) |-> s[i]]
<1>1. PICK n : n = Len(s) - 1
  OBVIOUS
<1>2. n \in Nat /\ 1 \in Int /\ n \in Int /\ n - 1 + 1 = n /\ \A i \in 1..n : s[i] \in T
  BY <1>1
<1>3. PICK f : f = SubSeq(s, 1, n)
  OBVIOUS
<1>4. /\ f \in Seq(T) /\ Len(f) = n
      /\ \A i \in 1..n : f[i] = s[1 + i - 1]
  <2>1. Len(f) = IF 1 <= n THEN n - 1 + 1 ELSE 0
    BY <1>2, <1>3, SubSeqProperties
  <2>2. f \in Seq(T) /\ \A i \in 1..(n - 1 + 1) : f[i] = s[1 + i - 1]
    BY <1>2, <1>3, SubSeqProperties
  <2> QED BY <1>2, <2>1, <2>2
<1>5. f = [i \in 1..n |-> f[i]]
  BY <1>4
<1>6. \A i \in 1..n : f[i] = s[i]
  BY <1>2, <1>4
<1> QED BY <1>1, <1>3, <1>4, <1>5, <1>6

LEMMA AbandonFacts ==
  ASSUME SingleWriter, CursorInv, CursorInv', NEW p \in Producers, Abandon(p)
  PROVE  /\ UNCHANGED <<mode, head, tail, mem, readVars>>
         /\ ~IsCas /\ Open(p) /\ tail \in Nat /\ want[p] \in Nat /\ want[p] > 0
         /\ start[p] = tail /\ Frontier = tail + want[p] /\ Frontier' = tail
<1>1. /\ UNCHANGED <<mode, head, tail, mem, readVars>>
      /\ ~IsCas /\ Open(p) /\ tail \in Nat /\ want[p] \in Nat /\ want[p] > 0
      /\ start[p] = tail /\ ~Open(p)'
  BY DEF Abandon, Leave, Open, CursorInv, OpenWithin, TypeOK
<1>2. \A q \in Producers : ~Open(q)'
  <2>1. \A q \in Producers : q # p => ~Open(q) /\ (Open(q)' <=> Open(q))
    BY <1>1, Alone DEF Abandon, Leave, Open, CursorInv, TypeOK
  <2> QED BY <1>1, <2>1
<1>3. Frontier = tail + want[p]
  BY <1>1, FrontierIs DEF FrontierKnown
<1>4. Frontier' = tail'
  BY <1>1, <1>2, FrontierNext DEF FrontierKnown, IsCas
<1> QED BY <1>1, <1>3, <1>4

LEMMA AbandonKeeps ==
  ASSUME SingleWriter, CursorInv, CursorInv', NEW p \in Producers, Abandon(p),
         NEW B, Cut(B)
  PROVE  /\ \E C : Cut(C)'
         /\ Fifo!Withdraw
<1>1. /\ UNCHANGED <<mode, head, tail, mem, readVars>>
      /\ ~IsCas /\ Open(p) /\ tail \in Nat /\ want[p] \in Nat /\ want[p] > 0
      /\ start[p] = tail /\ Frontier = tail + want[p] /\ Frontier' = tail
  BY AbandonFacts
<1>2. PICK N : N = Len(B)
  OBVIOUS
<1>3. /\ N \in Nat /\ N >= 1 /\ \A i \in 1..N : B[i] \in Nat
      /\ \A i \in 1..(N - 1) : i \in 1..N /\ i + 1 \in 1..N
      /\ B[N] = Frontier /\ B \in Seq(Nat) /\ B[1] = head
      /\ \A i, j \in 1..N : i < j => B[i] < B[j]
  BY <1>2, CutFacts DEF Cut
<1>4. PICK k \in 1..N : B[k] = tail
  BY <1>2 DEF Cut
<1>5. k \in 1..(N - 1) /\ k + 1 \in 1..N
  <2>1. k # N
    BY <1>1, <1>3, <1>4
  <2> QED BY <1>3, <2>1
<1>6. k = N - 1
  <2>1. PICK q \in Producers : Open(q) /\ start[q] = B[k] /\ want[q] = B[k + 1] - B[k]
    <3>1. ~(B[k] < tail) /\ k \in 1..(Len(B) - 1)
      BY <1>1, <1>2, <1>4, <1>5
    <3> QED BY <3>1 DEF Cut
  <2>2. q = p
    BY <1>1, <1>4, <2>1, OneOpenAtAPlace
  <2>3. want[p] = B[k + 1] - tail /\ B[k + 1] \in Nat
    BY <1>3, <1>4, <1>5, <2>1, <2>2
  <2>4. B[k + 1] = B[N]
    BY <1>1, <1>3, <2>3
  <2>5. ~(k + 1 < N)
    BY <1>3, <1>5, <2>4
  <2> QED BY <1>3, <1>5, <2>5
<1>7. PICK C : C = SubSeq(B, 1, N - 1)
  OBVIOUS
<1>8. /\ C \in Seq(Nat) /\ C = [i \in 1..(N - 1) |-> B[i]]
      /\ Len(C) = N - 1 /\ N - 1 >= 1 /\ N - 1 \in Nat
  <2>1. C \in Seq(Nat) /\ C = [i \in 1..(N - 1) |-> B[i]]
    BY <1>2, <1>3, <1>7, FrontOf
  <2> QED BY <1>3, <1>5, <2>1
<1>9. \A x : RecordLen(x)' = RecordLen(x)
  BY <1>1 DEF RecordLen
<1>10. ASSUME NEW i \in 1..(N - 2)
       PROVE  /\ i \in 1..N /\ i + 1 \in 1..(N - 1) /\ i \in 1..(N - 1)
              /\ C[i] = B[i] /\ C[i + 1] = B[i + 1] /\ B[i] < tail
  <2>1. i \in 1..N /\ i + 1 \in 1..(N - 1) /\ i \in 1..(N - 1) /\ i < k
    BY <1>3, <1>6
  <2>2. B[i] < tail
    BY <1>3, <1>4, <2>1
  <2> QED BY <1>8, <2>1, <2>2
<1>11. Cut(C)'
  <2>1. ASSUME NEW i \in 1..(N - 2)
        PROVE  C[i] < tail' /\ RecordLen(C[i])' = C[i + 1] - C[i]
    <3>1. RecordLen(B[i]) = B[i + 1] - B[i]
      BY <1>2, <1>10 DEF Cut
    <3> QED BY <1>1, <1>9, <1>10, <3>1
  <2>2. C[1] = head' /\ C[Len(C)] = Frontier' /\ \E j \in 1..Len(C) : C[j] = tail'
    BY <1>1, <1>3, <1>4, <1>6, <1>8
  <2>3. \A i, j \in 1..Len(C) : i < j => C[i] < C[j]
    BY <1>3, <1>8
  <2>4. Len(C) >= 1 /\ Len(C) - 1 = N - 2
    BY <1>3, <1>8
  <2> QED BY <1>8, <2>1, <2>2, <2>3, <2>4 DEF Cut
<1>12. PICK R, E : R = Records /\ E = {EntryAt(B[i]) : i \in 1..(N - 1)}
  OBVIOUS
<1>13. R \in Seq(E) /\ Len(R) = N - 1 /\ R = [i \in 1..(N - 1) |-> EntryAt(B[i])]
  <2>1. R \in Seq(E) /\ R = [i \in 1..(N - 1) |-> EntryAt(B[i])]
    BY <1>2, <1>12, RecordsAlong DEF RecordsFollow
  <2> QED BY <1>8, <2>1
<1>14. Records' = [i \in 1..(N - 2) |-> R[i]]
  <2>1. Len(C) - 1 = N - 2
    BY <1>3, <1>8
  <2>2. Records' = [i \in 1..(N - 2) |-> EntryAt(C[i])']
    BY <1>11, <2>1, RecordsNext DEF RecordsFollow
  <2>3. ASSUME NEW i \in 1..(N - 2) PROVE EntryAt(C[i])' = R[i]
    <3>1. PICK x \in Nat : x = B[i]
      BY <1>3, <1>10
    <3>2. x < tail /\ x < tail' /\ mem'[Index(x)] = mem[Index(x)]
      BY <1>1, <1>10, <3>1
    <3>3. EntryAt(x)' = EntryAt(x)
      BY <3>2, EntryStays
    <3>4. C[i] = x /\ R[i] = EntryAt(x)
      BY <1>10, <1>13, <3>1
    <3> QED BY <3>3, <3>4
  <2> QED BY <2>2, <2>3
<1>15. Records' = SubSeq(R, 1, Len(R) - 1)
  <2>1. SubSeq(R, 1, Len(R) - 1) = [i \in 1..(Len(R) - 1) |-> R[i]]
    BY <1>8, <1>13, FrontOf
  <2>2. Len(R) - 1 = N - 2
    BY <1>3, <1>13
  <2> QED BY <1>14, <2>1, <2>2
<1>16. R[Len(R)].st = "open" /\ R # <<>>
  <2>1. EntryAt(tail) = OpenEntry(p)
    BY <1>1, EntriesAre DEF EntriesKnown
  <2>2. R[Len(R)] = OpenEntry(p)
    BY <1>4, <1>5, <1>6, <1>13, <2>1
  <2> QED BY <1>8, <1>13, <2>2 DEF OpenEntry
<1>17. UNCHANGED <<Held, ~IsCas>>
  BY <1>1 DEF Held, IsCas, readVars
<1>18. Fifo!Withdraw
  BY <1>1, <1>12, <1>15, <1>16, <1>17 DEF Fifo!Withdraw, Fifo!Front, Fifo!Last
<1> QED BY <1>11, <1>18

(***************************************************************************)
(* The reader gives back the first entry.                                  *)
(***************************************************************************)

LEMMA TailOf ==
  ASSUME NEW T, NEW s \in Seq(T), Len(s) >= 1
  PROVE  /\ Tail(s) \in Seq(T) /\ Len(Tail(s)) = Len(s) - 1 /\ s # <<>>
         /\ Tail(s) = [i \in 1..(Len(s) - 1) |-> s[i + 1]]
<1>1. s # <<>>
  OBVIOUS
<1>2. PICK f : f = Tail(s)
  OBVIOUS
<1>3. f \in Seq(T) /\ Len(f) = Len(s) - 1 /\ \A i \in 1..Len(f) : f[i] = s[i + 1]
  BY <1>1, <1>2, HeadTailProperties
<1>4. f = [i \in 1..Len(f) |-> f[i]]
  BY <1>3
<1> QED BY <1>1, <1>2, <1>3, <1>4

LEMMA ReleaseKeeps ==
  ASSUME CursorInv, CursorInv', UNCHANGED <<mode, tail, reserved, mem, prodVars>>,
         head < tail, head' = head + RecordLen(head), NEW B, Cut(B)
  PROVE  /\ \E C : Cut(C)'
         /\ Records # <<>> /\ Head(Records) = Published(head) /\ Records' = Tail(Records)
<1>1. /\ UNCHANGED <<mode, tail, reserved, mem>>
      /\ \A q \in Producers :
           (Open(q)' <=> Open(q)) /\ start'[q] = start[q] /\ want'[q] = want[q]
  BY DEF prodVars, Open
<1>2. PICK N : N = Len(B)
  OBVIOUS
<1>3. /\ N \in Nat /\ N >= 1 /\ \A i \in 1..N : B[i] \in Nat
      /\ \A i \in 1..(N - 1) : i \in 1..N /\ i + 1 \in 1..N
      /\ B[N] = Frontier /\ B \in Seq(Nat) /\ B[1] = head
      /\ \A i, j \in 1..N : i < j => B[i] < B[j]
  BY <1>2, CutFacts DEF Cut
<1>4. PICK k \in 1..N : B[k] = tail
  BY <1>2 DEF Cut
<1>5. k > 1 /\ N - 1 \in Nat /\ N - 1 >= 1 /\ 1 \in 1..(N - 1) /\ 2 \in 1..N
  <2>1. k # 1
    BY <1>3, <1>4
  <2> QED BY <1>3, <2>1
<1>6. B[2] = head'
  <2>1. RecordLen(B[1]) = B[1 + 1] - B[1]
    BY <1>2, <1>3, <1>5 DEF Cut
  <2>2. RecordLen(head) = B[2] - head /\ B[2] \in Nat /\ head \in Nat
    BY <1>3, <1>5, <2>1
  <2> QED BY <2>2
<1>7. Frontier' = Frontier
  <2>1. CASE IsCas
    BY <1>1, <2>1, FrontierIs, FrontierNext DEF FrontierKnown, IsCas
  <2>2. CASE ~IsCas /\ \E p \in Producers : Open(p)
    BY <1>1, <2>2, FrontierIs, FrontierNext DEF FrontierKnown, IsCas
  <2>3. CASE ~IsCas /\ \A p \in Producers : ~Open(p)
    BY <1>1, <2>3, FrontierIs, FrontierNext DEF FrontierKnown, IsCas
  <2> QED BY <2>1, <2>2, <2>3
<1>8. PICK C : C = Tail(B)
  OBVIOUS
<1>9. /\ C \in Seq(Nat) /\ Len(C) = N - 1
      /\ \A i \in 1..(N - 1) : C[i] = B[i + 1]
  BY <1>2, <1>3, <1>8, TailOf
<1>10. \A x : RecordLen(x)' = RecordLen(x)
  BY <1>1 DEF RecordLen
<1>11. ASSUME NEW i \in 1..(N - 2)
       PROVE  /\ i + 1 \in 1..(N - 1) /\ i \in 1..(N - 1)
              /\ C[i] = B[i + 1] /\ C[i + 1] = B[(i + 1) + 1] /\ B[i + 1] \in Nat
  <2>1. i + 1 \in 1..(N - 1) /\ i \in 1..(N - 1) /\ i + 1 \in 1..N
    BY <1>3
  <2> QED BY <1>3, <1>9, <2>1
<1>12. Cut(C)'
  <2>1. ASSUME NEW i \in 1..(N - 2)
        PROVE  IF C[i] < tail'
               THEN RecordLen(C[i])' = C[i + 1] - C[i]
               ELSE \E q \in Producers :
                      Open(q)' /\ start'[q] = C[i] /\ want'[q] = C[i + 1] - C[i]
    <3>1. PICK j \in 1..(N - 1) : j = i + 1
      BY <1>11
    <3>2. IF B[j] < tail
          THEN RecordLen(B[j]) = B[j + 1] - B[j]
          ELSE \E q \in Producers : Open(q) /\ start[q] = B[j] /\ want[q] = B[j + 1] - B[j]
      BY <1>2 DEF Cut
    <3>3. C[i] = B[j] /\ C[i + 1] = B[j + 1]
      BY <1>11, <3>1
    <3> QED BY <1>1, <1>10, <3>2, <3>3
  <2>2. C[1] = head' /\ C[Len(C)] = Frontier'
    <3>1. 1 \in 1..(N - 1) /\ N - 1 \in 1..(N - 1) /\ 1 + 1 = 2 /\ (N - 1) + 1 = N
      BY <1>3, <1>5
    <3>2. C[1] = B[2] /\ C[N - 1] = B[N]
      BY <1>9, <3>1
    <3> QED BY <1>3, <1>6, <1>7, <1>9, <3>2
  <2>3. \E j \in 1..Len(C) : C[j] = tail'
    <3>1. k - 1 \in 1..(N - 1) /\ (k - 1) + 1 = k
      BY <1>3, <1>4, <1>5
    <3>2. C[k - 1] = tail'
      BY <1>1, <1>4, <1>9, <3>1
    <3> QED BY <1>9, <3>1, <3>2
  <2>4. \A i, j \in 1..Len(C) : i < j => C[i] < C[j]
    BY <1>3, <1>9
  <2>5. Len(C) >= 1 /\ Len(C) - 1 = N - 2
    BY <1>3, <1>5, <1>9
  <2> QED BY <1>9, <2>1, <2>2, <2>3, <2>4, <2>5 DEF Cut
<1>13. PICK R, E : R = Records /\ E = {EntryAt(B[i]) : i \in 1..(N - 1)}
  OBVIOUS
<1>14. R \in Seq(E) /\ Len(R) = N - 1 /\ R = [i \in 1..(N - 1) |-> EntryAt(B[i])]
  <2>1. R \in Seq(E) /\ R = [i \in 1..(N - 1) |-> EntryAt(B[i])]
    BY <1>2, <1>13, RecordsAlong DEF RecordsFollow
  <2> QED BY <1>5, <2>1
<1>15. Tail(R) = [i \in 1..(N - 2) |-> R[i + 1]] /\ R # <<>>
  <2>1. Tail(R) = [i \in 1..(Len(R) - 1) |-> R[i + 1]] /\ R # <<>>
    BY <1>5, <1>14, TailOf
  <2>2. Len(R) - 1 = N - 2
    BY <1>3, <1>14
  <2> QED BY <2>1, <2>2
<1>16. Records' = Tail(R)
  <2>1. Len(C) - 1 = N - 2
    BY <1>3, <1>5, <1>9
  <2>2. Records' = [i \in 1..(N - 2) |-> EntryAt(C[i])']
    BY <1>12, <2>1, RecordsNext DEF RecordsFollow
  <2>3. ASSUME NEW i \in 1..(N - 2) PROVE EntryAt(C[i])' = R[i + 1]
    <3>1. PICK x \in Nat : x = B[i + 1]
      BY <1>11
    <3>2. C[i] = x /\ R[i + 1] = EntryAt(x)
      BY <1>11, <1>14, <3>1
    <3>3. CASE x < tail
      <4>1. x < tail' /\ mem'[Index(x)] = mem[Index(x)]
        BY <1>1, <3>3
      <4> QED BY <3>2, <3>3, <4>1, EntryStays
    <3>4. CASE ~(x < tail)
      <4>1. PICK j \in 1..(N - 1) : j = i + 1
        BY <1>11
      <4>2. PICK q \in Producers : Open(q) /\ start[q] = x /\ tail <= x
        BY <1>2, <3>1, <3>4, <4>1, EntryKinds
      <4>3. Open(q)' /\ start'[q] = x /\ tail' <= x /\ want'[q] = want[q]
        BY <1>1, <4>2
      <4> QED BY <3>2, <4>2, <4>3, EntryStays
    <3> QED BY <3>3, <3>4
  <2> QED BY <1>15, <2>2, <2>3
<1>17. Head(R) = Published(head)
  <2>1. EntryAt(head) = Published(head)
    BY DEF EntryAt, Published
  <2>2. R[1] = EntryAt(head)
    BY <1>3, <1>5, <1>14
  <2> QED BY <1>14, <1>15, <2>1, <2>2
<1> QED BY <1>12, <1>13, <1>15, <1>16, <1>17

(***************************************************************************)
(* Every step is one of the FIFO or leaves it as it is.                    *)
(***************************************************************************)

WantsOffered == \A p \in Producers : pc[p] # "idle" => want[p] \in Lens

LEMMA WantsKept ==
  ASSUME TypeOK, WantsOffered, [Next]_vars
  PROVE  WantsOffered'
<1> USE DEF TypeOK, WantsOffered, prodVars
<1>1. ASSUME NEW p \in Producers, NEW n \in Lens, Begin(p, n) PROVE WantsOffered'
  BY <1>1 DEF Begin
<1>2. ASSUME NEW p \in Producers, Transaction(p) PROVE WantsOffered'
  <2>1. pc[p] # "idle"
    BY <1>2 DEF Transaction, LoadCursor, SpaceFound, NoSpace, TakeReservation, LoseReservation,
       PushSlice, PushDummy, Abandon, CommitTail
  <2>2. CASE want' = want
    <3>1. \A q \in Producers : q # p => pc'[q] = pc[q]
      BY <1>2 DEF Transaction, LoadCursor, SpaceFound, NoSpace, TakeReservation, LoseReservation,
         PushSlice, PushDummy, Abandon, CommitTail, Leave
    <3> QED BY <2>1, <2>2, <3>1
  <2>3. CASE Leave(p)
    BY <2>3 DEF Leave
  <2> QED
    BY <1>2, <2>2, <2>3 DEF Transaction, LoadCursor, SpaceFound, NoSpace, TakeReservation,
       LoseReservation, PushSlice, PushDummy, Abandon, CommitTail
<1>3. ASSUME NEW r \in Readers, Poll(r) PROVE WantsOffered'
  BY <1>3 DEF Poll, LoadStatus, ReadHeader, NoRecord, SkipDummy, TakeRecord, DropRef
<1>4. CASE UNCHANGED vars
  BY <1>4 DEF vars
<1> QED BY <1>1, <1>2, <1>3, <1>4 DEF Next

LEMMA QuietMaps ==
  ASSUME CursorInv, CursorInv', Quiet, UNCHANGED rpc, NEW B, Cut(B)
  PROVE  (\E C : Cut(C)') /\ UNCHANGED <<Records, Held, ~IsCas>>
<1>1. Cut(B)' /\ Records' = Records
  BY QuietKeeps
<1>2. UNCHANGED <<Held, ~IsCas>>
  BY DEF Held, IsCas, Quiet
<1> QED BY <1>1, <1>2

LEMMA ProducerMaps ==
  ASSUME SingleWriter, MemoryInv, CursorInv', WantsOffered, NEW B, Cut(B),
         NEW p \in Producers, Transaction(p)
  PROVE  (\E C : Cut(C)') /\ (Fifo!Next \/ UNCHANGED <<Records, Held, ~IsCas>>)
<1>0. CursorInv /\ TypeOK
  BY DEF MemoryInv, CursorInv
<1>1. CASE LoadCursor(p) \/ SpaceFound(p) \/ NoSpace(p) \/ LoseReservation(p)
  <2>1. UNCHANGED <<mode, head, tail, reserved, mem, readVars>>
    BY <1>1 DEF LoadCursor, SpaceFound, NoSpace, LoseReservation
  <2>2. \A q \in Producers :
          /\ Open(q)' <=> Open(q)
          /\ Open(q) => start'[q] = start[q] /\ want'[q] = want[q]
    BY <1>0, <1>1 DEF LoadCursor, SpaceFound, NoSpace, LoseReservation, Leave, Open, TypeOK
  <2>3. Quiet /\ UNCHANGED rpc
    BY <2>1, <2>2 DEF Quiet, readVars
  <2> QED BY <1>0, <2>3, QuietMaps
<1>2. CASE PushSlice(p) \/ PushDummy(p)
  <2>1. UNCHANGED <<mode, head, tail, reserved, readVars, start, want>>
    BY <1>2 DEF PushSlice, PushDummy
  <2>2. \A q \in Producers : Open(q)' <=> Open(q)
    BY <1>0, <1>2 DEF PushSlice, PushDummy, Open, TypeOK
  <2>3. \E k \in Nat : \E c : k < want[p] /\ mem' = [mem EXCEPT ![Index(start[p] + k)] = c]
    <3>1. CASE PushSlice(p)
      BY <1>0, <3>1 DEF PushSlice, TypeOK
    <3>2. CASE PushDummy(p)
      <4>1. 0 \in Nat /\ 0 < want[p] /\ start[p] + 0 = start[p]
        BY <1>0, <3>2 DEF PushDummy, TypeOK
      <4> QED BY <3>2, <4>1 DEF PushDummy
    <3> QED BY <1>2, <3>1, <3>2
  <2>4. Open(p)
    BY <1>2 DEF PushSlice, PushDummy, Open
  <2>5. \A y \in Nat : head <= y /\ y < tail => mem'[Index(y)] = mem[Index(y)]
    BY <1>0, <2>3, <2>4, OneCellWritten
  <2>6. Quiet /\ UNCHANGED rpc
    BY <2>1, <2>2, <2>5 DEF Quiet, readVars
  <2> QED BY <1>0, <2>6, QuietMaps
<1>3. CASE TakeReservation(p)
  <2>1. want[p] \in Lens
    BY <1>3 DEF TakeReservation, WantsOffered
  <2>2. (\E C : Cut(C)') /\ Fifo!Reserve(p, want[p])
    BY <1>0, <1>3, TakeKeeps, TakeReserves
  <2> QED BY <2>1, <2>2 DEF Fifo!Next
<1>4. CASE Abandon(p)
  BY <1>0, <1>4, AbandonKeeps DEF Fifo!Next
<1>5. CASE CommitTail(p)
  <2>1. Cut(B)' /\ \E k \in DOMAIN Records, st \in {"record", "dummy"} : Fifo!Publish(k, st)
    BY <1>5, CommitKeeps
  <2> QED BY <2>1 DEF Fifo!Next
<1> QED BY <1>1, <1>2, <1>3, <1>4, <1>5 DEF Transaction

(* The first entry is the record at head.                                   *)
LEMMA FirstEntry ==
  ASSUME CursorInv, head < tail, NEW B, Cut(B)
  PROVE  Records # <<>> /\ Head(Records) = EntryAt(head)
<1>1. PICK N, R : N = Len(B) /\ R = Records
  OBVIOUS
<1>2. /\ N \in Nat /\ \A i \in 1..N : B[i] \in Nat
      /\ B[1] = head /\ N >= 1
  BY <1>1, CutFacts DEF Cut
<1>3. PICK k \in 1..N : B[k] = tail
  BY <1>1 DEF Cut
<1>4. N > 1
  <2>1. k # 1
    BY <1>2, <1>3
  <2> QED BY <1>2, <1>3, <2>1
<1>5. /\ R \in Seq({EntryAt(B[i]) : i \in 1..(N - 1)})
      /\ R = [i \in 1..(N - 1) |-> EntryAt(B[i])]
  BY <1>1, RecordsAlong DEF RecordsFollow
<1>6. Len(R) = N - 1 /\ R[1] = EntryAt(head)
  BY <1>2, <1>4, <1>5
<1>7. R # <<>> /\ Head(R) = R[1]
  <2>1. PICK E : R \in Seq(E)
    BY <1>5
  <2>2. Len(R) >= 1
    BY <1>2, <1>4, <1>6
  <2> QED BY <2>1, <2>2
<1> QED BY <1>1, <1>6, <1>7

LEMMA ReaderMaps ==
  ASSUME SingleReader, MemoryInv, CursorInv', NEW B, Cut(B), NEW r \in Readers, Poll(r)
  PROVE  (\E C : Cut(C)') /\ (Fifo!Next \/ UNCHANGED <<Records, Held, ~IsCas>>)
<1>0. CursorInv /\ TypeOK /\ \A s \in Readers : s = r
  BY DEF MemoryInv, CursorInv, SingleReader
<1>1. Held = (rpc[r] = "hold") /\ Held' = (rpc'[r] = "hold")
  BY <1>0 DEF Held
<1>2. ASSUME UNCHANGED <<mode, head, tail, reserved, mem, prodVars>> PROVE Quiet
  BY <1>2 DEF Quiet, prodVars, Open
<1>3. CASE LoadStatus(r)
  <2>1. Quiet /\ UNCHANGED mode
    BY <1>2, <1>3 DEF LoadStatus
  <2>2. Held = FALSE /\ Held' = FALSE
    BY <1>0, <1>1, <1>3 DEF LoadStatus, TypeOK
  <2>3. Cut(B)' /\ Records' = Records
    BY <1>0, <2>1, QuietKeeps
  <2>4. UNCHANGED <<Held, ~IsCas>>
    BY <2>1, <2>2 DEF IsCas
  <2> QED BY <2>3, <2>4
<1>4. CASE TakeRecord(r)
  <2>1. Quiet /\ UNCHANGED <<mode, head, tail, mem>>
    BY <1>2, <1>4 DEF TakeRecord
  <2>2. ~Held /\ Held'
    BY <1>0, <1>1, <1>4 DEF TakeRecord, TypeOK
  <2>3. Cut(B)' /\ Records' = Records
    BY <1>0, <2>1, QuietKeeps
  <2>4. at[r] = head /\ head < tail
    BY <1>4, HeaderIsWhole DEF TakeRecord
  <2>5. Records # <<>> /\ Head(Records) = EntryAt(head)
    BY <1>0, <2>4, FirstEntry
  <2>6. EntryAt(head).st = "record"
    BY <1>4, <2>4 DEF EntryAt, TakeRecord, HeaderAt
  <2>7. Fifo!Receive
    BY <2>1, <2>2, <2>3, <2>5, <2>6 DEF Fifo!Receive, IsCas
  <2> QED BY <2>3, <2>7 DEF Fifo!Next
<1>5. CASE SkipDummy(r)
  <2>1. /\ rpc[r] = "header" /\ HeaderAt(r).dummy
        /\ head' = at[r] + HeaderAt(r).len /\ Return(r)
        /\ UNCHANGED <<mode, tail, reserved, mem, prodVars>>
    BY <1>5 DEF SkipDummy
  <2>2. at[r] = head /\ head < tail
    BY <2>1, HeaderIsWhole
  <2>3. head' = head + RecordLen(head)
    BY <2>1, <2>2 DEF HeaderAt, RecordLen
  <2>4. /\ \E C : Cut(C)'
        /\ Records # <<>> /\ Head(Records) = Published(head) /\ Records' = Tail(Records)
    BY <1>0, <2>1, <2>2, <2>3, ReleaseKeeps
  <2>5. Published(head).st = "dummy"
    BY <2>1, <2>2 DEF Published, HeaderAt
  <2>6. Held = FALSE /\ Held' = FALSE
    BY <1>0, <1>1, <2>1 DEF Return, TypeOK
  <2>7. Fifo!Skip
    <3>1. UNCHANGED <<Held, ~IsCas>>
      BY <2>1, <2>6 DEF IsCas
    <3> QED BY <2>4, <2>5, <2>6, <3>1 DEF Fifo!Skip
  <2> QED BY <2>4, <2>7 DEF Fifo!Next
<1>6. CASE DropRef(r)
  <2>1. /\ rpc[r] = "hold" /\ head' = at[r] + rlen[r] /\ Return(r)
        /\ UNCHANGED <<mode, tail, reserved, mem, prodVars>>
    BY <1>6 DEF DropRef
  <2>2. at[r] = head /\ at[r] + rlen[r] <= tail /\ rlen[r] > 0 /\ rlen[r] = RecordLen(at[r])
    BY <1>0, <2>1 DEF MemoryInv, ReaderKnows, CursorInv, ReaderAtHead
  <2>3. head < tail /\ head' = head + RecordLen(head)
    BY <1>0, <2>1, <2>2 DEF TypeOK
  <2>4. (\E C : Cut(C)') /\ Records' = Tail(Records)
    BY <1>0, <2>1, <2>3, ReleaseKeeps
  <2>5. Held /\ ~Held'
    BY <1>0, <1>1, <2>1 DEF Return, TypeOK
  <2>6. Fifo!Release
    BY <2>1, <2>4, <2>5 DEF Fifo!Release, IsCas
  <2> QED BY <2>4, <2>6 DEF Fifo!Next
<1>7. CASE NoRecord(r)
  BY <1>7, HeaderIsWhole DEF NoRecord
<1> QED BY <1>3, <1>4, <1>5, <1>6, <1>7 DEF Poll, ReadHeader

LEMMA StepMaps ==
  ASSUME SingleWriter, SingleReader, FifoInv, [Next]_vars
  PROVE  FifoInv' /\ [Fifo!Next]_<<Records, Held, ~IsCas>>
<1>0. MemoryInv /\ CursorInv /\ TypeOK /\ WantsOffered
  BY DEF FifoInv, MemoryInv, CursorInv, WantsOffered
<1>1. MemoryInv' /\ CursorInv'
  <2>1. MemoryInv'
    BY <1>0, NextMemory
  <2> QED BY <2>1 DEF MemoryInv
<1>2. WantsOffered'
  BY <1>0, WantsKept
<1>3. PICK B : Cut(B)
  BY DEF FifoInv
<1>4. (\E C : Cut(C)') /\ (Fifo!Next \/ UNCHANGED <<Records, Held, ~IsCas>>)
  <2>1. ASSUME NEW p \in Producers, NEW n \in Lens, Begin(p, n)
        PROVE  (\E C : Cut(C)') /\ UNCHANGED <<Records, Held, ~IsCas>>
    <3>1. Quiet /\ UNCHANGED rpc
      BY <1>0, <2>1 DEF Begin, Quiet, Open, readVars, TypeOK
    <3> QED BY <1>0, <1>1, <1>3, <3>1, QuietMaps
  <2>2. ASSUME NEW p \in Producers, Transaction(p)
        PROVE  (\E C : Cut(C)') /\ (Fifo!Next \/ UNCHANGED <<Records, Held, ~IsCas>>)
    BY <1>0, <1>1, <1>3, <2>2, ProducerMaps
  <2>3. ASSUME NEW r \in Readers, Poll(r)
        PROVE  (\E C : Cut(C)') /\ (Fifo!Next \/ UNCHANGED <<Records, Held, ~IsCas>>)
    BY <1>0, <1>1, <1>3, <2>3, ReaderMaps
  <2>4. ASSUME UNCHANGED vars
        PROVE  (\E C : Cut(C)') /\ UNCHANGED <<Records, Held, ~IsCas>>
    <3>1. Quiet /\ UNCHANGED rpc
      BY <2>4 DEF Quiet, Open, vars
    <3> QED BY <1>0, <1>1, <1>3, <3>1, QuietMaps
  <2> QED BY <2>1, <2>2, <2>3, <2>4 DEF Next
<1> QED BY <1>1, <1>2, <1>4 DEF FifoInv, WantsOffered

LEMMA InitFifo == Init => FifoInv /\ Fifo!Init
<1> SUFFICES ASSUME Init PROVE FifoInv /\ Fifo!Init
  OBVIOUS
<1>1. MemoryInv /\ CursorInv /\ head = 0 /\ tail = 0 /\ reserved = 0
  BY InitMemory DEF MemoryInv, Init
<1>2. \A p \in Producers : pc[p] = "idle" /\ ~Open(p)
  BY DEF Init, Open
<1>3. Frontier = 0
  BY <1>1, <1>2, FrontierIs DEF FrontierKnown
<1>4. PICK B : B = <<0>>
  OBVIOUS
<1>5. B \in Seq(Nat) /\ Len(B) = 1 /\ B[1] = 0
  BY <1>4
<1>6. Cut(B)
  BY <1>1, <1>3, <1>5 DEF Cut
<1>7. Records = <<>>
  <2>1. Records = [i \in 1..0 |-> EntryAt(B[i])]
    <3>1. Len(B) - 1 = 0
      BY <1>5
    <3> QED BY <1>1, <1>6, <3>1, RecordsAlong DEF RecordsFollow
  <2> QED BY <2>1
<1>8. Held = FALSE
  BY DEF Init, Held
<1> QED BY <1>1, <1>2, <1>6, <1>7, <1>8 DEF FifoInv, Fifo!Init

(* For every ring size, every set of record lengths and, on the CAS ring,   *)
(* every number of producers: a ring with one reader (and one writer, if it *)
(* is per-core) is a bounded FIFO of records.  The client receives exactly  *)
(* the published records, once each, one at a time and in reservation order *)
(* (data.rs:105-107, dll/src/ringbuffer.rs:260-317).                        *)
THEOREM RingIsAFifo ==
  ASSUME SingleWriter, SingleReader
  PROVE  Spec => ImplementsFifo
<1>1. FifoInv /\ [Next]_vars => FifoInv' /\ [Fifo!Next]_<<Records, Held, ~IsCas>>
  BY StepMaps
<1> QED
  BY <1>1, InitFifo, PTL DEF Spec, ImplementsFifo, Fifo!Spec
=============================================================================
