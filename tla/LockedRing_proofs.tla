--------------------------- MODULE LockedRing_proofs ---------------------------
(***************************************************************************)
(* Theorems about LockedRing, for any number of threads, pushes and nodes: *)
(* its invariants, the shape of the list, and that it implements the       *)
(* record queue.                                                           *)
(***************************************************************************)
EXTENDS LockedRingOrder, TLAPS, WellFoundedInduction, SequenceTheorems

(***************************************************************************)
(* The inductive invariant.  The list is described without walking it: no  *)
(* node has two predecessors, one linked node has no successor, and tail   *)
(* is that node or the one before it.  Since one thread drains at a time,  *)
(* the head a drainer has loaded is the head.                              *)
(***************************************************************************)

\* Where a thread is in the queue's calls is where it is in push_record and
\* drain.
Enqueuing(t) == qpc[t] \in {"e_tail", "e_next", "e_check", "e_link", "e_swing", "e_help"}
Dequeuing(t) == qpc[t] \in {"d_head", "d_tail", "d_next", "d_check", "d_help", "d_swing", "d_take"}

Phases ==
  \A t \in Threads :
    /\ Enqueuing(t) <=> dpc[t] = "push"
    /\ Dequeuing(t) => dpc[t] = "drain"
    /\ qpc[t] = "i_next" => dpc[t] = "probe"

\* Who has set drain_lock and has not made its release visible.
Holds(t) == Draining(t) \/ t \in buffered

Locking ==
  /\ \A t \in Threads : Holds(t) => drainLock
  /\ \A t, u \in Threads : Holds(t) /\ Holds(u) => t = u
  /\ drainLock => \E t \in Threads : Holds(t)
  /\ \A t \in buffered : delays /\ ~Draining(t)

Linked(n) == n = 1 \/ \E m \in Nodes : link[m] = n

\* A node only its thread knows.
Private(t) ==
  /\ node[t] \in Nodes /\ node[t] < fresh /\ ~Linked(node[t]) /\ link[node[t]] = Null
  /\ \A u \in Threads : u # t /\ qpc[u] \in {"e_tail", "e_next", "e_check", "e_link", "e_help"} =>
       node[u] # node[t]

List ==
  /\ fresh >= 2
  /\ \A n \in Nodes : n >= fresh => link[n] = Null /\ ~Linked(n)
  /\ \A n \in Nodes : link[n] # n
  /\ \A m, n \in Nodes : link[m] = link[n] /\ link[m] # Null => m = n
  /\ \A m \in Nodes : link[m] # 1
  /\ \A m, n \in Nodes : Linked(m) /\ Linked(n) /\ link[m] = Null /\ link[n] = Null => m = n
  /\ Linked(qhead) /\ Linked(qtail)
  /\ link[qtail] # Null => link[link[qtail]] = Null
  /\ link[qtail] # qhead
  /\ qtail # qhead => link[qhead] # Null

Enqueuers ==
  \A t \in Threads :
    /\ qpc[t] \in {"e_tail", "e_next", "e_check", "e_link", "e_help"} => Private(t)
    /\ qpc[t] \in {"e_next", "e_check", "e_link", "e_help", "e_swing"} =>
         tl[t] \in Nodes /\ Linked(tl[t]) /\ link[qtail] # tl[t]
    /\ qpc[t] = "e_check" => nx[t] \in {Null, link[tl[t]]}
    /\ qpc[t] = "e_help" => nx[t] # Null /\ nx[t] = link[tl[t]]
    /\ qpc[t] = "e_swing" => node[t] # Null /\ link[tl[t]] = node[t]

Drainer ==
  \A t \in Threads :
    /\ qpc[t] \in {"d_tail", "d_next", "d_check", "d_help", "d_swing"} => hd[t] = qhead
    /\ qpc[t] \in {"d_next", "d_check", "d_swing"} =>
         tl[t] # Null /\ (tl[t] # hd[t] => qtail # qhead)
    /\ qpc[t] = "d_check" => IF nx[t] = Null THEN tl[t] = hd[t] ELSE nx[t] = link[hd[t]]
    /\ qpc[t] = "d_help" => tl[t] = hd[t] /\ nx[t] # Null /\ nx[t] = link[hd[t]]
    /\ qpc[t] = "d_swing" => tl[t] # hd[t] /\ nx[t] # Null /\ nx[t] = link[hd[t]]
    /\ qpc[t] = "d_take" => nx[t] # Null
    /\ qpc[t] = "i_next" => hd[t] \in Nodes /\ (hd[t] = qhead \/ link[hd[t]] # Null)

\* Somebody who will look at the queue before it returns.
Responsible(t) == dpc[t] # "idle" /\ (dpc[t] = "push" => qpc[t] = "e_swing")

Watched == ~delays /\ link[qhead] # Null => \E t \in Threads : Responsible(t)

RingInv == TypeOK /\ Phases /\ Locking /\ List /\ Enqueuers /\ Drainer /\ Watched

(***************************************************************************)
(* Next, an action at a time.                                              *)
(***************************************************************************)

LEMMA Stepping ==
  ASSUME Next
  PROVE  \E t \in Threads :
           \/ Push(t)
           \/ InQueue(t) /\ EnqLoadTail(t)
           \/ InQueue(t) /\ EnqLoadNext(t)
           \/ InQueue(t) /\ EnqCheck(t)
           \/ InQueue(t) /\ EnqLinked(t)
           \/ InQueue(t) /\ EnqLostRace(t)
           \/ InQueue(t) /\ EnqHelp(t)
           \/ InQueue(t) /\ DeqLoadHead(t, "d_head")
           \/ InQueue(t) /\ DeqLoadTail(t)
           \/ InQueue(t) /\ DeqLoadNext(t)
           \/ InQueue(t) /\ DeqCheck(t)
           \/ InQueue(t) /\ DeqHelp(t)
           \/ InQueue(t) /\ DeqSwing(t)
           \/ Pushed(t)
           \/ \E from \in {"lock", "again"} : LockDrain(t, from)
           \/ \E from \in {"lock", "again"} : LeaveToHolder(t, from)
           \/ StartDequeue(t)
           \/ GotItem(t)
           \/ GotNone(t)
           \/ Ship(t)
           \/ UnlockDrain(t)
           \/ FlushStore(t)
           \/ StartProbe(t)
           \/ Probed(t)
  BY DEF Next, DrainStep, InQueue, QueueStep

LEMMA InitInv == Init => RingInv
<1> SUFFICES ASSUME Init PROVE RingInv
  OBVIOUS
<1> USE DEF Init, QueueInit
<1>1. 1 \in Nodes
  BY MaxNodesAssumption DEF Nodes
<1>2. QueueTypeOK
  <2>1. <<>> \in Seq(Threads \X Nat) /\ {1} \subseteq Nodes
    BY <1>1
  <2> QED BY <1>1, <2>1 DEF QueueTypeOK, Nodes, Null
<1>6. delays \in BOOLEAN
  BY PushesAssumption, Zenon
<1>7. TypeOK
  <2>1. out \in Seq(Threads \X Nat)
    BY <<>> \in Seq(Threads \X Nat)
  <2>4. buffered \subseteq Threads /\ drainLock \in BOOLEAN
    OBVIOUS
  <2>2. dpc \in [Threads -> {"idle", "push", "lock", "drain", "ship", "unlock", "probe", "again"}]
    OBVIOUS
  <2>3. pushed \in [Threads -> 0..Pushes]
    BY PushesAssumption
  <2> QED BY <1>2, <1>6, <2>1, <2>2, <2>3, <2>4, Zenon DEF TypeOK
<1>3. \A n \in Nodes : Linked(n) <=> n = 1
  BY DEF Linked, Nodes, Null
<1>4. List
  BY <1>1, <1>3 DEF List, Nodes, Null
<1>5. Phases /\ Locking
  BY DEF Phases, Locking, Enqueuing, Dequeuing, Holds, Draining
<1>8. Enqueuers /\ Drainer
  BY DEF Enqueuers, Drainer
<1>9. Watched
  BY <1>1 DEF Watched, Null
<1> QED BY <1>7, <1>8, <1>9, <1>4, <1>5 DEF RingInv

(* A lock released is released by the one who holds it. *)
LEMMA LockStep ==
  ASSUME TypeOK, Locking, Next
  PROVE  Locking'
<1> PICK t \in Threads :
       \/ Push(t)
       \/ InQueue(t) /\ EnqLoadTail(t)
       \/ InQueue(t) /\ EnqLoadNext(t)
       \/ InQueue(t) /\ EnqCheck(t)
       \/ InQueue(t) /\ EnqLinked(t)
       \/ InQueue(t) /\ EnqLostRace(t)
       \/ InQueue(t) /\ EnqHelp(t)
       \/ InQueue(t) /\ DeqLoadHead(t, "d_head")
       \/ InQueue(t) /\ DeqLoadTail(t)
       \/ InQueue(t) /\ DeqLoadNext(t)
       \/ InQueue(t) /\ DeqCheck(t)
       \/ InQueue(t) /\ DeqHelp(t)
       \/ InQueue(t) /\ DeqSwing(t)
       \/ Pushed(t)
       \/ \E from \in {"lock", "again"} : LockDrain(t, from)
       \/ \E from \in {"lock", "again"} : LeaveToHolder(t, from)
       \/ StartDequeue(t)
       \/ GotItem(t)
       \/ GotNone(t)
       \/ Ship(t)
       \/ UnlockDrain(t)
       \/ FlushStore(t)
       \/ StartProbe(t)
       \/ Probed(t)
  BY Stepping
<1>1. CASE Push(t)
  BY <1>1 DEF Push, EnqAlloc, Go, Move, TypeOK, QueueTypeOK, Locking, Holds, Draining
<1>2. CASE InQueue(t) /\ EnqLoadTail(t)
  BY <1>2 DEF InQueue, EnqLoadTail, Go, Move, TypeOK, QueueTypeOK, Locking, Holds,
  Draining
<1>3. CASE InQueue(t) /\ EnqLoadNext(t)
  BY <1>3 DEF InQueue, EnqLoadNext, Go, Move, TypeOK, QueueTypeOK, Locking, Holds,
  Draining
<1>4. CASE InQueue(t) /\ EnqCheck(t)
  BY <1>4 DEF InQueue, EnqCheck, Go, Move, TypeOK, QueueTypeOK, Locking, Holds,
  Draining
<1>5. CASE InQueue(t) /\ EnqLinked(t)
  BY <1>5 DEF InQueue, EnqLinked, Go, Move, TypeOK, QueueTypeOK, Locking, Holds,
  Draining
<1>6. CASE InQueue(t) /\ EnqLostRace(t)
  BY <1>6 DEF InQueue, EnqLostRace, Go, Move, TypeOK, QueueTypeOK, Locking, Holds,
  Draining
<1>7. CASE InQueue(t) /\ EnqHelp(t)
  BY <1>7 DEF InQueue, EnqHelp, Go, Move, TypeOK, QueueTypeOK, Locking, Holds, Draining
<1>8. CASE InQueue(t) /\ DeqLoadHead(t, "d_head")
  BY <1>8 DEF InQueue, DeqLoadHead, Go, Move, TypeOK, QueueTypeOK, Locking, Holds,
  Draining
<1>9. CASE InQueue(t) /\ DeqLoadTail(t)
  BY <1>9 DEF InQueue, DeqLoadTail, Go, Move, TypeOK, QueueTypeOK, Locking, Holds,
  Draining
<1>10. CASE InQueue(t) /\ DeqLoadNext(t)
  BY <1>10 DEF InQueue, DeqLoadNext, Go, Move, TypeOK, QueueTypeOK, Locking, Holds,
  Draining
<1>11. CASE InQueue(t) /\ DeqCheck(t)
  BY <1>11 DEF InQueue, DeqCheck, Go, Move, TypeOK, QueueTypeOK, Locking, Holds,
  Draining
<1>12. CASE InQueue(t) /\ DeqHelp(t)
  BY <1>12 DEF InQueue, DeqHelp, Go, Move, TypeOK, QueueTypeOK, Locking, Holds,
  Draining
<1>13. CASE InQueue(t) /\ DeqSwing(t)
  BY <1>13 DEF InQueue, DeqSwing, Go, Move, TypeOK, QueueTypeOK, Locking, Holds,
  Draining
<1>14. CASE Pushed(t)
  BY <1>14 DEF Pushed, EnqSwing, Leave, Go, Move, TypeOK, QueueTypeOK, Locking, Holds,
  Draining
<1>15. CASE \E from \in {"lock", "again"} : LockDrain(t, from)
  BY <1>15 DEF LockDrain, queueVars, Go, Move, TypeOK, QueueTypeOK, Locking, Holds,
  Draining
<1>16. CASE \E from \in {"lock", "again"} : LeaveToHolder(t, from)
  BY <1>16 DEF LeaveToHolder, queueVars, Go, Move, TypeOK, QueueTypeOK, Locking, Holds,
  Draining
<1>17. CASE StartDequeue(t)
  BY <1>17 DEF StartDequeue, DeqLoadHead, Go, Move, TypeOK, QueueTypeOK, Locking,
  Holds, Draining
<1>18. CASE GotItem(t)
  BY <1>18 DEF GotItem, DeqTake, Leave, Go, Move, TypeOK, QueueTypeOK, Locking, Holds,
  Draining
<1>19. CASE GotNone(t)
  BY <1>19 DEF GotNone, DeqNone, Leave, Go, Move, TypeOK, QueueTypeOK, Locking, Holds,
  Draining
<1>20. CASE Ship(t)
  BY <1>20 DEF Ship, Go, Move, TypeOK, QueueTypeOK, Locking, Holds, Draining
<1>21. CASE UnlockDrain(t)
  BY <1>21 DEF UnlockDrain, queueVars, Go, Move, TypeOK, QueueTypeOK, Locking, Holds,
  Draining
<1>22. CASE FlushStore(t)
  BY <1>22 DEF FlushStore, queueVars, Go, Move, TypeOK, QueueTypeOK, Locking, Holds,
  Draining
<1>23. CASE StartProbe(t)
  BY <1>23 DEF StartProbe, EmptyLoadHead, Go, Move, TypeOK, QueueTypeOK, Locking,
  Holds, Draining
<1>24. CASE Probed(t)
  BY <1>24 DEF Probed, EmptyLoadNext, Leave, Go, Move, TypeOK, QueueTypeOK, Locking,
  Holds, Draining
<1> QED
  BY <1>1, <1>2, <1>3, <1>4, <1>5, <1>6, <1>7, <1>8, <1>9, <1>10, <1>11, <1>12, <1>13,
  <1>14, <1>15, <1>16, <1>17, <1>18, <1>19, <1>20, <1>21, <1>22, <1>23, <1>24

LEMMA PhaseStep ==
  ASSUME TypeOK, Phases, Next
  PROVE  Phases'
<1> PICK t \in Threads :
       \/ Push(t)
       \/ InQueue(t) /\ EnqLoadTail(t)
       \/ InQueue(t) /\ EnqLoadNext(t)
       \/ InQueue(t) /\ EnqCheck(t)
       \/ InQueue(t) /\ EnqLinked(t)
       \/ InQueue(t) /\ EnqLostRace(t)
       \/ InQueue(t) /\ EnqHelp(t)
       \/ InQueue(t) /\ DeqLoadHead(t, "d_head")
       \/ InQueue(t) /\ DeqLoadTail(t)
       \/ InQueue(t) /\ DeqLoadNext(t)
       \/ InQueue(t) /\ DeqCheck(t)
       \/ InQueue(t) /\ DeqHelp(t)
       \/ InQueue(t) /\ DeqSwing(t)
       \/ Pushed(t)
       \/ \E from \in {"lock", "again"} : LockDrain(t, from)
       \/ \E from \in {"lock", "again"} : LeaveToHolder(t, from)
       \/ StartDequeue(t)
       \/ GotItem(t)
       \/ GotNone(t)
       \/ Ship(t)
       \/ UnlockDrain(t)
       \/ FlushStore(t)
       \/ StartProbe(t)
       \/ Probed(t)
  BY Stepping
<1>1. CASE Push(t)
  BY <1>1 DEF Push, EnqAlloc, Go, Move, TypeOK, QueueTypeOK, Phases, Enqueuing,
  Dequeuing
<1>2. CASE InQueue(t) /\ EnqLoadTail(t)
  BY <1>2 DEF InQueue, EnqLoadTail, Go, Move, TypeOK, QueueTypeOK, Phases, Enqueuing,
  Dequeuing
<1>3. CASE InQueue(t) /\ EnqLoadNext(t)
  BY <1>3 DEF InQueue, EnqLoadNext, Go, Move, TypeOK, QueueTypeOK, Phases, Enqueuing,
  Dequeuing
<1>4. CASE InQueue(t) /\ EnqCheck(t)
  BY <1>4 DEF InQueue, EnqCheck, Go, Move, TypeOK, QueueTypeOK, Phases, Enqueuing,
  Dequeuing
<1>5. CASE InQueue(t) /\ EnqLinked(t)
  BY <1>5 DEF InQueue, EnqLinked, Go, Move, TypeOK, QueueTypeOK, Phases, Enqueuing,
  Dequeuing
<1>6. CASE InQueue(t) /\ EnqLostRace(t)
  BY <1>6 DEF InQueue, EnqLostRace, Go, Move, TypeOK, QueueTypeOK, Phases, Enqueuing,
  Dequeuing
<1>7. CASE InQueue(t) /\ EnqHelp(t)
  BY <1>7 DEF InQueue, EnqHelp, Go, Move, TypeOK, QueueTypeOK, Phases, Enqueuing,
  Dequeuing
<1>8. CASE InQueue(t) /\ DeqLoadHead(t, "d_head")
  BY <1>8 DEF InQueue, DeqLoadHead, Go, Move, TypeOK, QueueTypeOK, Phases, Enqueuing,
  Dequeuing
<1>9. CASE InQueue(t) /\ DeqLoadTail(t)
  BY <1>9 DEF InQueue, DeqLoadTail, Go, Move, TypeOK, QueueTypeOK, Phases, Enqueuing,
  Dequeuing
<1>10. CASE InQueue(t) /\ DeqLoadNext(t)
  BY <1>10 DEF InQueue, DeqLoadNext, Go, Move, TypeOK, QueueTypeOK, Phases, Enqueuing,
  Dequeuing
<1>11. CASE InQueue(t) /\ DeqCheck(t)
  BY <1>11 DEF InQueue, DeqCheck, Go, Move, TypeOK, QueueTypeOK, Phases, Enqueuing,
  Dequeuing
<1>12. CASE InQueue(t) /\ DeqHelp(t)
  BY <1>12 DEF InQueue, DeqHelp, Go, Move, TypeOK, QueueTypeOK, Phases, Enqueuing,
  Dequeuing
<1>13. CASE InQueue(t) /\ DeqSwing(t)
  BY <1>13 DEF InQueue, DeqSwing, Go, Move, TypeOK, QueueTypeOK, Phases, Enqueuing,
  Dequeuing
<1>14. CASE Pushed(t)
  BY <1>14 DEF Pushed, EnqSwing, Leave, Go, Move, TypeOK, QueueTypeOK, Phases,
  Enqueuing, Dequeuing
<1>15. CASE \E from \in {"lock", "again"} : LockDrain(t, from)
  BY <1>15 DEF LockDrain, queueVars, Go, Move, TypeOK, QueueTypeOK, Phases, Enqueuing,
  Dequeuing
<1>16. CASE \E from \in {"lock", "again"} : LeaveToHolder(t, from)
  BY <1>16 DEF LeaveToHolder, queueVars, Go, Move, TypeOK, QueueTypeOK, Phases,
  Enqueuing, Dequeuing
<1>17. CASE StartDequeue(t)
  BY <1>17 DEF StartDequeue, DeqLoadHead, Go, Move, TypeOK, QueueTypeOK, Phases,
  Enqueuing, Dequeuing
<1>18. CASE GotItem(t)
  BY <1>18 DEF GotItem, DeqTake, Leave, Go, Move, TypeOK, QueueTypeOK, Phases,
  Enqueuing, Dequeuing
<1>19. CASE GotNone(t)
  BY <1>19 DEF GotNone, DeqNone, Leave, Go, Move, TypeOK, QueueTypeOK, Phases,
  Enqueuing, Dequeuing
<1>20. CASE Ship(t)
  BY <1>20 DEF Ship, Go, Move, TypeOK, QueueTypeOK, Phases, Enqueuing, Dequeuing
<1>21. CASE UnlockDrain(t)
  BY <1>21 DEF UnlockDrain, queueVars, Go, Move, TypeOK, QueueTypeOK, Phases,
  Enqueuing, Dequeuing
<1>22. CASE FlushStore(t)
  BY <1>22 DEF FlushStore, queueVars, Go, Move, TypeOK, QueueTypeOK, Phases, Enqueuing,
  Dequeuing
<1>23. CASE StartProbe(t)
  BY <1>23 DEF StartProbe, EmptyLoadHead, Go, Move, TypeOK, QueueTypeOK, Phases,
  Enqueuing, Dequeuing
<1>24. CASE Probed(t)
  BY <1>24 DEF Probed, EmptyLoadNext, Leave, Go, Move, TypeOK, QueueTypeOK, Phases,
  Enqueuing, Dequeuing
<1> QED
  BY <1>1, <1>2, <1>3, <1>4, <1>5, <1>6, <1>7, <1>8, <1>9, <1>10, <1>11, <1>12, <1>13,
  <1>14, <1>15, <1>16, <1>17, <1>18, <1>19, <1>20, <1>21, <1>22, <1>23, <1>24

(***************************************************************************)
(* The list: what each change of a shared pointer does to it.              *)
(***************************************************************************)

LEMMA Pointers ==
  ASSUME TypeOK
  PROVE  /\ qhead \in Nodes /\ qtail \in Nodes /\ fresh \in Nat /\ 1 \in Nodes
         /\ \A n \in Nodes : link[n] \in Nodes \cup {Null}
         /\ Null \notin Nodes
<1>1. Null \notin Nodes /\ 1 \in Nodes
  BY MaxNodesAssumption DEF Nodes, Null
<1> QED BY <1>1 DEF TypeOK, QueueTypeOK

LEMMA ListGrows ==
  ASSUME TypeOK, List, NEW t \in Threads, Push(t)
  PROVE  List'
<1>1. fresh \in Nat /\ fresh' = fresh + 1 /\ UNCHANGED <<qhead, qtail, link>>
  BY DEF Push, EnqAlloc, TypeOK, QueueTypeOK
<1>2. \A n : Linked(n)' <=> Linked(n)
  BY <1>1 DEF Linked
<1> QED BY <1>1, <1>2 DEF List, Nodes

LEMMA LinkingOne ==
  ASSUME TypeOK, List, Enqueuers, NEW t \in Threads, EnqLinked(t)
  PROVE  /\ tl[t] \in Nodes /\ Linked(tl[t]) /\ link[tl[t]] = Null
         /\ node[t] \in Nodes /\ ~Linked(node[t]) /\ link[node[t]] = Null /\ node[t] < fresh
         /\ \A n \in Nodes : link'[n] = IF n = tl[t] THEN node[t] ELSE link[n]
         /\ \A n \in Nodes : Linked(n)' <=> Linked(n) \/ n = node[t]
         /\ link[qtail] # tl[t]
<1>1. /\ tl[t] \in Nodes /\ Linked(tl[t]) /\ link[tl[t]] = Null /\ link[qtail] # tl[t]
      /\ node[t] \in Nodes /\ ~Linked(node[t]) /\ link[node[t]] = Null /\ node[t] < fresh
  BY DEF EnqLinked, Go, Enqueuers, Private
<1>2. \A n \in Nodes : link'[n] = IF n = tl[t] THEN node[t] ELSE link[n]
  BY DEF EnqLinked, TypeOK, QueueTypeOK
<1>3. ASSUME NEW n \in Nodes PROVE Linked(n)' <=> Linked(n) \/ n = node[t]
  <2>1. Linked(n)' <=> n = 1 \/ \E m \in Nodes : link'[m] = n
    BY DEF Linked
  <2>2. ASSUME NEW m \in Nodes, link[m] = n PROVE link'[m] = n
    BY <1>1, <1>2, <2>2 DEF Nodes, Null
  <2>3. ASSUME NEW m \in Nodes, link'[m] = n PROVE link[m] = n \/ n = node[t]
    BY <1>2, <2>3
  <2>4. link'[tl[t]] = node[t]
    BY <1>1, <1>2
  <2> QED BY <1>1, <2>1, <2>2, <2>3, <2>4 DEF Linked
<1> QED BY <1>1, <1>2, <1>3

LEMMA ListExtended ==
  ASSUME TypeOK, List, Enqueuers, NEW t \in Threads, EnqLinked(t)
  PROVE  List'
<1> DEFINE new == node[t]
           end == tl[t]
<1>1. /\ end \in Nodes /\ Linked(end) /\ link[end] = Null
      /\ new \in Nodes /\ ~Linked(new) /\ link[new] = Null /\ new < fresh
      /\ \A n \in Nodes : link'[n] = IF n = end THEN new ELSE link[n]
      /\ \A n \in Nodes : Linked(n)' <=> Linked(n) \/ n = new
      /\ link[qtail] # end
  BY LinkingOne
<1>2. UNCHANGED <<qhead, qtail, fresh>>
  BY DEF EnqLinked
<1>3. /\ qhead \in Nodes /\ qtail \in Nodes /\ fresh \in Nat /\ 1 \in Nodes
      /\ \A n \in Nodes : link[n] \in Nodes \cup {Null} /\ link'[n] \in Nodes \cup {Null}
      /\ Null \notin Nodes
  <2>1. qhead \in Nodes /\ qtail \in Nodes /\ fresh \in Nat /\ 1 \in Nodes /\ Null \notin Nodes
    BY Pointers
  <2> QED BY <1>1, <2>1, Pointers
<1>4. \A n \in Nodes : Linked(n) => n # new
  BY <1>1
<1>5. Linked(1)
  BY DEF Linked
<1>6. \A n \in Nodes : link[n] # new
  BY <1>1 DEF Linked
<1> HIDE DEF new, end
<1>7. \A n \in Nodes : n >= fresh => link[n] = Null /\ ~Linked(n)
  BY DEF List
<1>8. \A m, n \in Nodes : Linked(m) /\ Linked(n) /\ link[m] = Null /\ link[n] = Null => m = n
  BY DEF List
<1>9. \A m, n \in Nodes : link[m] = link[n] /\ link[m] # Null => m = n
  BY DEF List
<1>10. /\ fresh >= 2
       /\ \A n \in Nodes : link[n] # n
       /\ \A n \in Nodes : link[n] # 1
       /\ Linked(qhead) /\ Linked(qtail)
       /\ link[qtail] # Null => link[link[qtail]] = Null
       /\ link[qtail] # qhead
       /\ qtail # qhead => link[qhead] # Null
  BY DEF List
<1>11. \A n \in Nodes : n >= fresh => n # new /\ n # end
  <2> SUFFICES ASSUME NEW n \in Nodes, n >= fresh PROVE n # new /\ n # end
    OBVIOUS
  <2>1. n # end
    BY <1>1, <1>7
  <2>2. n # new
    BY <1>1, <1>3 DEF Nodes
  <2> QED BY <2>1, <2>2
<1>12. \A n \in Nodes : n >= fresh => link'[n] = Null /\ ~Linked(n)'
  BY <1>1, <1>7, <1>11
<1>13. \A n \in Nodes : link'[n] # n
  BY <1>1, <1>4, <1>10
<1>14. \A m, n \in Nodes : link'[m] = link'[n] /\ link'[m] # Null => m = n
  BY <1>1, <1>6, <1>9
<1>15. \A n \in Nodes : link'[n] # 1
  BY <1>1, <1>3, <1>4, <1>5, <1>10
<1>16. \A m, n \in Nodes : Linked(m)' /\ Linked(n)' /\ link'[m] = Null /\ link'[n] = Null => m = n
  BY <1>1, <1>3, <1>8
<1>17. link'[qtail] # Null => link'[link'[qtail]] = Null
  <2>1. CASE qtail = end
    BY <1>1, <1>3, <1>4, <2>1
  <2>2. CASE qtail # end
    <3> SUFFICES ASSUME link'[qtail] # Null PROVE link'[link'[qtail]] = Null
      OBVIOUS
    <3>1. link'[qtail] = link[qtail] /\ link[qtail] \in Nodes /\ link[link[qtail]] = Null
      BY <1>1, <1>3, <1>10, <2>2
    <3> QED BY <1>1, <3>1
  <2> QED BY <2>1, <2>2
<1>18. link'[qtail] # qhead
  BY <1>1, <1>3, <1>4, <1>10
<1>19. qtail # qhead => link'[qhead] # Null
  BY <1>1, <1>3, <1>10
<1>20. Linked(qhead)' /\ Linked(qtail)'
  <2>1. \A n \in Nodes : Linked(n) => Linked(n)'
    BY <1>1
  <2>2. (\E m \in Nodes : link[m] = qhead) \/ qhead = 1
    BY <1>10 DEF Linked
  <2>3. (\E m \in Nodes : link[m] = qtail) \/ qtail = 1
    BY <1>10 DEF Linked
  <2>4. \A m \in Nodes : link[m] # Null => link'[m] = link[m]
    BY <1>1
  <2> QED BY <1>2, <1>3, <2>2, <2>3, <2>4 DEF Linked
<1> QED
  BY <1>2, <1>10, <1>12, <1>13, <1>14, <1>15, <1>16, <1>17, <1>18, <1>19, <1>20 DEF List

(* Tail moves on only while it lags.                                       *)
LEMMA TailMoves ==
  ASSUME TypeOK, List, link[qtail] # Null, qtail' = link[qtail],
         UNCHANGED <<qhead, link, fresh>>
  PROVE  List'
<1>1. qhead \in Nodes /\ qtail \in Nodes /\ link[qtail] \in Nodes /\ Null \notin Nodes
  BY Pointers
<1>2. \A n : Linked(n)' <=> Linked(n)
  BY DEF Linked
<1>3. Linked(link[qtail]) /\ link[link[qtail]] = Null
  BY <1>1 DEF List, Linked
<1>4. Linked(qhead)' /\ Linked(qtail)'
  BY <1>1, <1>3 DEF List, Linked
<1>5. qtail' # qhead => link[qhead] # Null
  BY <1>1, <1>3 DEF List
<1> QED BY <1>1, <1>2, <1>3, <1>4, <1>5 DEF List

LEMMA HeadMoves ==
  ASSUME TypeOK, List, qtail # qhead, qhead' = link[qhead],
         UNCHANGED <<qtail, link, fresh>>
  PROVE  List'
<1>1. /\ qhead \in Nodes /\ qtail \in Nodes /\ link[qhead] \in Nodes /\ Null \notin Nodes
      /\ link[qtail] \in Nodes \cup {Null}
  BY Pointers DEF List
<1>2. \A n : Linked(n)' <=> Linked(n)
  BY DEF Linked
<1>3. Linked(link[qhead])
  BY <1>1 DEF Linked
<1>4. link[qtail] # link[qhead]
  BY <1>1 DEF List
<1>5. qtail # link[qhead] => link[link[qhead]] # Null
  <2> SUFFICES ASSUME link[link[qhead]] = Null PROVE qtail = link[qhead]
    OBVIOUS
  <2>1. CASE link[qtail] = Null
    BY <1>1, <1>3, <2>1 DEF List
  <2>2. CASE link[qtail] # Null
    <3>1. link[link[qtail]] = Null /\ Linked(link[qtail])
      BY <1>1, <2>2 DEF List, Linked
    <3>2. link[qtail] = link[qhead]
      BY <1>1, <1>3, <2>2, <3>1 DEF List
    <3> QED BY <1>4, <3>2
  <2> QED BY <2>1, <2>2
<1>6. Linked(qhead)' /\ Linked(qtail)'
  BY <1>1, <1>3 DEF List, Linked
<1> QED BY <1>1, <1>2, <1>4, <1>5, <1>6 DEF List

LEMMA ListStep ==
  ASSUME RingInv, Next
  PROVE  List'
<1> PICK t \in Threads :
       \/ Push(t)
       \/ InQueue(t) /\ EnqLoadTail(t)
       \/ InQueue(t) /\ EnqLoadNext(t)
       \/ InQueue(t) /\ EnqCheck(t)
       \/ InQueue(t) /\ EnqLinked(t)
       \/ InQueue(t) /\ EnqLostRace(t)
       \/ InQueue(t) /\ EnqHelp(t)
       \/ InQueue(t) /\ DeqLoadHead(t, "d_head")
       \/ InQueue(t) /\ DeqLoadTail(t)
       \/ InQueue(t) /\ DeqLoadNext(t)
       \/ InQueue(t) /\ DeqCheck(t)
       \/ InQueue(t) /\ DeqHelp(t)
       \/ InQueue(t) /\ DeqSwing(t)
       \/ Pushed(t)
       \/ \E from \in {"lock", "again"} : LockDrain(t, from)
       \/ \E from \in {"lock", "again"} : LeaveToHolder(t, from)
       \/ StartDequeue(t)
       \/ GotItem(t)
       \/ GotNone(t)
       \/ Ship(t)
       \/ UnlockDrain(t)
       \/ FlushStore(t)
       \/ StartProbe(t)
       \/ Probed(t)
  BY Stepping
<1> USE DEF RingInv
<1>25. ASSUME UNCHANGED <<qhead, qtail, link, fresh>> PROVE List'
  <2>1. \A n : Linked(n)' <=> Linked(n)
    BY <1>25 DEF Linked
  <2> QED BY <1>25, <2>1 DEF List
<1>1. CASE Push(t)
  BY <1>1, ListGrows
<1>2. CASE InQueue(t) /\ EnqLoadTail(t)
  BY <1>2, <1>25 DEF InQueue, EnqLoadTail, Go, Move
<1>3. CASE InQueue(t) /\ EnqLoadNext(t)
  BY <1>3, <1>25 DEF InQueue, EnqLoadNext, Go, Move
<1>4. CASE InQueue(t) /\ EnqCheck(t)
  BY <1>4, <1>25 DEF InQueue, EnqCheck, Go, Move
<1>5. CASE InQueue(t) /\ EnqLinked(t)
  BY <1>5, ListExtended
<1>6. CASE InQueue(t) /\ EnqLostRace(t)
  BY <1>6, <1>25 DEF InQueue, EnqLostRace, Go, Move
<1>7. CASE InQueue(t) /\ EnqHelp(t)
  <2>1. qpc[t] = "e_help" /\ UNCHANGED <<qhead, link, fresh>>
    BY <1>7 DEF InQueue, EnqHelp, Go, Move
  <2>2. nx[t] = link[tl[t]] /\ nx[t] # Null
    BY <2>1 DEF Enqueuers
  <2>3. qtail' = IF qtail = tl[t] THEN nx[t] ELSE qtail
    BY <1>7 DEF InQueue, EnqHelp, Go, Move
  <2> QED BY <1>25, <2>1, <2>2, <2>3, TailMoves
<1>8. CASE InQueue(t) /\ DeqLoadHead(t, "d_head")
  BY <1>8, <1>25 DEF InQueue, DeqLoadHead, Go, Move
<1>9. CASE InQueue(t) /\ DeqLoadTail(t)
  BY <1>9, <1>25 DEF InQueue, DeqLoadTail, Go, Move
<1>10. CASE InQueue(t) /\ DeqLoadNext(t)
  BY <1>10, <1>25 DEF InQueue, DeqLoadNext, Go, Move
<1>11. CASE InQueue(t) /\ DeqCheck(t)
  BY <1>11, <1>25 DEF InQueue, DeqCheck, Go, Move
<1>12. CASE InQueue(t) /\ DeqHelp(t)
  <2>1. qpc[t] = "d_help" /\ UNCHANGED <<qhead, link, fresh>>
    BY <1>12 DEF InQueue, DeqHelp, Go, Move
  <2>2. nx[t] = link[tl[t]] /\ nx[t] # Null
    BY <2>1 DEF Drainer
  <2>3. qtail' = IF qtail = tl[t] THEN nx[t] ELSE qtail
    BY <1>12 DEF InQueue, DeqHelp, Go, Move
  <2> QED BY <1>25, <2>1, <2>2, <2>3, TailMoves
<1>13. CASE InQueue(t) /\ DeqSwing(t)
  <2>1. qpc[t] = "d_swing" /\ UNCHANGED <<qtail, link, fresh>>
    BY <1>13 DEF InQueue, DeqSwing, Go, Move
  <2>2. hd[t] = qhead /\ nx[t] = link[hd[t]] /\ qtail # qhead
    BY <2>1 DEF Drainer
  <2>3. qhead' = link[qhead]
    BY <1>13, <2>2 DEF InQueue, DeqSwing, Go, Move
  <2> QED BY <2>1, <2>2, <2>3, HeadMoves
<1>14. CASE Pushed(t)
  <2>1. qpc[t] = "e_swing" /\ UNCHANGED <<qhead, link, fresh>>
    BY <1>14 DEF Pushed, EnqSwing, Leave, Go, Move
  <2>2. node[t] = link[tl[t]] /\ node[t] # Null
    BY <2>1 DEF Enqueuers
  <2>3. qtail' = IF qtail = tl[t] THEN node[t] ELSE qtail
    BY <1>14 DEF Pushed, EnqSwing, Leave, Go, Move
  <2> QED BY <1>25, <2>1, <2>2, <2>3, TailMoves
<1>15. CASE \E from \in {"lock", "again"} : LockDrain(t, from)
  BY <1>15, <1>25 DEF LockDrain, queueVars, Go, Move
<1>16. CASE \E from \in {"lock", "again"} : LeaveToHolder(t, from)
  BY <1>16, <1>25 DEF LeaveToHolder, queueVars, Go, Move
<1>17. CASE StartDequeue(t)
  BY <1>17, <1>25 DEF StartDequeue, DeqLoadHead, Go, Move
<1>18. CASE GotItem(t)
  BY <1>18, <1>25 DEF GotItem, DeqTake, Leave, Go, Move
<1>19. CASE GotNone(t)
  BY <1>19, <1>25 DEF GotNone, DeqNone, Leave, Go, Move
<1>20. CASE Ship(t)
  BY <1>20, <1>25 DEF Ship, Go, Move
<1>21. CASE UnlockDrain(t)
  BY <1>21, <1>25 DEF UnlockDrain, queueVars, Go, Move
<1>22. CASE FlushStore(t)
  BY <1>22, <1>25 DEF FlushStore, queueVars, Go, Move
<1>23. CASE StartProbe(t)
  BY <1>23, <1>25 DEF StartProbe, EmptyLoadHead, Go, Move
<1>24. CASE Probed(t)
  BY <1>24, <1>25 DEF Probed, EmptyLoadNext, Leave, Go, Move
<1> QED
  BY <1>1, <1>2, <1>3, <1>4, <1>5, <1>6, <1>7, <1>8, <1>9, <1>10, <1>11, <1>12, <1>13,
  <1>14, <1>15, <1>16, <1>17, <1>18, <1>19, <1>20, <1>21, <1>22, <1>23, <1>24

(***************************************************************************)
(* The threads.                                                            *)
(***************************************************************************)

LEMMA TypeStep ==
  ASSUME RingInv, Next
  PROVE  TypeOK'
<1> PICK t \in Threads :
       \/ Push(t)
       \/ InQueue(t) /\ EnqLoadTail(t)
       \/ InQueue(t) /\ EnqLoadNext(t)
       \/ InQueue(t) /\ EnqCheck(t)
       \/ InQueue(t) /\ EnqLinked(t)
       \/ InQueue(t) /\ EnqLostRace(t)
       \/ InQueue(t) /\ EnqHelp(t)
       \/ InQueue(t) /\ DeqLoadHead(t, "d_head")
       \/ InQueue(t) /\ DeqLoadTail(t)
       \/ InQueue(t) /\ DeqLoadNext(t)
       \/ InQueue(t) /\ DeqCheck(t)
       \/ InQueue(t) /\ DeqHelp(t)
       \/ InQueue(t) /\ DeqSwing(t)
       \/ Pushed(t)
       \/ \E from \in {"lock", "again"} : LockDrain(t, from)
       \/ \E from \in {"lock", "again"} : LeaveToHolder(t, from)
       \/ StartDequeue(t)
       \/ GotItem(t)
       \/ GotNone(t)
       \/ Ship(t)
       \/ UnlockDrain(t)
       \/ FlushStore(t)
       \/ StartProbe(t)
       \/ Probed(t)
  BY Stepping
<1> USE DEF RingInv
<1>25. <<>> \in Seq(Threads \X Nat) /\ \A n \in Nodes : link[n] \in Nodes \cup {Null}
  BY Pointers
<1>1. CASE Push(t)
  <2>1. fresh \in Nodes /\ fresh + 1 \in Nat
    BY <1>1 DEF Push, EnqAlloc, Go, Move, TypeOK, QueueTypeOK, List, Nodes
  <2>2. pushed[t] + 1 \in 0..Pushes
    BY <1>1, PushesAssumption DEF Push, EnqAlloc, Go, Move, TypeOK
  <2>3. <<<<t, pushed[t] + 1>>>> \in Seq(Threads \X Nat)
    BY <2>2
  <2>4. pushed' \in [Threads -> 0..Pushes]
    BY <1>1, <2>2 DEF Push, EnqAlloc, Go, Move, TypeOK
  <2>5. QueueTypeOK'
    BY <1>1, <2>1, <2>3 DEF Push, EnqAlloc, Go, Move, TypeOK, QueueTypeOK
  <2> QED BY <1>1, <2>4, <2>5 DEF Push, EnqAlloc, Go, Move, TypeOK
<1>2. CASE InQueue(t) /\ EnqLoadTail(t)
  BY <1>2 DEF InQueue, EnqLoadTail, Go, Move, TypeOK, QueueTypeOK
<1>3. CASE InQueue(t) /\ EnqLoadNext(t)
  BY <1>3, <1>25 DEF InQueue, EnqLoadNext, Go, Move, TypeOK, QueueTypeOK, Enqueuers
<1>4. CASE InQueue(t) /\ EnqCheck(t)
  BY <1>4 DEF InQueue, EnqCheck, Go, Move, TypeOK, QueueTypeOK
<1>5. CASE InQueue(t) /\ EnqLinked(t)
  BY <1>5 DEF InQueue, EnqLinked, Go, Move, TypeOK, QueueTypeOK
<1>6. CASE InQueue(t) /\ EnqLostRace(t)
  BY <1>6 DEF InQueue, EnqLostRace, Go, Move, TypeOK, QueueTypeOK
<1>7. CASE InQueue(t) /\ EnqHelp(t)
  <2>1. nx[t] \in Nodes
    BY <1>7 DEF InQueue, EnqHelp, Go, Move, TypeOK, QueueTypeOK, Enqueuers
  <2> QED BY <1>7, <2>1 DEF InQueue, EnqHelp, Go, Move, TypeOK, QueueTypeOK
<1>8. CASE InQueue(t) /\ DeqLoadHead(t, "d_head")
  BY <1>8 DEF InQueue, DeqLoadHead, Go, Move, TypeOK, QueueTypeOK
<1>9. CASE InQueue(t) /\ DeqLoadTail(t)
  BY <1>9 DEF InQueue, DeqLoadTail, Go, Move, TypeOK, QueueTypeOK
<1>10. CASE InQueue(t) /\ DeqLoadNext(t)
  BY <1>10, <1>25 DEF InQueue, DeqLoadNext, Go, Move, TypeOK, QueueTypeOK, Drainer
<1>11. CASE InQueue(t) /\ DeqCheck(t)
  BY <1>11 DEF InQueue, DeqCheck, Go, Move, TypeOK, QueueTypeOK
<1>12. CASE InQueue(t) /\ DeqHelp(t)
  <2>1. nx[t] \in Nodes
    BY <1>12 DEF InQueue, DeqHelp, Go, Move, TypeOK, QueueTypeOK, Drainer
  <2> QED BY <1>12, <2>1 DEF InQueue, DeqHelp, Go, Move, TypeOK, QueueTypeOK
<1>13. CASE InQueue(t) /\ DeqSwing(t)
  <2>1. nx[t] \in Nodes
    BY <1>13 DEF InQueue, DeqSwing, Go, Move, TypeOK, QueueTypeOK, Drainer
  <2> QED BY <1>13, <2>1 DEF InQueue, DeqSwing, Go, Move, TypeOK, QueueTypeOK
<1>14. CASE Pushed(t)
  <2>1. node[t] \in Nodes
    BY <1>14 DEF Pushed, EnqSwing, Leave, Go, Move, TypeOK, QueueTypeOK, Enqueuers
  <2> QED BY <1>14, <1>25, <2>1 DEF Pushed, EnqSwing, Leave, Go, Move, TypeOK, QueueTypeOK
<1>15. CASE \E from \in {"lock", "again"} : LockDrain(t, from)
  <2>1. QueueTypeOK'
    BY <1>15 DEF LockDrain, queueVars, Go, Move, TypeOK, QueueTypeOK
  <2> QED BY <1>15, <2>1 DEF LockDrain, queueVars, Go, Move, TypeOK
<1>16. CASE \E from \in {"lock", "again"} : LeaveToHolder(t, from)
  <2>1. QueueTypeOK'
    BY <1>16 DEF LeaveToHolder, queueVars, Go, Move, TypeOK, QueueTypeOK
  <2> QED BY <1>16, <2>1 DEF LeaveToHolder, queueVars, Go, Move, TypeOK
<1>17. CASE StartDequeue(t)
  BY <1>17 DEF StartDequeue, DeqLoadHead, Go, Move, TypeOK, QueueTypeOK
<1>18. CASE GotItem(t)
  <2>1. nx[t] \in Nodes /\ value[nx[t]] \in Seq(Threads \X Nat)
    BY <1>18 DEF GotItem, DeqTake, Leave, Go, Move, TypeOK, QueueTypeOK, Drainer
  <2> QED BY <1>18, <1>25, <2>1 DEF GotItem, DeqTake, Leave, Go, Move, TypeOK, QueueTypeOK
<1>19. CASE GotNone(t)
  BY <1>19, <1>25 DEF GotNone, DeqNone, Leave, Go, Move, TypeOK, QueueTypeOK
<1>20. CASE Ship(t)
  <2>1. out \o ret[t] \in Seq(Threads \X Nat)
    BY DEF TypeOK, QueueTypeOK
  <2>2. out' \in Seq(Threads \X Nat)
    BY <1>20, <2>1 DEF Ship, Go, Move, TypeOK
  <2> QED BY <1>20, <1>25, <2>2 DEF Ship, Go, Move, TypeOK, QueueTypeOK
<1>21. CASE UnlockDrain(t)
  BY <1>21 DEF UnlockDrain, queueVars, Go, Move, TypeOK, QueueTypeOK
<1>22. CASE FlushStore(t)
  BY <1>22 DEF FlushStore, queueVars, Go, Move, TypeOK, QueueTypeOK
<1>23. CASE StartProbe(t)
  BY <1>23 DEF StartProbe, EmptyLoadHead, Go, Move, TypeOK, QueueTypeOK
<1>24. CASE Probed(t)
  BY <1>24, <1>25 DEF Probed, EmptyLoadNext, Leave, Go, Move, TypeOK, QueueTypeOK
<1> QED
  BY <1>1, <1>2, <1>3, <1>4, <1>5, <1>6, <1>7, <1>8, <1>9, <1>10, <1>11, <1>12, <1>13,
  <1>14, <1>15, <1>16, <1>17, <1>18, <1>19, <1>20, <1>21, <1>22, <1>23, <1>24

(* A pointer to the last node but one becomes no pointer past tail when tail  *)
(* moves.                                                                    *)
LEMMA NoneBehind ==
  ASSUME TypeOK, List, NEW n \in Nodes, link[qtail] # n,
         (link[qtail] # Null /\ qtail' = link[qtail]) \/ qtail' = qtail, UNCHANGED link
  PROVE  link'[qtail'] # n
  BY Pointers DEF List

LEMMA EnqueuerStep ==
  ASSUME RingInv, Next
  PROVE  Enqueuers'
<1> PICK t \in Threads :
       \/ Push(t)
       \/ InQueue(t) /\ EnqLoadTail(t)
       \/ InQueue(t) /\ EnqLoadNext(t)
       \/ InQueue(t) /\ EnqCheck(t)
       \/ InQueue(t) /\ EnqLinked(t)
       \/ InQueue(t) /\ EnqLostRace(t)
       \/ InQueue(t) /\ EnqHelp(t)
       \/ InQueue(t) /\ DeqLoadHead(t, "d_head")
       \/ InQueue(t) /\ DeqLoadTail(t)
       \/ InQueue(t) /\ DeqLoadNext(t)
       \/ InQueue(t) /\ DeqCheck(t)
       \/ InQueue(t) /\ DeqHelp(t)
       \/ InQueue(t) /\ DeqSwing(t)
       \/ Pushed(t)
       \/ \E from \in {"lock", "again"} : LockDrain(t, from)
       \/ \E from \in {"lock", "again"} : LeaveToHolder(t, from)
       \/ StartDequeue(t)
       \/ GotItem(t)
       \/ GotNone(t)
       \/ Ship(t)
       \/ UnlockDrain(t)
       \/ FlushStore(t)
       \/ StartProbe(t)
       \/ Probed(t)
  BY Stepping
<1> USE DEF RingInv
<1>25. ASSUME UNCHANGED link PROVE \A n : Linked(n)' <=> Linked(n)
  BY <1>25 DEF Linked
<1>26. Null \notin Nodes
  BY Pointers
<1>27. ASSUME UNCHANGED queueVars PROVE Enqueuers'
  BY <1>25, <1>27 DEF queueVars, Enqueuers, Private
<1>1. CASE Push(t)
  <2>1. /\ fresh \in Nodes /\ fresh' = fresh + 1 /\ link[fresh] = Null /\ ~Linked(fresh)
        /\ UNCHANGED <<link, qtail, tl, nx>>
    BY <1>1 DEF Push, EnqAlloc, Go, Move, TypeOK, QueueTypeOK, List, Nodes
  <2>2. node'[t] = fresh /\ qpc'[t] = "e_tail"
    BY <1>1 DEF Push, EnqAlloc, Go, Move, TypeOK, QueueTypeOK
  <2>3. \A u \in Threads : u # t => node'[u] = node[u] /\ qpc'[u] = qpc[u]
    BY <1>1 DEF Push, EnqAlloc, Go, Move, TypeOK, QueueTypeOK
  <2>4. \A n \in Nodes : n < fresh => n < fresh' /\ n # fresh
    BY <2>1 DEF Nodes
  <2>5. \A n : Linked(n)' <=> Linked(n)
    BY <1>25, <2>1
  <2>6. fresh < fresh'
    BY <2>1 DEF Nodes
  <2>7. ASSUME NEW u \in Threads,
               qpc'[u] \in {"e_tail", "e_next", "e_check", "e_link", "e_help"}
        PROVE  Private(u)'
    <3>1. CASE u = t
      BY <2>1, <2>2, <2>3, <2>4, <2>5, <2>6, <3>1 DEF Private, Enqueuers
    <3>2. CASE u # t
      BY <2>1, <2>2, <2>3, <2>4, <2>5, <2>7, <3>2 DEF Private, Enqueuers
    <3> QED BY <3>1, <3>2
  <2> HIDE DEF Private
  <2> QED BY <2>1, <2>2, <2>3, <2>5, <2>7 DEF Enqueuers
<1>2. CASE InQueue(t) /\ EnqLoadTail(t)
  <2>1. Linked(qtail) /\ link[qtail] # qtail /\ qtail \in Nodes
    BY Pointers DEF List
  <2> QED BY <1>2, <1>25, <2>1 DEF InQueue, EnqLoadTail, Go, Move, Enqueuers, Private, TypeOK, QueueTypeOK
<1>3. CASE InQueue(t) /\ EnqLoadNext(t)
  BY <1>3, <1>25 DEF InQueue, EnqLoadNext, Go, Move, Enqueuers, Private, TypeOK,
  QueueTypeOK
<1>4. CASE InQueue(t) /\ EnqCheck(t)
  BY <1>4, <1>25 DEF InQueue, EnqCheck, Go, Move, Enqueuers, Private, TypeOK,
  QueueTypeOK
<1>5. CASE InQueue(t) /\ EnqLinked(t)
  <2>1. /\ tl[t] \in Nodes /\ Linked(tl[t]) /\ link[tl[t]] = Null
        /\ node[t] \in Nodes /\ ~Linked(node[t]) /\ link[node[t]] = Null /\ node[t] < fresh
        /\ \A n \in Nodes : link'[n] = IF n = tl[t] THEN node[t] ELSE link[n]
        /\ \A n \in Nodes : Linked(n)' <=> Linked(n) \/ n = node[t]
        /\ link[qtail] # tl[t]
    BY <1>5, LinkingOne
  <2>2. /\ UNCHANGED <<qtail, fresh, node, tl, nx>> /\ qpc[t] = "e_link" /\ qpc'[t] = "e_swing"
        /\ \A u \in Threads : u # t => qpc'[u] = qpc[u]
    BY <1>5 DEF InQueue, EnqLinked, Go, Move, TypeOK, QueueTypeOK
  <2>3. qtail \in Nodes /\ \A n \in Nodes : Linked(n) => link'[qtail] # n \/ link[qtail] = n
    BY <2>1, Pointers
  <2>4. ASSUME NEW u \in Threads,
               qpc'[u] \in {"e_tail", "e_next", "e_check", "e_link", "e_help"}
        PROVE  Private(u)'
    <3>1. u # t /\ qpc[u] = qpc'[u] /\ Private(u) /\ Private(t)
      BY <2>2, <2>4 DEF Enqueuers
    <3>2. node[u] # node[t] /\ node[u] \in Nodes /\ node[u] # tl[t]
      BY <2>1, <2>2, <3>1 DEF Private
    <3>3. ~Linked(node[u])' /\ link'[node[u]] = Null
      BY <2>1, <2>2, <3>1, <3>2 DEF Private
    <3> QED BY <2>2, <3>1, <3>2, <3>3 DEF Private
  <2>5. ASSUME NEW u \in Threads,
               qpc'[u] \in {"e_next", "e_check", "e_link", "e_help", "e_swing"}
        PROVE  tl[u] \in Nodes /\ Linked(tl[u])' /\ link'[qtail] # tl[u]
    BY <2>1, <2>2, <2>3, <2>5 DEF Enqueuers
  <2>6. \A n \in Nodes : link[n] # Null => link'[n] = link[n]
    BY <2>1
  <2>7. ASSUME NEW u \in Threads
        PROVE  /\ qpc'[u] = "e_check" => nx[u] \in {Null, link'[tl[u]]}
               /\ qpc'[u] = "e_help" => nx[u] # Null /\ nx[u] = link'[tl[u]]
               /\ qpc'[u] = "e_swing" => node[u] # Null /\ link'[tl[u]] = node[u]
    BY <1>26, <2>1, <2>2, <2>5, <2>6 DEF Enqueuers
  <2> HIDE DEF Private
  <2> QED BY <2>2, <2>4, <2>5, <2>7 DEF Enqueuers
<1>6. CASE InQueue(t) /\ EnqLostRace(t)
  BY <1>6, <1>25 DEF InQueue, EnqLostRace, Go, Move, Enqueuers, Private, TypeOK,
  QueueTypeOK
<1>7. CASE InQueue(t) /\ EnqHelp(t)
  <2>1. UNCHANGED link /\ (qtail' = IF qtail = tl[t] THEN nx[t] ELSE qtail)
    BY <1>7 DEF InQueue, EnqHelp, Go, Move
  <2>2. nx[t] = link[tl[t]] /\ nx[t] # Null
    BY <1>7 DEF InQueue, EnqHelp, Go, Move, Enqueuers
  <2>3. \A n \in Nodes : link[qtail] # n => link'[qtail'] # n
    BY <2>1, <2>2, NoneBehind
  <2> QED BY <1>7, <1>25, <2>1, <2>3 DEF InQueue, EnqHelp, Go, Move, Enqueuers, Private, TypeOK, QueueTypeOK
<1>8. CASE InQueue(t) /\ DeqLoadHead(t, "d_head")
  BY <1>8, <1>25 DEF InQueue, DeqLoadHead, Go, Move, Enqueuers, Private, TypeOK,
  QueueTypeOK
<1>9. CASE InQueue(t) /\ DeqLoadTail(t)
  BY <1>9, <1>25 DEF InQueue, DeqLoadTail, Go, Move, Enqueuers, Private, TypeOK,
  QueueTypeOK
<1>10. CASE InQueue(t) /\ DeqLoadNext(t)
  BY <1>10, <1>25 DEF InQueue, DeqLoadNext, Go, Move, Enqueuers, Private, TypeOK,
  QueueTypeOK
<1>11. CASE InQueue(t) /\ DeqCheck(t)
  BY <1>11, <1>25 DEF InQueue, DeqCheck, Go, Move, Enqueuers, Private, TypeOK,
  QueueTypeOK
<1>12. CASE InQueue(t) /\ DeqHelp(t)
  <2>1. UNCHANGED link /\ (qtail' = IF qtail = tl[t] THEN nx[t] ELSE qtail)
    BY <1>12 DEF InQueue, DeqHelp, Go, Move
  <2>2. nx[t] = link[tl[t]] /\ nx[t] # Null
    BY <1>12 DEF InQueue, DeqHelp, Go, Move, Drainer
  <2>3. \A n \in Nodes : link[qtail] # n => link'[qtail'] # n
    BY <2>1, <2>2, NoneBehind
  <2> QED BY <1>12, <1>25, <2>1, <2>3 DEF InQueue, DeqHelp, Go, Move, Enqueuers, Private, TypeOK, QueueTypeOK
<1>13. CASE InQueue(t) /\ DeqSwing(t)
  BY <1>13, <1>25 DEF InQueue, DeqSwing, Go, Move, Enqueuers, Private, TypeOK,
  QueueTypeOK
<1>14. CASE Pushed(t)
  <2>1. UNCHANGED link /\ (qtail' = IF qtail = tl[t] THEN node[t] ELSE qtail)
    BY <1>14 DEF Pushed, EnqSwing, Leave, Go, Move
  <2>2. node[t] = link[tl[t]] /\ node[t] # Null
    BY <1>14 DEF Pushed, EnqSwing, Leave, Go, Move, Enqueuers
  <2>3. \A n \in Nodes : link[qtail] # n => link'[qtail'] # n
    BY <2>1, <2>2, NoneBehind
  <2> QED BY <1>14, <1>25, <2>1, <2>3 DEF Pushed, EnqSwing, Leave, Go, Move, Enqueuers, Private, TypeOK, QueueTypeOK
<1>15. CASE \E from \in {"lock", "again"} : LockDrain(t, from)
  BY <1>15, <1>27 DEF LockDrain, queueVars, Go, Move
<1>16. CASE \E from \in {"lock", "again"} : LeaveToHolder(t, from)
  BY <1>16, <1>27 DEF LeaveToHolder, queueVars, Go, Move
<1>17. CASE StartDequeue(t)
  BY <1>17, <1>25 DEF StartDequeue, DeqLoadHead, Go, Move, Enqueuers, Private, TypeOK,
  QueueTypeOK
<1>18. CASE GotItem(t)
  BY <1>18, <1>25 DEF GotItem, DeqTake, Leave, Go, Move, Enqueuers, Private, TypeOK,
  QueueTypeOK
<1>19. CASE GotNone(t)
  BY <1>19, <1>25 DEF GotNone, DeqNone, Leave, Go, Move, Enqueuers, Private, TypeOK,
  QueueTypeOK
<1>20. CASE Ship(t)
  BY <1>20, <1>25 DEF Ship, Go, Move, Enqueuers, Private, TypeOK, QueueTypeOK
<1>21. CASE UnlockDrain(t)
  BY <1>21, <1>27 DEF UnlockDrain, queueVars, Go, Move
<1>22. CASE FlushStore(t)
  BY <1>22, <1>27 DEF FlushStore, queueVars, Go, Move
<1>23. CASE StartProbe(t)
  BY <1>23, <1>25 DEF StartProbe, EmptyLoadHead, Go, Move, Enqueuers, Private, TypeOK,
  QueueTypeOK
<1>24. CASE Probed(t)
  BY <1>24, <1>25 DEF Probed, EmptyLoadNext, Leave, Go, Move, Enqueuers, Private,
  TypeOK, QueueTypeOK
<1> QED
  BY <1>1, <1>2, <1>3, <1>4, <1>5, <1>6, <1>7, <1>8, <1>9, <1>10, <1>11, <1>12, <1>13,
  <1>14, <1>15, <1>16, <1>17, <1>18, <1>19, <1>20, <1>21, <1>22, <1>23, <1>24

LEMMA DrainerStep ==
  ASSUME RingInv, Next
  PROVE  Drainer'
<1> PICK t \in Threads :
       \/ Push(t)
       \/ InQueue(t) /\ EnqLoadTail(t)
       \/ InQueue(t) /\ EnqLoadNext(t)
       \/ InQueue(t) /\ EnqCheck(t)
       \/ InQueue(t) /\ EnqLinked(t)
       \/ InQueue(t) /\ EnqLostRace(t)
       \/ InQueue(t) /\ EnqHelp(t)
       \/ InQueue(t) /\ DeqLoadHead(t, "d_head")
       \/ InQueue(t) /\ DeqLoadTail(t)
       \/ InQueue(t) /\ DeqLoadNext(t)
       \/ InQueue(t) /\ DeqCheck(t)
       \/ InQueue(t) /\ DeqHelp(t)
       \/ InQueue(t) /\ DeqSwing(t)
       \/ Pushed(t)
       \/ \E from \in {"lock", "again"} : LockDrain(t, from)
       \/ \E from \in {"lock", "again"} : LeaveToHolder(t, from)
       \/ StartDequeue(t)
       \/ GotItem(t)
       \/ GotNone(t)
       \/ Ship(t)
       \/ UnlockDrain(t)
       \/ FlushStore(t)
       \/ StartProbe(t)
       \/ Probed(t)
  BY Stepping
<1> USE DEF RingInv
<1>27. ASSUME UNCHANGED queueVars PROVE Drainer'
  BY <1>27 DEF queueVars, Drainer
<1>1. CASE Push(t)
  BY <1>1 DEF Push, EnqAlloc, Go, Move, Drainer, TypeOK, QueueTypeOK, Phases,
  Enqueuing, Dequeuing
<1>2. CASE InQueue(t) /\ EnqLoadTail(t)
  BY <1>2 DEF InQueue, EnqLoadTail, Go, Move, Drainer, TypeOK, QueueTypeOK, Phases,
  Enqueuing, Dequeuing
<1>3. CASE InQueue(t) /\ EnqLoadNext(t)
  BY <1>3 DEF InQueue, EnqLoadNext, Go, Move, Drainer, TypeOK, QueueTypeOK, Phases,
  Enqueuing, Dequeuing
<1>4. CASE InQueue(t) /\ EnqCheck(t)
  BY <1>4 DEF InQueue, EnqCheck, Go, Move, Drainer, TypeOK, QueueTypeOK, Phases,
  Enqueuing, Dequeuing
<1>5. CASE InQueue(t) /\ EnqLinked(t)
  BY <1>5 DEF InQueue, EnqLinked, Go, Move, Drainer, TypeOK, QueueTypeOK, Phases,
  Enqueuing, Dequeuing
<1>6. CASE InQueue(t) /\ EnqLostRace(t)
  BY <1>6 DEF InQueue, EnqLostRace, Go, Move, Drainer, TypeOK, QueueTypeOK, Phases,
  Enqueuing, Dequeuing
<1>7. CASE InQueue(t) /\ EnqHelp(t)
  <2>1. UNCHANGED <<link, qhead>> /\ (qtail' = IF qtail = tl[t] THEN nx[t] ELSE qtail)
    BY <1>7 DEF InQueue, EnqHelp, Go, Move
  <2>2. nx[t] = link[tl[t]]
    BY <1>7 DEF InQueue, EnqHelp, Go, Move, Enqueuers
  <2>3. qtail # qhead => qtail' # qhead'
    BY <2>1, <2>2 DEF List
  <2> QED BY <1>7, <2>1, <2>3 DEF InQueue, EnqHelp, Go, Move, Drainer, TypeOK, QueueTypeOK, Phases, Enqueuing, Dequeuing
<1>8. CASE InQueue(t) /\ DeqLoadHead(t, "d_head")
  BY <1>8 DEF InQueue, DeqLoadHead, Go, Move, Drainer, TypeOK, QueueTypeOK, Phases,
  Enqueuing, Dequeuing
<1>9. CASE InQueue(t) /\ DeqLoadTail(t)
  <2>1. qtail # Null
    BY Pointers
  <2> QED BY <1>9, <2>1 DEF InQueue, DeqLoadTail, Go, Move, Drainer, TypeOK, QueueTypeOK, Phases, Enqueuing, Dequeuing
<1>10. CASE InQueue(t) /\ DeqLoadNext(t)
  <2>1. hd[t] = qhead /\ (tl[t] # hd[t] => link[hd[t]] # Null)
    BY <1>10 DEF InQueue, DeqLoadNext, Go, Move, Drainer, List
  <2> QED BY <1>10, <2>1 DEF InQueue, DeqLoadNext, Go, Move, Drainer, TypeOK, QueueTypeOK, Phases, Enqueuing, Dequeuing
<1>11. CASE InQueue(t) /\ DeqCheck(t)
  BY <1>11 DEF InQueue, DeqCheck, Go, Move, Drainer, TypeOK, QueueTypeOK, Phases,
  Enqueuing, Dequeuing
<1>12. CASE InQueue(t) /\ DeqHelp(t)
  BY <1>12 DEF InQueue, DeqHelp, Go, Move, Drainer, TypeOK, QueueTypeOK, Phases,
  Enqueuing, Dequeuing
<1>13. CASE InQueue(t) /\ DeqSwing(t)
  <2>1. qpc[t] = "d_swing" /\ hd[t] = qhead /\ nx[t] # Null /\ nx[t] = link[qhead]
    BY <1>13 DEF InQueue, DeqSwing, Go, Move, Drainer
  <2>2. \A u \in Threads : u # t => ~Dequeuing(u)
    BY <2>1 DEF Phases, Dequeuing, Locking, Holds, Draining
  <2>3. qpc' = [qpc EXCEPT ![t] = "d_take"] /\ UNCHANGED <<hd, tl, nx, link>>
    BY <1>13, <2>1 DEF InQueue, DeqSwing, Go, Move
  <2>4. \A u \in Threads : qpc'[u] = IF u = t THEN "d_take" ELSE qpc[u]
    BY <2>3 DEF TypeOK, QueueTypeOK
  <2>5. \A u \in Threads : qpc[u] = "i_next" => hd[u] \in Nodes /\ link[hd[u]] # Null
    BY <2>1 DEF Drainer
  <2> QED BY <2>1, <2>2, <2>3, <2>4, <2>5 DEF Drainer, Dequeuing
<1>14. CASE Pushed(t)
  <2>1. UNCHANGED <<link, qhead>> /\ (qtail' = IF qtail = tl[t] THEN node[t] ELSE qtail)
    BY <1>14 DEF Pushed, EnqSwing, Leave, Go, Move
  <2>2. node[t] = link[tl[t]]
    BY <1>14 DEF Pushed, EnqSwing, Leave, Go, Move, Enqueuers
  <2>3. qtail # qhead => qtail' # qhead'
    BY <2>1, <2>2 DEF List
  <2> QED BY <1>14, <2>1, <2>3 DEF Pushed, EnqSwing, Leave, Go, Move, Drainer, TypeOK, QueueTypeOK, Phases, Enqueuing, Dequeuing
<1>15. CASE \E from \in {"lock", "again"} : LockDrain(t, from)
  BY <1>15, <1>27 DEF LockDrain, queueVars, Go, Move
<1>16. CASE \E from \in {"lock", "again"} : LeaveToHolder(t, from)
  BY <1>16, <1>27 DEF LeaveToHolder, queueVars, Go, Move
<1>17. CASE StartDequeue(t)
  BY <1>17 DEF StartDequeue, DeqLoadHead, Go, Move, Drainer, TypeOK, QueueTypeOK,
  Phases, Enqueuing, Dequeuing
<1>18. CASE GotItem(t)
  BY <1>18 DEF GotItem, DeqTake, Leave, Go, Move, Drainer, TypeOK, QueueTypeOK, Phases,
  Enqueuing, Dequeuing
<1>19. CASE GotNone(t)
  <2>1. \A u \in Threads : u # t =>
          qpc'[u] = qpc[u] /\ hd'[u] = hd[u] /\ tl'[u] = tl[u] /\ nx'[u] = nx[u]
    BY <1>19 DEF GotNone, DeqNone, Leave, Go, Move, TypeOK, QueueTypeOK
  <2>2. qpc'[t] = "out"
    BY <1>19 DEF GotNone, DeqNone, Leave, Go, Move, TypeOK, QueueTypeOK
  <2>3. UNCHANGED <<qhead, qtail, link>>
    BY <1>19 DEF GotNone, DeqNone, Leave, Go, Move
  <2> QED BY <2>1, <2>2, <2>3 DEF Drainer
<1>20. CASE Ship(t)
  BY <1>20 DEF Ship, Go, Move, Drainer, TypeOK, QueueTypeOK, Phases, Enqueuing,
  Dequeuing
<1>21. CASE UnlockDrain(t)
  BY <1>21, <1>27 DEF UnlockDrain, queueVars, Go, Move
<1>22. CASE FlushStore(t)
  BY <1>22, <1>27 DEF FlushStore, queueVars, Go, Move
<1>23. CASE StartProbe(t)
  BY <1>23 DEF StartProbe, EmptyLoadHead, Go, Move, Drainer, TypeOK, QueueTypeOK,
  Phases, Enqueuing, Dequeuing
<1>24. CASE Probed(t)
  BY <1>24 DEF Probed, EmptyLoadNext, Leave, Go, Move, Drainer, TypeOK, QueueTypeOK,
  Phases, Enqueuing, Dequeuing
<1> QED
  BY <1>1, <1>2, <1>3, <1>4, <1>5, <1>6, <1>7, <1>8, <1>9, <1>10, <1>11, <1>12, <1>13,
  <1>14, <1>15, <1>16, <1>17, <1>18, <1>19, <1>20, <1>21, <1>22, <1>23, <1>24

LEMMA WatchStep ==
  ASSUME RingInv, Next
  PROVE  Watched'
<1> PICK t \in Threads :
       \/ Push(t)
       \/ InQueue(t) /\ EnqLoadTail(t)
       \/ InQueue(t) /\ EnqLoadNext(t)
       \/ InQueue(t) /\ EnqCheck(t)
       \/ InQueue(t) /\ EnqLinked(t)
       \/ InQueue(t) /\ EnqLostRace(t)
       \/ InQueue(t) /\ EnqHelp(t)
       \/ InQueue(t) /\ DeqLoadHead(t, "d_head")
       \/ InQueue(t) /\ DeqLoadTail(t)
       \/ InQueue(t) /\ DeqLoadNext(t)
       \/ InQueue(t) /\ DeqCheck(t)
       \/ InQueue(t) /\ DeqHelp(t)
       \/ InQueue(t) /\ DeqSwing(t)
       \/ Pushed(t)
       \/ \E from \in {"lock", "again"} : LockDrain(t, from)
       \/ \E from \in {"lock", "again"} : LeaveToHolder(t, from)
       \/ StartDequeue(t)
       \/ GotItem(t)
       \/ GotNone(t)
       \/ Ship(t)
       \/ UnlockDrain(t)
       \/ FlushStore(t)
       \/ StartProbe(t)
       \/ Probed(t)
  BY Stepping
<1> USE DEF RingInv
<1>1. CASE Push(t)
  BY <1>1 DEF Push, EnqAlloc, Go, Move, Watched, Responsible, Locking, Holds, Draining,
  Phases, Enqueuing, Dequeuing, Drainer, TypeOK, QueueTypeOK
<1>2. CASE InQueue(t) /\ EnqLoadTail(t)
  BY <1>2 DEF InQueue, EnqLoadTail, Go, Move, Watched, Responsible, Locking, Holds,
  Draining, Phases, Enqueuing, Dequeuing, Drainer, TypeOK, QueueTypeOK
<1>3. CASE InQueue(t) /\ EnqLoadNext(t)
  BY <1>3 DEF InQueue, EnqLoadNext, Go, Move, Watched, Responsible, Locking, Holds,
  Draining, Phases, Enqueuing, Dequeuing, Drainer, TypeOK, QueueTypeOK
<1>4. CASE InQueue(t) /\ EnqCheck(t)
  BY <1>4 DEF InQueue, EnqCheck, Go, Move, Watched, Responsible, Locking, Holds,
  Draining, Phases, Enqueuing, Dequeuing, Drainer, TypeOK, QueueTypeOK
<1>5. CASE InQueue(t) /\ EnqLinked(t)
  BY <1>5 DEF InQueue, EnqLinked, Go, Move, Watched, Responsible, Locking, Holds,
  Draining, Phases, Enqueuing, Dequeuing, Drainer, TypeOK, QueueTypeOK
<1>6. CASE InQueue(t) /\ EnqLostRace(t)
  BY <1>6 DEF InQueue, EnqLostRace, Go, Move, Watched, Responsible, Locking, Holds,
  Draining, Phases, Enqueuing, Dequeuing, Drainer, TypeOK, QueueTypeOK
<1>7. CASE InQueue(t) /\ EnqHelp(t)
  BY <1>7 DEF InQueue, EnqHelp, Go, Move, Watched, Responsible, Locking, Holds,
  Draining, Phases, Enqueuing, Dequeuing, Drainer, TypeOK, QueueTypeOK
<1>8. CASE InQueue(t) /\ DeqLoadHead(t, "d_head")
  BY <1>8 DEF InQueue, DeqLoadHead, Go, Move, Watched, Responsible, Locking, Holds,
  Draining, Phases, Enqueuing, Dequeuing, Drainer, TypeOK, QueueTypeOK
<1>9. CASE InQueue(t) /\ DeqLoadTail(t)
  BY <1>9 DEF InQueue, DeqLoadTail, Go, Move, Watched, Responsible, Locking, Holds,
  Draining, Phases, Enqueuing, Dequeuing, Drainer, TypeOK, QueueTypeOK
<1>10. CASE InQueue(t) /\ DeqLoadNext(t)
  BY <1>10 DEF InQueue, DeqLoadNext, Go, Move, Watched, Responsible, Locking, Holds,
  Draining, Phases, Enqueuing, Dequeuing, Drainer, TypeOK, QueueTypeOK
<1>11. CASE InQueue(t) /\ DeqCheck(t)
  BY <1>11 DEF InQueue, DeqCheck, Go, Move, Watched, Responsible, Locking, Holds,
  Draining, Phases, Enqueuing, Dequeuing, Drainer, TypeOK, QueueTypeOK
<1>12. CASE InQueue(t) /\ DeqHelp(t)
  BY <1>12 DEF InQueue, DeqHelp, Go, Move, Watched, Responsible, Locking, Holds,
  Draining, Phases, Enqueuing, Dequeuing, Drainer, TypeOK, QueueTypeOK
<1>13. CASE InQueue(t) /\ DeqSwing(t)
  BY <1>13 DEF InQueue, DeqSwing, Go, Move, Watched, Responsible, Locking, Holds,
  Draining, Phases, Enqueuing, Dequeuing, Drainer, TypeOK, QueueTypeOK
<1>14. CASE Pushed(t)
  BY <1>14 DEF Pushed, EnqSwing, Leave, Go, Move, Watched, Responsible, Locking, Holds,
  Draining, Phases, Enqueuing, Dequeuing, Drainer, TypeOK, QueueTypeOK
<1>15. CASE \E from \in {"lock", "again"} : LockDrain(t, from)
  BY <1>15 DEF LockDrain, queueVars, Go, Move, Watched, Responsible, Locking, Holds,
  Draining, Phases, Enqueuing, Dequeuing, Drainer, TypeOK, QueueTypeOK
<1>16. CASE \E from \in {"lock", "again"} : LeaveToHolder(t, from)
  <2>1. UNCHANGED <<link, qhead, delays, qpc>> /\ drainLock
    BY <1>16 DEF LeaveToHolder, queueVars, Go, Move
  <2>2. \A u \in Threads : u # t => dpc'[u] = dpc[u]
    BY <1>16 DEF LeaveToHolder, queueVars, Go, Move, TypeOK
  <2>3. ~Draining(t)
    BY <1>16 DEF LeaveToHolder, queueVars, Go, Move, Draining
  <2>4. ~delays => \E u \in Threads : Draining(u) /\ u # t
    BY <2>1, <2>3 DEF Locking, Holds
  <2> QED BY <2>1, <2>2, <2>4 DEF Watched, Responsible, Draining
<1>17. CASE StartDequeue(t)
  BY <1>17 DEF StartDequeue, DeqLoadHead, Go, Move, Watched, Responsible, Locking,
  Holds, Draining, Phases, Enqueuing, Dequeuing, Drainer, TypeOK, QueueTypeOK
<1>18. CASE GotItem(t)
  BY <1>18 DEF GotItem, DeqTake, Leave, Go, Move, Watched, Responsible, Locking, Holds,
  Draining, Phases, Enqueuing, Dequeuing, Drainer, TypeOK, QueueTypeOK
<1>19. CASE GotNone(t)
  BY <1>19 DEF GotNone, DeqNone, Leave, Go, Move, Watched, Responsible, Locking, Holds,
  Draining, Phases, Enqueuing, Dequeuing, Drainer, TypeOK, QueueTypeOK
<1>20. CASE Ship(t)
  BY <1>20 DEF Ship, Go, Move, Watched, Responsible, Locking, Holds, Draining, Phases,
  Enqueuing, Dequeuing, Drainer, TypeOK, QueueTypeOK
<1>21. CASE UnlockDrain(t)
  BY <1>21 DEF UnlockDrain, queueVars, Go, Move, Watched, Responsible, Locking, Holds,
  Draining, Phases, Enqueuing, Dequeuing, Drainer, TypeOK, QueueTypeOK
<1>22. CASE FlushStore(t)
  BY <1>22 DEF FlushStore, queueVars, Go, Move, Watched, Responsible, Locking, Holds,
  Draining, Phases, Enqueuing, Dequeuing, Drainer, TypeOK, QueueTypeOK
<1>23. CASE StartProbe(t)
  BY <1>23 DEF StartProbe, EmptyLoadHead, Go, Move, Watched, Responsible, Locking,
  Holds, Draining, Phases, Enqueuing, Dequeuing, Drainer, TypeOK, QueueTypeOK
<1>24. CASE Probed(t)
  <2>1. UNCHANGED <<link, qhead, delays>> /\ qpc[t] = "i_next"
    BY <1>24 DEF Probed, EmptyLoadNext, Leave, Go, Move
  <2>2. CASE SeesEmpty(t)
    <3>1. link[qhead] = Null
      BY <2>1, <2>2 DEF SeesEmpty, Drainer
    <3> QED BY <2>1, <3>1 DEF Watched
  <2>3. CASE ~SeesEmpty(t)
    <3>1. t \in Threads /\ dpc'[t] = "again"
      BY <1>24, <2>3 DEF Probed, EmptyLoadNext, Leave, Go, Move, TypeOK
    <3> QED BY <3>1 DEF Watched, Responsible
  <2> QED BY <2>2, <2>3
<1> QED
  BY <1>1, <1>2, <1>3, <1>4, <1>5, <1>6, <1>7, <1>8, <1>9, <1>10, <1>11, <1>12, <1>13,
  <1>14, <1>15, <1>16, <1>17, <1>18, <1>19, <1>20, <1>21, <1>22, <1>23, <1>24

(***************************************************************************)
(* The theorems.                                                           *)
(***************************************************************************)

LEMMA NextInv == RingInv /\ [Next]_vars => RingInv'
<1>1. RingInv /\ Next => RingInv'
  BY TypeStep, PhaseStep, LockStep, ListStep, EnqueuerStep, DrainerStep, WatchStep DEF RingInv
<1>2. RingInv /\ UNCHANGED vars => RingInv'
  BY DEF RingInv, vars, queueVars, TypeOK, QueueTypeOK, Phases, Enqueuing, Dequeuing,
     Locking, Holds, Draining, List, Linked, Enqueuers, Private, Drainer, Watched, Responsible
<1> QED BY <1>1, <1>2

THEOREM RingInvariance == Spec => []RingInv
  BY InitInv, NextInv, PTL DEF Spec

(* For any number of threads, pushes and nodes the variables keep their     *)
(* types; in particular no pointer that is followed is null.                *)
THEOREM TypeCorrect == Spec => []TypeOK
  BY RingInvariance, PTL DEF RingInv

(* locked_ring.rs:24-25: of any number of callouts one at a time writes     *)
(* into the inner ring, also while the release of the lock is not visible.  *)
THEOREM DrainersExclude == Spec => []OneDrainer
<1>1. RingInv => OneDrainer
  BY DEF RingInv, Locking, Holds, OneDrainer
<1> QED BY RingInvariance, <1>1, PTL

(* locked_ring.rs:122-123: if loads do not pass the unlock, a record is     *)
(* never left in the queue with nobody on the way to it.                    *)
THEOREM NothingLeftFrozen == Spec => []NothingFrozenInOrder
<1>1. RingInv => NothingFrozenInOrder
  BY DEF RingInv, Watched, Responsible, NothingFrozenInOrder, NothingFrozen
<1> QED BY RingInvariance, <1>1, PTL

(* cas_queue.rs:38-82: tail is the last node or the one before it, and is   *)
(* not the node that head has just left.                                    *)
THEOREM TailAtEnd ==
  Spec => []((link[qtail] # Null => link[link[qtail]] = Null) /\ link[qtail] # qhead)
<1>1. RingInv => (link[qtail] # Null => link[link[qtail]] = Null) /\ link[qtail] # qhead
  BY DEF RingInv, List
<1> QED BY RingInvariance, <1>1, PTL

(***************************************************************************)
(* The list walked from its first node.  RingInv speaks of links only; for *)
(* what follows a node, at any distance, the linked nodes are laid out as  *)
(* a chain, and After is shown to be the rest of the chain.  The recursion *)
(* in After is unfolded by exhibiting a function that satisfies it, and    *)
(* the induction along the chain is one over a set of naturals.            *)
(***************************************************************************)

(* Induction over the naturals, on a set of naturals: the least element    *)
(* outside it would be the successor of one inside.                        *)
LEMMA LeastElement ==
  ASSUME NEW T, T \subseteq Nat, T # {}
  PROVE  \E x \in T : \A y \in T : x <= y
<1>1. \E x \in T : \A y \in T : ~ (<<y, x>> \in OpToRel(<, Nat))
  <2>1. IsWellFoundedOn(OpToRel(<, Nat), Nat)
    BY NatLessThanWellFounded
  <2> QED BY <2>1, WFMin, Zenon
<1>2. PICK x \in T : \A y \in T : ~ (<<y, x>> \in OpToRel(<, Nat))
  BY <1>1
<1>3. ASSUME NEW y \in T PROVE x <= y
  <2>1. <<y, x>> \in Nat \X Nat
    OBVIOUS
  <2>2. ~(y < x)
    BY <1>2, <2>1 DEF OpToRel
  <2> QED BY <2>2
<1> QED BY <1>3

LEMMA SetInduction ==
  ASSUME NEW T, 0 \in T, \A n \in Nat : n \in T => n + 1 \in T
  PROVE  Nat \subseteq T
<1> DEFINE U == {n \in Nat : n \notin T}
<1>1. SUFFICES ASSUME U # {} PROVE FALSE
  OBVIOUS
<1>2. PICK x \in U : \A y \in U : x <= y
  <2>1. U \subseteq Nat
    OBVIOUS
  <2> HIDE DEF U
  <2> QED BY <1>1, <2>1, LeastElement
<1>3. x # 0 /\ x \in Nat /\ x \notin T
  OBVIOUS
<1>4. x - 1 \in Nat /\ x - 1 \in T
  BY <1>2, <1>3
<1> QED BY <1>3, <1>4

\* The nodes ever linked, in order.
Chain(L) ==
  /\ L \in Seq(Nodes) /\ Len(L) >= 1 /\ L[1] = 1
  /\ \A i \in 1..(Len(L) - 1) : link[L[i]] = L[i + 1]
  /\ link[L[Len(L)]] = Null
  /\ \A i, j \in 1..Len(L) : L[i] = L[j] => i = j
  /\ \A n \in Nodes : Linked(n) <=> \E i \in 1..Len(L) : L[i] = n
  /\ \A n \in Nodes : ~Linked(n) => link[n] = Null

\* The equation After solves.
AfterBody(f) ==
  [n \in 0..MaxNodes |->
     IF n = Null \/ link[n] = Null THEN <<>> ELSE <<link[n]>> \o f[link[n]]]

LEMMA ChainFacts ==
  ASSUME NEW L, Chain(L)
  PROVE  /\ Len(L) \in Nat /\ Len(L) >= 1 /\ L \in [1..Len(L) -> Nodes]
         /\ \A i \in 1..Len(L) : L[i] \in Nodes /\ L[i] # Null /\ L[i] \in 0..MaxNodes
<1>1. L \in Seq(Nodes) /\ Len(L) >= 1
  BY DEF Chain
<1>2. Len(L) \in Nat /\ L \in [1..Len(L) -> Nodes]
  BY <1>1, LenProperties
<1> QED BY <1>1, <1>2, MaxNodesAssumption DEF Nodes, Null

(* The recursive definition of After has a solution.                       *)
LEMMA AfterUnfolds ==
  ASSUME NEW L, Chain(L)
  PROVE  After = AfterBody(After)
<1> DEFINE N == Len(L)
           at == [n \in 0..MaxNodes |-> CHOOSE i \in 1..N : L[i] = n]
           W == [n \in 0..MaxNodes |->
                   IF \E i \in 1..N : L[i] = n THEN SubSeq(L, at[n] + 1, N) ELSE <<>>]
<1>1. L \in Seq(Nodes) /\ N \in Nat /\ \A i \in 1..N : L[i] \in Nodes /\ L[i] # Null /\ L[i] \in 0..MaxNodes
  BY ChainFacts DEF Chain
<1>2. ASSUME NEW i \in 1..N PROVE W[L[i]] = SubSeq(L, i + 1, N)
  <2>1. L[i] \in 0..MaxNodes /\ \E j \in 1..N : L[j] = L[i]
    BY <1>1
  <2>2. at[L[i]] = i
    <3>1. at[L[i]] \in 1..N /\ L[at[L[i]]] = L[i]
      BY <2>1
    <3> HIDE DEF at
    <3> QED BY <3>1 DEF Chain
  <2> HIDE DEF at
  <2> QED BY <2>1, <2>2
<1>3. ASSUME NEW n \in 0..MaxNodes
      PROVE  W[n] = IF n = Null \/ link[n] = Null THEN <<>> ELSE <<link[n]>> \o W[link[n]]
  <2>1. CASE \E i \in 1..N : L[i] = n
    <3>1. PICK i \in 1..N : L[i] = n
      BY <2>1
    <3>2. W[n] = SubSeq(L, i + 1, N)
      BY <1>2, <3>1
    <3>3. CASE i = N
      <4>1. link[n] = Null
        BY <3>1, <3>3 DEF Chain
      <4>2. SubSeq(L, i + 1, N) = <<>>
        BY <1>1, <3>3, SubSeqEmpty
      <4> HIDE DEF W
      <4> QED BY <3>2, <4>1, <4>2
    <3>4. CASE i # N
      <4>1. i \in 1..(N - 1) /\ i + 1 \in 1..N
        BY <1>1, <3>4
      <4>2. link[n] = L[i + 1] /\ L[i + 1] # Null /\ n # Null
        BY <1>1, <3>1, <4>1 DEF Chain
      <4>3. W[link[n]] = SubSeq(L, i + 2, N)
        <5>1. W[L[i + 1]] = SubSeq(L, (i + 1) + 1, N)
          BY <1>2, <4>1
        <5>2. (i + 1) + 1 = i + 2
          BY <4>1
        <5> HIDE DEF W
        <5> QED BY <4>2, <5>1, <5>2
      <4>4. SubSeq(L, i + 1, N) = <<L[i + 1]>> \o SubSeq(L, i + 2, N)
        BY <1>1, <4>1, SubSeqRecursiveFirst
      <4> HIDE DEF W, N
      <4> QED BY <3>2, <4>2, <4>3, <4>4
    <3> QED BY <3>3, <3>4
  <2>2. CASE ~ \E i \in 1..N : L[i] = n
    <3>1. W[n] = <<>>
      BY <2>2
    <3>2. n = Null \/ link[n] = Null
      <4>1. SUFFICES ASSUME n # Null PROVE link[n] = Null
        OBVIOUS
      <4>2. n \in Nodes
        BY <4>1, MaxNodesAssumption DEF Nodes, Null
      <4> QED BY <2>2, <4>2 DEF Chain
    <3> HIDE DEF W
    <3> QED BY <3>1, <3>2
  <2> QED BY <2>1, <2>2
<1>4. W = AfterBody(W)
  <2>1. W = [n \in 0..MaxNodes |-> W[n]]
    OBVIOUS
  <2> HIDE DEF W
  <2> QED BY <1>3, <2>1 DEF AfterBody
<1>5. \E f : f = AfterBody(f)
  <2> HIDE DEF W
  <2> QED BY <1>4
<1>6. After = CHOOSE f : f = AfterBody(f)
  BY DEF After, AfterBody
<1> QED BY <1>5, <1>6, Zenon

(* The nodes after the i-th are the rest of the chain.                      *)
LEMMA AfterIsRest ==
  ASSUME NEW L, Chain(L), NEW i \in 1..Len(L)
  PROVE  After[L[i]] = SubSeq(L, i + 1, Len(L))
<1> DEFINE N == Len(L)
           T == {k \in Nat : k < N => After[L[N - k]] = SubSeq(L, N - k + 1, N)}
<1>1. L \in Seq(Nodes) /\ N \in Nat /\ N >= 1
      /\ \A j \in 1..N : L[j] \in Nodes /\ L[j] # Null /\ L[j] \in 0..MaxNodes
  BY ChainFacts DEF Chain
<1>2. \A n \in 0..MaxNodes :
        After[n] = IF n = Null \/ link[n] = Null THEN <<>> ELSE <<link[n]>> \o After[link[n]]
  <2>1. After = AfterBody(After)
    BY AfterUnfolds
  <2> QED BY <2>1 DEF AfterBody
<1>3. 0 \in T
  <2>1. N \in 1..N /\ N - 0 = N /\ N - 0 + 1 = N + 1
    BY <1>1
  <2>2. After[L[N]] = <<>>
    BY <1>1, <1>2, <2>1 DEF Chain
  <2>3. SubSeq(L, N + 1, N) = <<>>
    BY <1>1, SubSeqEmpty
  <2> HIDE DEF N
  <2> QED BY <2>1, <2>2, <2>3
<1>4. ASSUME NEW k \in Nat, k \in T PROVE k + 1 \in T
  <2>1. SUFFICES ASSUME k + 1 < N
                 PROVE  After[L[N - (k + 1)]] = SubSeq(L, N - (k + 1) + 1, N)
    OBVIOUS
  <2>2. PICK j \in 1..(N - 1) : j = N - (k + 1)
    <3>1. N - (k + 1) \in 1..(N - 1)
      BY <1>1, <2>1
    <3> HIDE DEF N
    <3> QED BY <3>1
  <2>3. N - k = j + 1 /\ N - k + 1 = j + 2 /\ j \in 1..N /\ j + 1 \in 1..N /\ k < N
    BY <1>1, <2>1, <2>2
  <2>4. After[L[j + 1]] = SubSeq(L, j + 2, N)
    BY <1>4, <2>3
  <2>5. link[L[j]] = L[j + 1] /\ L[j + 1] # Null /\ L[j] # Null
    BY <1>1, <2>2, <2>3 DEF Chain
  <2>6. After[L[j]] = <<L[j + 1]>> \o After[L[j + 1]]
    BY <1>1, <1>2, <2>3, <2>5
  <2>7. SubSeq(L, j + 1, N) = <<L[j + 1]>> \o SubSeq(L, j + 2, N)
    <3>1. j + 1 \in 1..N /\ N \in (j + 1)..N /\ (j + 1) + 1 = j + 2 /\ N = Len(L)
      BY <1>1, <2>3
    <3> HIDE DEF N
    <3> QED BY <1>1, <3>1, SubSeqRecursiveFirst
  <2> HIDE DEF N
  <2> QED BY <2>2, <2>4, <2>6, <2>7
<1>5. Nat \subseteq T
  <2> HIDE DEF T
  <2> QED BY <1>3, <1>4, SetInduction
<1>6. N - i \in Nat /\ N - i < N /\ N - (N - i) = i
  BY <1>1
<1>7. After[L[N - (N - i)]] = SubSeq(L, N - (N - i) + 1, N)
  BY <1>5, <1>6
<1> QED BY <1>6, <1>7

(* The chain grows at its end when a node is linked, and only then.         *)
LEMMA ChainGrows ==
  ASSUME RingInv, NEW L, Chain(L), NEW t \in Threads, EnqLinked(t)
  PROVE  \A M : M = Append(L, node[t]) => Chain(M)'
<1>0. PICK e : e = node[t]
  OBVIOUS
<1> DEFINE N == Len(L)
           M == Append(L, e)
<1>1. /\ L \in Seq(Nodes) /\ N \in Nat /\ N >= 1 /\ L[1] = 1
      /\ \A j \in 1..N : L[j] \in Nodes /\ L[j] # Null
  BY ChainFacts DEF Chain
<1>2. /\ tl[t] \in Nodes /\ Linked(tl[t]) /\ link[tl[t]] = Null
      /\ e \in Nodes /\ ~Linked(e) /\ link[e] = Null
      /\ \A n \in Nodes : link'[n] = IF n = tl[t] THEN e ELSE link[n]
      /\ \A n \in Nodes : Linked(n)' <=> Linked(n) \/ n = e
  BY <1>0, LinkingOne DEF RingInv
<1>3. tl[t] = L[N]
  <2>1. PICK i \in 1..N : L[i] = tl[t]
    BY <1>2 DEF Chain
  <2>2. i \notin 1..(N - 1)
    BY <1>1, <1>2, <2>1 DEF Chain
  <2>3. i = N
    BY <1>1, <2>2
  <2> QED BY <2>1, <2>3
<1>4. /\ M \in Seq(Nodes) /\ Len(M) = N + 1 /\ M[N + 1] = e
      /\ \A i \in 1..N : M[i] = L[i]
  BY <1>1, <1>2
<1>5. \A j \in 1..N : L[j] # e
  BY <1>1, <1>2 DEF Chain
<1>6. ASSUME NEW i \in 1..N PROVE link'[M[i]] = M[i + 1]
  <2>1. CASE i = N
    BY <1>1, <1>2, <1>3, <1>4, <2>1
  <2>2. CASE i # N
    <3>1. i \in 1..(N - 1) /\ i + 1 \in 1..N
      BY <1>1, <2>2
    <3>2. L[i] # L[N] /\ link[L[i]] = L[i + 1]
      BY <1>1, <2>2, <3>1 DEF Chain
    <3> HIDE DEF M
    <3> QED BY <1>1, <1>2, <1>3, <1>4, <3>1, <3>2
  <2> QED BY <2>1, <2>2
<1>7. link'[e] = Null
  BY <1>1, <1>2, <1>3, <1>5
<1>8. ASSUME NEW i \in 1..(N + 1), NEW j \in 1..(N + 1), M[i] = M[j] PROVE i = j
  <2>1. \A k, m \in 1..N : L[k] = L[m] => k = m
    BY DEF Chain
  <2> HIDE DEF M
  <2> QED BY <1>1, <1>4, <1>5, <1>8, <2>1
<1>9. ASSUME NEW n \in Nodes PROVE Linked(n)' <=> \E i \in 1..(N + 1) : M[i] = n
  <2>1. Linked(n) <=> \E i \in 1..N : L[i] = n
    BY DEF Chain
  <2>2. \A i \in 1..(N + 1) : i \in 1..N \/ i = N + 1
    BY <1>1
  <2>3. N + 1 \in 1..(N + 1) /\ \A i \in 1..N : i \in 1..(N + 1)
    BY <1>1
  <2> HIDE DEF M, N
  <2> QED BY <1>2, <1>4, <2>1, <2>2, <2>3
<1>10. ASSUME NEW n \in Nodes, ~Linked(n)' PROVE link'[n] = Null
  <2>1. ~Linked(n) /\ n # tl[t]
    BY <1>2, <1>10
  <2> QED BY <1>2, <2>1 DEF Chain
<1>11. M[1] = 1
  BY <1>1, <1>4
<1>13. \A K : K = M => Chain(K)'
  <2> HIDE DEF M
  <2>1. SUFFICES ASSUME NEW K, K = M PROVE Chain(K)'
    OBVIOUS
  <2>2. Len(K) = N + 1 /\ Len(K) - 1 = N /\ Len(K) >= 1
    BY <1>1, <1>4, <2>1
  <2> HIDE DEF N
  <2> QED BY <1>4, <1>6, <1>7, <1>8, <1>9, <1>10, <1>11, <2>1, <2>2 DEF Chain
<1> QED BY <1>0, <1>13

(* Every step leaves the links alone or links one node at the end.          *)
LEMMA OnlyEnqueueLinks ==
  ASSUME [Next]_vars
  PROVE  UNCHANGED link \/ \E t \in Threads : EnqLinked(t)
<1>1. CASE Next
  <2>1. PICK t \in Threads : Push(t) \/ DrainStep(t) \/ FlushStore(t)
    BY <1>1 DEF Next
  <2>2. CASE InQueue(t)
    BY <2>2 DEF InQueue, QueueStep, EnqLoadTail, EnqLoadNext, EnqCheck, EnqLostRace, EnqHelp,
       DeqLoadHead, DeqLoadTail, DeqLoadNext, DeqCheck, DeqHelp, DeqSwing
  <2>3. CASE ~InQueue(t)
    BY <2>1, <2>3 DEF DrainStep, Push, EnqAlloc, Pushed, EnqSwing, LockDrain, LeaveToHolder,
       StartDequeue, DeqLoadHead, GotItem, DeqTake, GotNone, DeqNone, Ship, UnlockDrain,
       FlushStore, StartProbe, EmptyLoadHead, Probed, EmptyLoadNext, queueVars
  <2> QED BY <2>2, <2>3
<1>2. CASE UNCHANGED vars
  BY <1>2 DEF vars, queueVars
<1> QED BY <1>1, <1>2

ChainInv == RingInv /\ \E L : Chain(L)

LEMMA InitChain == Init => ChainInv
<1> SUFFICES ASSUME Init PROVE ChainInv
  OBVIOUS
<1>1. 1 \in Nodes
  BY MaxNodesAssumption DEF Nodes
<1>2. /\ \A n \in Nodes : link[n] = Null
      /\ \A n \in Nodes : Linked(n) <=> n = 1
  BY DEF Init, QueueInit, Linked, Nodes, Null
<1>3. Chain(<<1>>)
  <2>1. <<1>> \in Seq(Nodes) /\ Len(<<1>>) = 1 /\ <<1>>[1] = 1
    BY <1>1
  <2> QED BY <1>1, <1>2, <2>1 DEF Chain
<1> QED BY <1>3, InitInv DEF ChainInv

LEMMA NextChain ==
  ASSUME ChainInv, [Next]_vars
  PROVE  ChainInv'
<1>1. PICK L : Chain(L)
  BY DEF ChainInv
<1>2. RingInv'
  BY NextInv DEF ChainInv
<1>3. CASE UNCHANGED link
  <2>1. \A n : Linked(n)' <=> Linked(n)
    BY <1>3 DEF Linked
  <2>2. Chain(L)'
    BY <1>1, <1>3, <2>1 DEF Chain
  <2> QED BY <1>2, <2>2 DEF ChainInv
<1>4. CASE \E t \in Threads : EnqLinked(t)
  <2>1. \E M : Chain(M)'
    <3>1. PICK t \in Threads : EnqLinked(t)
      BY <1>4
    <3>2. PICK M : M = Append(L, node[t])
      OBVIOUS
    <3> QED BY <1>1, <3>1, <3>2, ChainGrows DEF ChainInv
  <2> QED BY <1>2, <2>1 DEF ChainInv
<1> QED BY <1>3, <1>4, OnlyEnqueueLinks

(* Where head and tail are in the chain.                                    *)
LEMMA HeadBeforeTail ==
  ASSUME RingInv, NEW L, Chain(L)
  PROVE  \E h, k \in 1..Len(L) :
           L[h] = qhead /\ L[k] = qtail /\ h <= k /\ k >= Len(L) - 1
<1> DEFINE N == Len(L)
<1>1. N \in Nat /\ N >= 1 /\ \A j \in 1..N : L[j] \in Nodes /\ L[j] # Null
  BY ChainFacts
<1>2. /\ qhead \in Nodes /\ qtail \in Nodes /\ Linked(qhead) /\ Linked(qtail)
      /\ link[qtail] # Null => link[link[qtail]] = Null
      /\ link[qtail] # qhead
  BY Pointers DEF RingInv, List
<1>3. PICK h \in 1..N, k \in 1..N : L[h] = qhead /\ L[k] = qtail
  BY <1>2 DEF Chain
<1>4. \A i \in 1..(N - 1) : link[L[i]] = L[i + 1]
  BY DEF Chain
<1>5. k >= N - 1
  <2>1. SUFFICES ASSUME k < N - 1 PROVE FALSE
    BY <1>1
  <2>2. k \in 1..(N - 1) /\ k + 1 \in 1..(N - 1) /\ (k + 1) + 1 \in 1..N /\ k + 1 \in 1..N
    BY <1>1, <2>1
  <2>3. link[qtail] = L[k + 1] /\ link[L[k + 1]] = L[(k + 1) + 1]
    BY <1>3, <1>4, <2>2
  <2> QED BY <1>1, <1>2, <2>2, <2>3
<1>6. h <= k
  <2>1. SUFFICES ASSUME k < h PROVE FALSE
    BY <1>1
  <2>2. k = N - 1 /\ h = N /\ k \in 1..(N - 1) /\ h = k + 1
    BY <1>1, <1>5, <2>1
  <2> QED BY <1>2, <1>3, <1>4, <2>2
<1> QED BY <1>3, <1>5, <1>6

(* The nodes after the m-th, one by one.                                    *)
LEMMA RestOfSeq ==
  ASSUME NEW L \in Seq(Nodes), NEW m \in 1..Len(L)
  PROVE  /\ Len(SubSeq(L, m + 1, Len(L))) = Len(L) - m
         /\ DOMAIN SubSeq(L, m + 1, Len(L)) = 1..(Len(L) - m)
         /\ \A i \in 1..(Len(L) - m) : SubSeq(L, m + 1, Len(L))[i] = L[m + i]
<1>1. PICK N : N = Len(L)
  OBVIOUS
<1>2. N \in Nat /\ m + 1 \in Int /\ N \in Int /\ \A i \in (m + 1)..N : L[i] \in Nodes
  BY <1>1, LenProperties
<1>3. /\ SubSeq(L, m + 1, N) \in Seq(Nodes)
      /\ Len(SubSeq(L, m + 1, N)) = IF m + 1 <= N THEN N - (m + 1) + 1 ELSE 0
      /\ \A i \in 1..(N - (m + 1) + 1) : SubSeq(L, m + 1, N)[i] = L[(m + 1) + i - 1]
  BY <1>2, SubSeqProperties
<1>4. N - (m + 1) + 1 = N - m
  BY <1>2
<1>5. Len(SubSeq(L, m + 1, N)) = N - m
  BY <1>1, <1>2, <1>3
<1>6. DOMAIN SubSeq(L, m + 1, N) = 1..(N - m)
  BY <1>3, <1>5, LenProperties
<1>7. \A i \in 1..(N - m) : (m + 1) + i - 1 = m + i
  OBVIOUS
<1> QED BY <1>1, <1>3, <1>4, <1>5, <1>6, <1>7

LEMMA TailIsAhead ==
  ASSUME ChainInv
  PROVE  TailKeepsUp
<1>1. PICK L : Chain(L)
  BY DEF ChainInv
<1> DEFINE N == Len(L)
<1>2. L \in Seq(Nodes) /\ N \in Nat
  BY <1>1, ChainFacts DEF Chain
<1>3. PICK h \in 1..N, k \in 1..N : L[h] = qhead /\ L[k] = qtail /\ h <= k /\ k >= N - 1
  BY <1>1, HeadBeforeTail DEF ChainInv
<1>4. After[qhead] = SubSeq(L, h + 1, N) /\ After[qtail] = SubSeq(L, k + 1, N)
  BY <1>1, <1>3, AfterIsRest
<1>5. \A m \in 1..N :
        /\ Len(SubSeq(L, m + 1, N)) = N - m
        /\ DOMAIN SubSeq(L, m + 1, N) = 1..(N - m)
        /\ \A i \in 1..(N - m) : SubSeq(L, m + 1, N)[i] = L[m + i]
  BY <1>2, RestOfSeq
<1>6. Len(After[qtail]) <= 1
  BY <1>2, <1>3, <1>4, <1>5
<1>7. qtail = qhead \/ \E i \in DOMAIN After[qhead] : After[qhead][i] = qtail
  <2>1. CASE h = k
    BY <1>3, <2>1
  <2>2. CASE h # k
    <3>1. k - h \in 1..(N - h) /\ h + (k - h) = k
      BY <1>2, <1>3, <2>2
    <3>2. k - h \in DOMAIN After[qhead] /\ After[qhead][k - h] = qtail
      BY <1>3, <1>4, <1>5, <3>1
    <3> QED BY <3>2
  <2> QED BY <2>1, <2>2
<1> QED BY <1>6, <1>7 DEF TailKeepsUp

(* cas_queue.rs:38-82: for any number of threads and nodes, tail is at head *)
(* or after it, and at most one node, whose enqueue is about to swing tail  *)
(* or be helped to, follows it.                                             *)
THEOREM TailNeverLags == Spec => []TailKeepsUp
<1>1. Init => ChainInv
  BY InitChain
<1>2. ChainInv /\ [Next]_vars => ChainInv'
  BY NextChain
<1>3. ChainInv => TailKeepsUp
  BY TailIsAhead
<1> QED BY <1>1, <1>2, <1>3, PTL DEF Spec

(***************************************************************************)
(* The refinement mapping of LockedRingOrder, step by step.                *)
(***************************************************************************)

(***************************************************************************)
(* The inductive invariant: what the nodes of the chain carry.             *)
(***************************************************************************)

\* The thread has numbered its record and not linked the node.
Unlinked(t) == qpc[t] \in {"e_tail", "e_next", "e_check", "e_link", "e_help"}

\* A record whose node has been linked.
Accepted ==
  {r \in Threads \X Nat :
     r[2] <= pushed[r[1]] /\ (Unlinked(r[1]) => r[2] < pushed[r[1]])}

\* The values and results that are Some(an accepted record).
Carried == {s \in Seq(Threads \X Nat) : Len(s) = 1 /\ s[1] \in Accepted}

Contents(L) ==
  /\ \A h, i \in 1..Len(L) : L[h] = qhead /\ h < i => value[L[i]] \in Carried
  /\ \A t \in Threads :
       /\ Unlinked(t) => value[node[t]] = <<<<t, pushed[t]>>>>
       /\ qpc[t] = "d_take" => nx[t] = qhead /\ value[nx[t]] \in Carried
       /\ dpc[t] = "ship" => ret[t] \in Carried
  /\ \A i \in 1..Len(out) : out[i] \in Accepted

OrderInv == RingInv /\ \E L : Chain(L) /\ Contents(L)

(***************************************************************************)
(* Next, by what it does to the records.                                   *)
(***************************************************************************)

\* u neither takes, ships nor gives up a record.
Same(u) ==
  /\ qpc'[u] = "d_take" <=> qpc[u] = "d_take"
  /\ dpc'[u] = "ship" <=> dpc[u] = "ship"
  /\ qpc[u] = "d_take" => nx'[u] = nx[u]
  /\ dpc[u] = "ship" => ret'[u] = ret[u]

\* u numbers no record.
Waits(u) == Unlinked(u)' => Unlinked(u) /\ node'[u] = node[u]

Calm ==
  /\ UNCHANGED <<qhead, link, value, out, pushed>>
  /\ \A u \in Threads : Same(u) /\ Waits(u)

LEMMA CalmStep ==
  ASSUME TypeOK, Phases, Next
  PROVE  \/ Calm
         \/ \E t \in Threads : \/ Push(t)
                               \/ InQueue(t) /\ EnqLinked(t)
                               \/ InQueue(t) /\ DeqSwing(t)
                               \/ GotItem(t)
                               \/ Ship(t)
<1> PICK t \in Threads :
       \/ Push(t)
       \/ InQueue(t) /\ EnqLoadTail(t)
       \/ InQueue(t) /\ EnqLoadNext(t)
       \/ InQueue(t) /\ EnqCheck(t)
       \/ InQueue(t) /\ EnqLinked(t)
       \/ InQueue(t) /\ EnqLostRace(t)
       \/ InQueue(t) /\ EnqHelp(t)
       \/ InQueue(t) /\ DeqLoadHead(t, "d_head")
       \/ InQueue(t) /\ DeqLoadTail(t)
       \/ InQueue(t) /\ DeqLoadNext(t)
       \/ InQueue(t) /\ DeqCheck(t)
       \/ InQueue(t) /\ DeqHelp(t)
       \/ InQueue(t) /\ DeqSwing(t)
       \/ Pushed(t)
       \/ \E from \in {"lock", "again"} : LockDrain(t, from)
       \/ \E from \in {"lock", "again"} : LeaveToHolder(t, from)
       \/ StartDequeue(t)
       \/ GotItem(t)
       \/ GotNone(t)
       \/ Ship(t)
       \/ UnlockDrain(t)
       \/ FlushStore(t)
       \/ StartProbe(t)
       \/ Probed(t)
  BY Stepping
<1> USE DEF Calm, Same, Waits, Unlinked, Go, Move, TypeOK, QueueTypeOK
<1>2. CASE InQueue(t) /\ EnqLoadTail(t)
  BY <1>2 DEF InQueue, EnqLoadTail
<1>3. CASE InQueue(t) /\ EnqLoadNext(t)
  BY <1>3 DEF InQueue, EnqLoadNext
<1>4. CASE InQueue(t) /\ EnqCheck(t)
  BY <1>4 DEF InQueue, EnqCheck
<1>6. CASE InQueue(t) /\ EnqLostRace(t)
  BY <1>6 DEF InQueue, EnqLostRace
<1>7. CASE InQueue(t) /\ EnqHelp(t)
  BY <1>7 DEF InQueue, EnqHelp
<1>8. CASE InQueue(t) /\ DeqLoadHead(t, "d_head")
  BY <1>8 DEF InQueue, DeqLoadHead
<1>9. CASE InQueue(t) /\ DeqLoadTail(t)
  BY <1>9 DEF InQueue, DeqLoadTail
<1>10. CASE InQueue(t) /\ DeqLoadNext(t)
  BY <1>10 DEF InQueue, DeqLoadNext
<1>11. CASE InQueue(t) /\ DeqCheck(t)
  BY <1>11 DEF InQueue, DeqCheck
<1>12. CASE InQueue(t) /\ DeqHelp(t)
  BY <1>12 DEF InQueue, DeqHelp
<1>14. CASE Pushed(t)
  BY <1>14 DEF Pushed, EnqSwing, Leave
<1>15. CASE \E from \in {"lock", "again"} : LockDrain(t, from)
  BY <1>15 DEF LockDrain, queueVars
<1>16. CASE \E from \in {"lock", "again"} : LeaveToHolder(t, from)
  BY <1>16 DEF LeaveToHolder, queueVars
<1>17. CASE StartDequeue(t)
  BY <1>17 DEF StartDequeue, DeqLoadHead
<1>19. CASE GotNone(t)
  BY <1>19 DEF GotNone, DeqNone, Leave
<1>21. CASE UnlockDrain(t)
  BY <1>21 DEF UnlockDrain, queueVars
<1>22. CASE FlushStore(t)
  BY <1>22 DEF FlushStore, queueVars
<1>23. CASE StartProbe(t)
  BY <1>23 DEF StartProbe, EmptyLoadHead
<1>24. CASE Probed(t)
  BY <1>24 DEF Probed, EmptyLoadNext, Leave
<1> HIDE DEF Calm, Same, Waits, Unlinked, Go, Move, TypeOK, QueueTypeOK
<1> QED
  BY <1>2, <1>3, <1>4, <1>6, <1>7, <1>8, <1>9, <1>10, <1>11, <1>12, <1>14, <1>15, <1>16,
  <1>17, <1>19, <1>21, <1>22, <1>23, <1>24

(* What a record numbered is, stays.                                        *)
LEMMA AcceptedStays ==
  ASSUME \A u \in Threads : Waits(u), UNCHANGED pushed
  PROVE  Accepted \subseteq Accepted' /\ Carried \subseteq Carried'
BY DEF Accepted, Carried, Waits

(***************************************************************************)
(* The refinement mapping, seen through the chain.                         *)
(***************************************************************************)

Waiting == [i \in DOMAIN Queued |-> Queued[i][1]]

\* What is in the queue is what the chain carries after head.
WaitingInChain ==
  \A K : \A g \in 1..Len(K) :
    Chain(K) /\ K[g] = qhead =>
      Waiting = [i \in 1..(Len(K) - g) |-> value[K[g + i]][1]]

LEMMA WaitingIs == WaitingInChain
<1> SUFFICES ASSUME NEW L, NEW h \in 1..Len(L), Chain(L), L[h] = qhead
             PROVE  Waiting = [i \in 1..(Len(L) - h) |-> value[L[h + i]][1]]
  BY DEF WaitingInChain
<1> DEFINE N == Len(L)
<1>1. L \in Seq(Nodes) /\ N \in Nat
  BY ChainFacts DEF Chain
<1>2. PICK ns : ns = After[qhead]
  OBVIOUS
<1>3. ns = SubSeq(L, h + 1, N)
  BY <1>2, AfterIsRest
<1>4. DOMAIN ns = 1..(N - h) /\ \A i \in 1..(N - h) : ns[i] = L[h + i]
  BY <1>1, <1>3, RestOfSeq
<1>5. Queued = [i \in 1..(N - h) |-> value[L[h + i]]]
  BY <1>2, <1>4 DEF Queued
<1> HIDE DEF N
<1>6. DOMAIN Queued = 1..(N - h) /\ \A i \in 1..(N - h) : Queued[i] = value[L[h + i]]
  BY <1>5
<1> QED BY <1>6 DEF Waiting, N

\* The record in flight is the one the drainer has dequeued.
InFlightAtDrainer ==
  /\ \A t \in Threads :
       /\ qpc[t] = "d_take" => InFlight = value[nx[t]]
       /\ dpc[t] = "ship" => InFlight = ret[t]
  /\ (\A t \in Threads : qpc[t] # "d_take" /\ dpc[t] # "ship") => InFlight = <<>>

LEMMA InFlightIs == RingInv => InFlightAtDrainer
<1> SUFFICES ASSUME RingInv PROVE InFlightAtDrainer
  OBVIOUS
<1>1. \A t \in Threads : qpc[t] = "d_take" \/ dpc[t] = "ship" => Draining(t)
  BY DEF RingInv, Phases, Dequeuing, Draining
<1>2. \A t, u \in Threads : Draining(t) /\ Draining(u) => t = u
  BY DEF RingInv, Locking, Holds
<1>3. \A t \in Threads : ~(qpc[t] = "d_take" /\ dpc[t] = "ship")
  BY DEF RingInv, Phases, Dequeuing
<1>4. ASSUME NEW t \in Threads, qpc[t] = "d_take" \/ dpc[t] = "ship"
      PROVE  InFlight = IF dpc[t] = "ship" THEN ret[t] ELSE value[nx[t]]
  <2>1. \A u \in Threads : qpc[u] = "d_take" \/ dpc[u] = "ship" => u = t
    BY <1>1, <1>2, <1>4
  <2>2. (CHOOSE u \in Threads : qpc[u] = "d_take" \/ dpc[u] = "ship") = t
    BY <1>4, <2>1
  <2> QED BY <1>4, <2>2 DEF InFlight
<1>5. (\A t \in Threads : qpc[t] # "d_take" /\ dpc[t] # "ship") => InFlight = <<>>
  BY DEF InFlight
<1> QED BY <1>3, <1>4, <1>5 DEF InFlightAtDrainer

LEMMA InFlightNext == RingInv' => InFlightAtDrainer'
<1>1. (RingInv => InFlightAtDrainer)'
  BY InFlightIs, PTL
<1> QED BY <1>1

LEMMA WaitingNext == WaitingInChain'
BY WaitingIs, PTL

LEMMA ChainStays ==
  ASSUME UNCHANGED link, NEW L, Chain(L)
  PROVE  Chain(L)'
<1>1. \A n : Linked(n)' <=> Linked(n)
  BY DEF Linked
<1> QED BY <1>1 DEF Chain

LEMMA InFlightStays ==
  ASSUME RingInv, RingInv', \A u \in Threads : Same(u),
         \A u \in Threads : qpc[u] = "d_take" => value'[nx[u]] = value[nx[u]]
  PROVE  InFlight' = InFlight
<1>1. CASE \E t \in Threads : qpc[t] = "d_take"
  BY <1>1, InFlightIs, InFlightNext DEF Same, InFlightAtDrainer
<1>2. CASE \E t \in Threads : dpc[t] = "ship"
  BY <1>2, InFlightIs, InFlightNext DEF Same, InFlightAtDrainer
<1>3. CASE \A t \in Threads : qpc[t] # "d_take" /\ dpc[t] # "ship"
  BY <1>3, InFlightIs, InFlightNext DEF Same, InFlightAtDrainer
<1> QED BY <1>1, <1>2, <1>3

(* Where head is in the chain.                                              *)
LEMMA HeadInChain ==
  ASSUME RingInv, NEW L, Chain(L)
  PROVE  \E h \in 1..Len(L) : L[h] = qhead
BY HeadBeforeTail

(* The abstract queue holds accepted records.                               *)
Items == InFlight \o Waiting

LEMMA Records ==
  ASSUME RingInv, NEW L, Chain(L), Contents(L)
  PROVE  /\ Waiting \in Seq(Threads \X Nat)
         /\ InFlight \in Seq(Threads \X Nat) /\ Len(InFlight) <= 1
         /\ \A i \in 1..Len(Waiting) : Waiting[i] \in Accepted
         /\ \A i \in 1..Len(InFlight) : InFlight[i] \in Accepted
         /\ out \in Seq(Threads \X Nat)
         /\ \A i \in 1..Len(out) : out[i] \in Accepted
<1>1. PICK h \in 1..Len(L) : L[h] = qhead
  BY HeadInChain
<1>2. PICK m : m = Len(L) - h
  OBVIOUS
<1>3. m \in Nat /\ \A i \in 1..m : h + i \in 1..Len(L) /\ h < h + i
  BY <1>2, ChainFacts
<1>4. \A i \in 1..m : value[L[h + i]] \in Carried
  BY <1>1, <1>3 DEF Contents
<1>5. Waiting = [i \in 1..m |-> value[L[h + i]][1]]
  BY <1>1, <1>2, WaitingIs DEF WaitingInChain
<1>6. \A i \in 1..m : value[L[h + i]][1] \in Accepted
  BY <1>4 DEF Carried
<1>7. \A i \in 1..m : value[L[h + i]][1] \in Threads \X Nat
  BY <1>6 DEF Accepted
<1>8. Waiting \in Seq(Threads \X Nat)
  BY <1>3, <1>5, <1>7, IsASeq
<1>9. Len(Waiting) = m /\ \A i \in 1..m : Waiting[i] \in Accepted
  BY <1>3, <1>5, <1>6
<1>10. InFlight = <<>> \/ InFlight \in Carried
  BY InFlightIs DEF Contents, InFlightAtDrainer
<1>11. /\ InFlight \in Seq(Threads \X Nat) /\ Len(InFlight) <= 1
       /\ \A i \in 1..Len(InFlight) : InFlight[i] \in Accepted
  <2>1. CASE InFlight = <<>>
    BY <2>1
  <2>2. CASE InFlight \in Carried
    <3>1. InFlight \in Seq(Threads \X Nat) /\ Len(InFlight) = 1 /\ InFlight[1] \in Accepted
      BY <2>2 DEF Carried
    <3> QED BY <3>1
  <2> QED BY <1>10, <2>1, <2>2
<1>12. out \in Seq(Threads \X Nat) /\ \A i \in 1..Len(out) : out[i] \in Accepted
  BY DEF RingInv, TypeOK, Contents
<1> QED BY <1>8, <1>9, <1>11, <1>12

(***************************************************************************)
(* The steps that are stutters of the queue.                               *)
(***************************************************************************)

LEMMA CalmKeeps ==
  ASSUME OrderInv, RingInv', Calm
  PROVE  OrderInv' /\ UNCHANGED <<Items, out>>
<1>1. PICK L : Chain(L) /\ Contents(L)
  BY DEF OrderInv
<1>2. Chain(L)'
  BY <1>1, ChainStays DEF Calm
<1>3. Accepted \subseteq Accepted'
  BY AcceptedStays DEF Calm
<1>4. Carried \subseteq Carried'
  BY <1>3 DEF Carried
<1>5. Contents(L)'
  <2>1. \A h, i \in 1..Len(L) : L[h] = qhead' /\ h < i => value'[L[i]] \in Carried'
    BY <1>1, <1>4 DEF Contents, Calm
  <2>2. ASSUME NEW t \in Threads
        PROVE  /\ Unlinked(t)' => value'[node'[t]] = <<<<t, pushed'[t]>>>>
               /\ qpc'[t] = "d_take" => nx'[t] = qhead' /\ value'[nx'[t]] \in Carried'
               /\ dpc'[t] = "ship" => ret'[t] \in Carried'
    BY <1>1, <1>4 DEF Contents, Calm, Same, Waits
  <2>3. \A i \in 1..Len(out') : out'[i] \in Accepted'
    BY <1>1, <1>3 DEF Contents, Calm
  <2> QED BY <2>1, <2>2, <2>3 DEF Contents
<1>6. InFlight' = InFlight
  BY InFlightStays DEF OrderInv, Calm
<1>7. Waiting' = Waiting
  <2>1. After' = After
    BY DEF After, Calm
  <2> QED BY <2>1 DEF Waiting, Queued, Calm
<1> QED BY <1>1, <1>2, <1>5, <1>6, <1>7 DEF OrderInv, Items, Calm

(* push_record numbers a record in a node nobody sees yet.                  *)
LEMMA PushFacts ==
  ASSUME TypeOK, Phases, List, NEW t \in Threads, Push(t)
  PROVE  /\ UNCHANGED <<qhead, link, out>> /\ fresh \in Nodes /\ ~Linked(fresh)
         /\ value' = [value EXCEPT ![fresh] = <<<<t, pushed[t] + 1>>>>]
         /\ node' = [node EXCEPT ![t] = fresh]
         /\ pushed' = [pushed EXCEPT ![t] = @ + 1]
         /\ ~Unlinked(t) /\ Unlinked(t)'
         /\ \A u \in Threads : Same(u) /\ (u # t => Waits(u))
<1>1. fresh \in Nodes
  BY DEF Push, EnqAlloc, TypeOK, QueueTypeOK, List, Nodes
<1>2. ~Linked(fresh)
  BY <1>1 DEF List, Nodes
<1> QED BY <1>1, <1>2 DEF Push, EnqAlloc, Go, Move, TypeOK, QueueTypeOK, Same, Waits, Unlinked

LEMMA PushKeeps ==
  ASSUME OrderInv, RingInv', NEW t \in Threads, Push(t)
  PROVE  OrderInv' /\ UNCHANGED <<Items, out>>
<1>1. PICK L : Chain(L) /\ Contents(L)
  BY DEF OrderInv
<1>2. PICK f, k : f = fresh /\ k = pushed[t] + 1
  OBVIOUS
<1>3. RingInv /\ TypeOK /\ Phases /\ List /\ Enqueuers
  BY DEF OrderInv, RingInv
<1>4. /\ UNCHANGED <<qhead, link, out>> /\ f \in Nodes /\ ~Linked(f)
      /\ \A n \in Nodes : value'[n] = IF n = f THEN <<<<t, k>>>> ELSE value[n]
      /\ \A u \in Threads : node'[u] = IF u = t THEN f ELSE node[u]
      /\ \A u \in Threads : pushed'[u] = IF u = t THEN k ELSE pushed[u]
      /\ ~Unlinked(t) /\ Unlinked(t)'
      /\ \A u \in Threads : Same(u) /\ (u # t => Waits(u))
      /\ \A u \in Threads : pushed[u] \in Nat
  <2>1. /\ value \in [Nodes -> Seq(Threads \X Nat)] /\ node \in [Threads -> Nodes \cup {Null}]
        /\ pushed \in [Threads -> 0..Pushes]
    BY <1>3 DEF TypeOK, QueueTypeOK
  <2>2. \A u \in Threads : pushed[u] \in Nat
    BY <2>1, PushesAssumption
  <2>3. /\ value' = [value EXCEPT ![f] = <<<<t, k>>>>] /\ node' = [node EXCEPT ![t] = f]
        /\ pushed' = [pushed EXCEPT ![t] = k]
        /\ UNCHANGED <<qhead, link, out>> /\ f \in Nodes /\ ~Linked(f)
        /\ ~Unlinked(t) /\ Unlinked(t)'
        /\ \A u \in Threads : Same(u) /\ (u # t => Waits(u))
    BY <1>2, <1>3, PushFacts
  <2> QED BY <2>1, <2>2, <2>3
<1>5. Chain(L)'
  BY <1>1, <1>4, ChainStays
<1>6. L \in Seq(Nodes) /\ \A i \in 1..Len(L) : L[i] \in Nodes /\ L[i] # f
  BY <1>1, <1>4, ChainFacts DEF Chain
<1>7. qhead \in Nodes /\ qhead # f
  <2>1. \E h \in 1..Len(L) : L[h] = qhead
    BY <1>1, <1>3, HeadInChain
  <2> QED BY <1>6, <2>1
<1>8. Accepted \subseteq Accepted'
  <2>1. SUFFICES ASSUME NEW r \in Accepted PROVE r \in Accepted'
    OBVIOUS
  <2>2. r \in Threads \X Nat /\ r[1] \in Threads /\ r[2] \in Nat /\ r[2] <= pushed[r[1]]
        /\ (Unlinked(r[1]) => r[2] < pushed[r[1]])
    BY DEF Accepted
  <2>3. CASE r[1] = t
    <3>1. r[2] < pushed'[r[1]]
      BY <1>2, <1>4, <2>2, <2>3
    <3>2. r[2] <= pushed'[r[1]]
      BY <1>2, <1>4, <2>2, <2>3
    <3> QED BY <2>2, <3>1, <3>2 DEF Accepted
  <2>4. CASE r[1] # t
    <3>1. pushed'[r[1]] = pushed[r[1]]
      BY <1>4, <2>2, <2>4
    <3>2. PICK u \in Threads : u = r[1]
      BY <2>2
    <3>3. Unlinked(u)' => Unlinked(u)
      BY <1>4, <2>4, <3>2 DEF Waits
    <3> QED BY <2>2, <3>1, <3>2, <3>3 DEF Accepted
  <2> QED BY <2>3, <2>4
<1>9. Carried \subseteq Carried'
  BY <1>8 DEF Carried
<1>10. Contents(L)'
  <2>1. \A h, i \in 1..Len(L) : L[h] = qhead' /\ h < i => value'[L[i]] \in Carried'
    BY <1>1, <1>4, <1>6, <1>9 DEF Contents
  <2>2. ASSUME NEW u \in Threads
        PROVE  /\ Unlinked(u)' => value'[node'[u]] = <<<<u, pushed'[u]>>>>
               /\ qpc'[u] = "d_take" => nx'[u] = qhead' /\ value'[nx'[u]] \in Carried'
               /\ dpc'[u] = "ship" => ret'[u] \in Carried'
    <3>1. Same(u)
      BY <1>4
    <3>2. qpc'[u] = "d_take" => nx'[u] = qhead' /\ value'[nx'[u]] \in Carried'
      BY <1>1, <1>4, <1>7, <1>9, <3>1 DEF Contents, Same
    <3>3. dpc'[u] = "ship" => ret'[u] \in Carried'
      BY <1>1, <1>9, <3>1 DEF Contents, Same
    <3>4. Unlinked(u)' => value'[node'[u]] = <<<<u, pushed'[u]>>>>
      <4>1. CASE u = t
        BY <1>4, <4>1
      <4>2. CASE u # t
        <5>1. SUFFICES ASSUME Unlinked(u)' PROVE value'[node'[u]] = <<<<u, pushed'[u]>>>>
          OBVIOUS
        <5>2. Unlinked(u) /\ node'[u] = node[u] /\ pushed'[u] = pushed[u]
          BY <1>4, <4>2, <5>1 DEF Waits
        <5>3. value[node[u]] = <<<<u, pushed[u]>>>>
          BY <1>1, <5>2 DEF Contents
        <5>4. node[u] \in Nodes /\ node[u] < fresh
          BY <1>3, <5>2 DEF Enqueuers, Private, Unlinked
        <5>5. node[u] # f
          BY <1>2, <1>4, <5>4 DEF Nodes
        <5> QED BY <1>4, <5>2, <5>3, <5>4, <5>5
      <4> QED BY <4>1, <4>2
    <3> QED BY <3>2, <3>3, <3>4
  <2>3. \A i \in 1..Len(out') : out'[i] \in Accepted'
    BY <1>1, <1>4, <1>8 DEF Contents
  <2> QED BY <2>1, <2>2, <2>3 DEF Contents
<1>11. InFlight' = InFlight
  <2>1. \A u \in Threads : qpc[u] = "d_take" => value'[nx[u]] = value[nx[u]]
    BY <1>1, <1>4, <1>7 DEF Contents
  <2> QED BY <1>3, <1>4, <2>1, InFlightStays
<1>12. Waiting' = Waiting
  <2>1. PICK h \in 1..Len(L) : L[h] = qhead
    BY <1>1, <1>3, HeadInChain
  <2>2. Waiting = [i \in 1..(Len(L) - h) |-> value[L[h + i]][1]]
    BY <1>1, <2>1, WaitingIs DEF WaitingInChain
  <2>3. L[h] = qhead'
    BY <1>4, <2>1
  <2>4. Waiting' = [i \in 1..(Len(L) - h) |-> value'[L[h + i]][1]]
    BY <1>5, <2>3, WaitingNext DEF WaitingInChain
  <2>5. \A i \in 1..(Len(L) - h) : value'[L[h + i]] = value[L[h + i]]
    <3>1. \A i \in 1..(Len(L) - h) : h + i \in 1..Len(L)
      BY <1>1, ChainFacts
    <3> QED BY <1>4, <1>6, <3>1
  <2> QED BY <2>2, <2>4, <2>5
<1> QED BY <1>4, <1>5, <1>10, <1>11, <1>12 DEF OrderInv, Items

(***************************************************************************)
(* The compare-exchange that links a node accepts its record.              *)
(***************************************************************************)

LEMMA LinkFacts ==
  ASSUME TypeOK, NEW t \in Threads, InQueue(t), EnqLinked(t)
  PROVE  /\ UNCHANGED <<qhead, value, out, pushed, node>>
         /\ Unlinked(t) /\ ~Unlinked(t)'
         /\ \A u \in Threads : Same(u) /\ Waits(u)
BY DEF InQueue, EnqLinked, Go, TypeOK, QueueTypeOK, Same, Waits, Unlinked

(* One more record at the end of the queue, younger than all of its thread. *)
LEMMA FirstOfConcat ==
  ASSUME NEW S, NEW r \in S, NEW w \in Seq(S)
  PROVE  LET q == <<r>> \o w IN q # <<>> /\ Head(q) = r /\ Tail(q) = w
<1> DEFINE q == <<r>> \o w
<1>1. /\ q \in Seq(S) /\ Len(q) = 1 + Len(w)
      /\ \A i \in 1..(1 + Len(w)) : q[i] = IF i <= 1 THEN r ELSE w[i - 1]
  <2>1. <<r>> \in Seq(S) /\ Len(<<r>>) = 1 /\ <<r>>[1] = r
    OBVIOUS
  <2> QED BY <2>1, ConcatProperties
<1> HIDE DEF q
<1>2. q # <<>>
  BY <1>1
<1>3. Tail(q) \in Seq(S) /\ Len(Tail(q)) = Len(w) /\ \A i \in 1..Len(w) : Tail(q)[i] = w[i]
  BY <1>1, <1>2, HeadTailProperties
<1>4. Tail(q) = w
  BY <1>3, SeqEqual
<1>5. Head(q) = r
  BY <1>1, <1>2
<1> QED BY <1>2, <1>4, <1>5 DEF q

LEMMA AppendToConcat ==
  ASSUME NEW S, NEW f \in Seq(S), NEW w \in Seq(S), NEW r \in S
  PROVE  f \o Append(w, r) = Append(f \o w, r)
<1>1. Append(w, r) = w \o <<r>> /\ <<r>> \in Seq(S) /\ f \o w \in Seq(S)
  BY AppendIsConcat
<1>2. Append(f \o w, r) = (f \o w) \o <<r>>
  BY <1>1, AppendIsConcat
<1> QED BY <1>1, <1>2, ConcatAssociative

LEMMA LinkKeeps ==
  ASSUME OrderInv, RingInv', NEW t \in Threads, InQueue(t), EnqLinked(t)
  PROVE  /\ OrderInv'
         /\ UNCHANGED out
         /\ Items' = Append(Items, <<t, pushed[t]>>)
         /\ <<t, pushed[t]>> \in Threads \X Nat
<1>1. PICK L : Chain(L) /\ Contents(L)
  BY DEF OrderInv
<1>2. PICK e, r : e = node[t] /\ r = <<t, pushed[t]>>
  OBVIOUS
<1>3. PICK N : N = Len(L)
  OBVIOUS
<1>4. PICK M : M = Append(L, e)
  OBVIOUS
<1>5. RingInv /\ TypeOK
  BY DEF OrderInv, RingInv
<1>6. Chain(M)'
  BY <1>1, <1>2, <1>4, <1>5, ChainGrows
<1>7. /\ UNCHANGED <<qhead, value, out, pushed, node>>
      /\ Unlinked(t) /\ ~Unlinked(t)'
      /\ \A u \in Threads : Same(u) /\ Waits(u)
  BY <1>5, LinkFacts
<1>8. /\ N \in Nat /\ L \in Seq(Nodes) /\ e \in Nodes
      /\ Len(M) = N + 1 /\ M[N + 1] = e /\ \A i \in 1..N : M[i] = L[i]
  <2>1. e \in Nodes
    BY <1>2, <1>5, <1>7 DEF RingInv, Enqueuers, Private, Unlinked
  <2>2. L \in Seq(Nodes) /\ N \in Nat
    BY <1>1, <1>3, ChainFacts DEF Chain
  <2> QED BY <1>3, <1>4, <2>1, <2>2, AppendProperties
<1>9. pushed[t] \in Nat /\ r \in Threads \X Nat
  <2>1. pushed[t] \in Nat
    BY <1>5, PushesAssumption DEF TypeOK
  <2> QED BY <1>2, <2>1
<1>10. Accepted \subseteq Accepted' /\ Carried \subseteq Carried'
  BY <1>7, AcceptedStays
<1>11. value[e] = <<r>> /\ r \in Accepted' /\ <<r>> \in Carried'
  <2>1. value[e] = <<r>>
    BY <1>1, <1>2, <1>7 DEF Contents
  <2>2. r \in Accepted'
    BY <1>2, <1>7, <1>9 DEF Accepted
  <2>3. <<r>> \in Seq(Threads \X Nat) /\ Len(<<r>>) = 1 /\ <<r>>[1] = r
    BY <1>9
  <2> QED BY <2>1, <2>2, <2>3 DEF Carried
<1>12. Contents(M)'
  <2>1. ASSUME NEW h \in 1..(N + 1), NEW i \in 1..(N + 1), M[h] = qhead', h < i
        PROVE  value'[M[i]] \in Carried'
    <3>1. h \in 1..N /\ L[h] = qhead
      BY <1>7, <1>8, <2>1
    <3>2. CASE i = N + 1
      BY <1>7, <1>8, <1>11, <3>2
    <3>3. CASE i # N + 1
      <4>1. i \in 1..N
        BY <1>8, <3>3
      <4> QED BY <1>1, <1>3, <1>7, <1>8, <1>10, <2>1, <3>1, <4>1 DEF Contents
    <3> QED BY <3>2, <3>3
  <2>2. ASSUME NEW u \in Threads
        PROVE  /\ Unlinked(u)' => value'[node'[u]] = <<<<u, pushed'[u]>>>>
               /\ qpc'[u] = "d_take" => nx'[u] = qhead' /\ value'[nx'[u]] \in Carried'
               /\ dpc'[u] = "ship" => ret'[u] \in Carried'
    <3>1. Same(u) /\ Waits(u)
      BY <1>7
    <3> QED BY <1>1, <1>7, <1>10, <3>1 DEF Contents, Same, Waits
  <2>3. \A i \in 1..Len(out') : out'[i] \in Accepted'
    BY <1>1, <1>7, <1>10 DEF Contents
  <2> QED BY <1>8, <2>1, <2>2, <2>3 DEF Contents
<1>13. InFlight' = InFlight
  BY <1>5, <1>7, InFlightStays
<1>14. Waiting' = Append(Waiting, r)
  <2>1. PICK h \in 1..N : L[h] = qhead
    BY <1>1, <1>3, <1>5, HeadInChain
  <2>2. Waiting = [i \in 1..(N - h) |-> value[L[h + i]][1]]
    BY <1>1, <1>3, <2>1, WaitingIs DEF WaitingInChain
  <2>3. h \in 1..Len(M) /\ M[h] = qhead'
    BY <1>7, <1>8, <2>1
  <2>4. Waiting' = [i \in 1..(N + 1 - h) |-> value'[M[h + i]][1]]
    <3>1. Waiting' = [i \in 1..(Len(M) - h) |-> value'[M[h + i]][1]]
      BY <1>6, <2>3, WaitingNext DEF WaitingInChain
    <3> QED BY <1>8, <3>1
  <2>5. PICK m : m = N - h
    OBVIOUS
  <2>6. m \in Nat /\ N + 1 - h = m + 1 /\ h + (m + 1) = N + 1
        /\ \A i \in 1..m : h + i \in 1..N
    <3>1. N \in Nat /\ h \in Nat /\ 1 <= h /\ h <= N
      BY <1>8, <2>1
    <3>2. m \in Nat /\ N + 1 - h = m + 1 /\ h + (m + 1) = N + 1
      BY <2>5, <3>1
    <3> QED BY <3>1, <3>2
  <2>7. Waiting' = [i \in 1..(m + 1) |-> IF i = m + 1 THEN r ELSE value[L[h + i]][1]]
    <3>1. \A i \in 1..(m + 1) :
            value'[M[h + i]][1] = IF i = m + 1 THEN r ELSE value[L[h + i]][1]
      <4>1. SUFFICES ASSUME NEW i \in 1..(m + 1)
                     PROVE  value'[M[h + i]][1] = IF i = m + 1 THEN r ELSE value[L[h + i]][1]
        OBVIOUS
      <4>2. CASE i = m + 1
        BY <1>7, <1>8, <1>11, <2>6, <4>2
      <4>3. CASE i # m + 1
        <5>1. i \in 1..m
          BY <2>6, <4>3
        <5> QED BY <1>7, <1>8, <2>6, <4>3, <5>1
      <4> QED BY <4>2, <4>3
    <3> QED BY <2>4, <2>6, <3>1
  <2>8. Waiting \in Seq(Threads \X Nat)
    BY <1>1, <1>5, Records
  <2>9. Len(Waiting) = m
    BY <2>2, <2>5, <2>6
  <2> QED BY <1>9, <2>2, <2>5, <2>6, <2>7, <2>8, <2>9
<1>15. Items' = Append(Items, r)
  <2>1. InFlight \in Seq(Threads \X Nat) /\ Waiting \in Seq(Threads \X Nat)
    BY <1>1, <1>5, Records
  <2>2. r \in Threads \X Nat
    BY <1>9
  <2>3. InFlight \o Append(Waiting, r) = Append(InFlight \o Waiting, r)
    BY <2>1, <2>2, AppendToConcat
  <2>4. Items' = InFlight' \o Waiting' /\ Items = InFlight \o Waiting
    BY DEF Items
  <2> QED BY <1>13, <1>14, <2>3, <2>4
<1> QED BY <1>2, <1>6, <1>7, <1>9, <1>12, <1>15 DEF OrderInv

(***************************************************************************)
(* Head moves over a node whose record the drainer then has in flight.     *)
(***************************************************************************)

LEMMA SwingFacts ==
  ASSUME RingInv, NEW t \in Threads, InQueue(t), DeqSwing(t)
  PROVE  /\ UNCHANGED <<link, value, out, pushed, nx, ret, dpc>>
         /\ qhead' = nx[t] /\ nx[t] = link[qhead] /\ nx[t] # Null
         /\ qpc'[t] = "d_take" /\ dpc[t] = "drain"
         /\ \A u \in Threads : qpc[u] # "d_take" /\ dpc[u] # "ship"
         /\ \A u \in Threads : Waits(u) /\ (u # t => qpc'[u] # "d_take") /\ dpc'[u] # "ship"
<1>1. qpc[t] = "d_swing" /\ TypeOK /\ Phases /\ Drainer
  BY DEF RingInv, DeqSwing, Go
<1>2. dpc[t] = "drain" /\ hd[t] = qhead /\ nx[t] = link[qhead] /\ nx[t] # Null
  BY <1>1 DEF Phases, Dequeuing, Drainer
<1>3. \A u \in Threads : qpc[u] # "d_take" /\ dpc[u] # "ship"
  <2>1. \A u \in Threads : qpc[u] = "d_take" \/ dpc[u] = "ship" => Holds(u)
    BY <1>1 DEF Phases, Dequeuing, Holds, Draining
  <2>2. Holds(t)
    BY <1>2 DEF Holds, Draining
  <2>3. \A u \in Threads : qpc[u] = "d_take" \/ dpc[u] = "ship" => u = t
    BY <2>1, <2>2 DEF RingInv, Locking
  <2> QED BY <1>1, <1>2, <2>3
<1> QED
  BY <1>1, <1>2, <1>3 DEF InQueue, DeqSwing, Go, TypeOK, QueueTypeOK, Waits, Unlinked

LEMMA SwingKeeps ==
  ASSUME OrderInv, RingInv', NEW t \in Threads, InQueue(t), DeqSwing(t)
  PROVE  OrderInv' /\ UNCHANGED <<Items, out>>
<1>1. PICK L : Chain(L) /\ Contents(L)
  BY DEF OrderInv
<1>2. PICK N, p : N = Len(L) /\ p = nx[t]
  OBVIOUS
<1>3. RingInv /\ TypeOK
  BY DEF OrderInv, RingInv
<1>4. /\ UNCHANGED <<link, value, out, pushed, nx, ret, dpc>>
      /\ qhead' = p /\ p = link[qhead] /\ p # Null
      /\ qpc'[t] = "d_take" /\ dpc[t] = "drain"
      /\ \A u \in Threads : qpc[u] # "d_take" /\ dpc[u] # "ship"
      /\ \A u \in Threads : Waits(u) /\ (u # t => qpc'[u] # "d_take") /\ dpc'[u] # "ship"
  BY <1>2, <1>3, SwingFacts
<1>5. PICK h \in 1..N : L[h] = qhead
  BY <1>1, <1>2, <1>3, HeadInChain
<1>6. N \in Nat /\ L \in Seq(Nodes) /\ \A i \in 1..N : L[i] \in Nodes
  BY <1>1, <1>2, ChainFacts DEF Chain
<1>7. h \in 1..(N - 1) /\ h + 1 \in 1..N /\ L[h + 1] = p
  <2>1. h # N
    BY <1>1, <1>2, <1>4, <1>5 DEF Chain
  <2>2. h \in 1..(N - 1) /\ h + 1 \in 1..N
    BY <1>6, <2>1
  <2> QED BY <1>1, <1>2, <1>4, <1>5, <2>2 DEF Chain
<1>8. \A i \in 1..N : L[i] = p => i = h + 1
  BY <1>1, <1>2, <1>7 DEF Chain
<1>9. Chain(L)'
  BY <1>1, <1>4, ChainStays
<1>10. Accepted \subseteq Accepted' /\ Carried \subseteq Carried'
  BY <1>4, AcceptedStays
<1>11. \A i \in 1..N : h < i => value[L[i]] \in Carried
  BY <1>1, <1>2, <1>5 DEF Contents
<1>12. value[p] \in Carried
  BY <1>6, <1>7, <1>11
<1>13. Contents(L)'
  <2>1. ASSUME NEW g \in 1..N, NEW i \in 1..N, L[g] = qhead', g < i
        PROVE  value'[L[i]] \in Carried'
    <3>1. g = h + 1 /\ h < i
      BY <1>4, <1>6, <1>8, <2>1
    <3> QED BY <1>4, <1>10, <1>11, <3>1
  <2>2. ASSUME NEW u \in Threads
        PROVE  /\ Unlinked(u)' => value'[node'[u]] = <<<<u, pushed'[u]>>>>
               /\ qpc'[u] = "d_take" => nx'[u] = qhead' /\ value'[nx'[u]] \in Carried'
               /\ dpc'[u] = "ship" => ret'[u] \in Carried'
    <3>1. Unlinked(u)' => value'[node'[u]] = <<<<u, pushed'[u]>>>>
      <4>1. Waits(u)
        BY <1>4
      <4> QED BY <1>1, <1>4, <4>1 DEF Contents, Waits
    <3>2. qpc'[u] = "d_take" => nx'[u] = qhead' /\ value'[nx'[u]] \in Carried'
      BY <1>2, <1>4, <1>10, <1>12
    <3> QED BY <1>4, <3>1, <3>2
  <2>3. \A i \in 1..Len(out') : out'[i] \in Accepted'
    BY <1>1, <1>4, <1>10 DEF Contents
  <2> QED BY <1>2, <2>1, <2>2, <2>3 DEF Contents
<1>14. Items' = Items
  <2>1. InFlight = <<>> /\ InFlight' = value[p]
    <3>1. InFlight = <<>>
      BY <1>3, <1>4, InFlightIs DEF InFlightAtDrainer
    <3>2. InFlight' = value'[nx'[t]]
      BY <1>4, InFlightNext DEF InFlightAtDrainer
    <3> QED BY <1>2, <1>4, <3>1, <3>2
  <2>2. PICK m : m = N - (h + 1)
    OBVIOUS
  <2>3. m \in Nat /\ N - h = m + 1 /\ \A i \in 1..m : (h + 1) + i = h + (i + 1)
    BY <1>6, <1>7, <2>2
  <2>4. Waiting = [i \in 1..(m + 1) |-> value[L[h + i]][1]]
    BY <1>1, <1>2, <1>5, <2>3, WaitingIs DEF WaitingInChain
  <2>5. Waiting' = [i \in 1..m |-> value[L[h + (i + 1)]][1]]
    <3>1. Waiting' = [i \in 1..m |-> value'[L[(h + 1) + i]][1]]
      BY <1>2, <1>4, <1>7, <1>9, <2>2, WaitingNext DEF WaitingInChain
    <3> QED BY <1>4, <2>3, <3>1
  <2>6. PICK r : value[p] = <<r>> /\ r = value[p][1] /\ r \in Threads \X Nat
    <3>1. value[p] \in Seq(Threads \X Nat) /\ Len(value[p]) = 1 /\ value[p][1] \in Threads \X Nat
      BY <1>12 DEF Carried, Accepted
    <3>2. value[p] = <<value[p][1]>>
      BY <3>1
    <3> QED BY <3>1, <3>2
  <2>7. Waiting[1] = r
    BY <1>7, <2>3, <2>4, <2>6
  <2>8. Waiting \in Seq(Threads \X Nat) /\ Waiting' \in Seq(Threads \X Nat)
    <3>1. Waiting \in Seq(Threads \X Nat)
      BY <1>1, <1>3, Records
    <3>2. Waiting' \in Seq(Threads \X Nat)
      <4>1. \A i \in 1..m : h + (i + 1) \in 1..N /\ h < h + (i + 1)
        BY <1>6, <1>7, <2>2
      <4>2. \A i \in 1..m : value[L[h + (i + 1)]][1] \in Threads \X Nat
        BY <1>11, <4>1 DEF Carried, Accepted
      <4> QED BY <2>3, <2>5, <4>2, IsASeq
    <3> QED BY <3>1, <3>2
  <2>9. Waiting = <<r>> \o Waiting'
    <3>1. Len(Waiting) = m + 1 /\ Len(Waiting') = m
      BY <2>3, <2>4, <2>5
    <3>2. \A i \in 1..(m + 1) : Waiting[i] = IF i <= 1 THEN r ELSE Waiting'[i - 1]
      <4>1. SUFFICES ASSUME NEW i \in 1..(m + 1), i > 1 PROVE Waiting[i] = Waiting'[i - 1]
        BY <2>7
      <4>2. i - 1 \in 1..m /\ (i - 1) + 1 = i
        BY <2>3, <4>1
      <4> QED BY <2>4, <2>5, <4>2
    <3>3. PICK W : W = Waiting'
      OBVIOUS
    <3> QED BY <2>3, <2>6, <2>8, <3>1, <3>2, <3>3
  <2> QED BY <2>1, <2>6, <2>8, <2>9 DEF Items
<1> QED BY <1>4, <1>9, <1>13, <1>14 DEF OrderInv

(* The value leaves the new sentinel for the drainer's hands.               *)
LEMMA TakeFacts ==
  ASSUME RingInv, NEW t \in Threads, GotItem(t)
  PROVE  /\ UNCHANGED <<qhead, link, out, pushed>>
         /\ \A n \in Nodes : n # nx[t] => value'[n] = value[n]
         /\ ret'[t] = value[nx[t]]
         /\ qpc[t] = "d_take" /\ dpc'[t] = "ship"
         /\ \A u \in Threads : Waits(u) /\ qpc'[u] # "d_take" /\ (u # t => dpc'[u] # "ship")
<1>1. qpc[t] = "d_take" /\ dpc[t] = "drain" /\ TypeOK /\ Phases
  BY DEF RingInv, GotItem, DeqTake, Move
<1>2. \A u \in Threads : u # t => qpc[u] # "d_take" /\ dpc[u] # "ship"
  <2>1. \A u \in Threads : qpc[u] = "d_take" \/ dpc[u] = "ship" => Holds(u)
    BY <1>1 DEF Phases, Dequeuing, Holds, Draining
  <2>2. Holds(t)
    BY <1>1 DEF Holds, Draining
  <2> QED BY <2>1, <2>2 DEF RingInv, Locking
<1> QED
  BY <1>1, <1>2 DEF GotItem, DeqTake, Leave, Go, Move, TypeOK, QueueTypeOK, Waits, Unlinked

LEMMA TakeKeeps ==
  ASSUME OrderInv, RingInv', NEW t \in Threads, GotItem(t)
  PROVE  OrderInv' /\ UNCHANGED <<Items, out>>
<1>1. PICK L : Chain(L) /\ Contents(L)
  BY DEF OrderInv
<1>2. PICK N : N = Len(L)
  OBVIOUS
<1>3. RingInv /\ TypeOK /\ Enqueuers /\ Linked(qhead)
  BY DEF OrderInv, RingInv, List
<1>4. /\ UNCHANGED <<qhead, link, out, pushed>>
      /\ nx[t] = qhead /\ value[qhead] \in Carried
      /\ \A n \in Nodes : n # qhead => value'[n] = value[n]
      /\ ret'[t] = value[qhead]
      /\ qpc[t] = "d_take" /\ dpc'[t] = "ship"
      /\ \A u \in Threads : Waits(u) /\ qpc'[u] # "d_take" /\ (u # t => dpc'[u] # "ship")
  BY <1>1, <1>3, TakeFacts DEF Contents
<1>5. PICK h \in 1..N : L[h] = qhead
  BY <1>1, <1>2, <1>3, HeadInChain
<1>6. N \in Nat /\ L \in Seq(Nodes) /\ \A i \in 1..N : L[i] \in Nodes
  BY <1>1, <1>2, ChainFacts DEF Chain
<1>7. \A i \in 1..N : L[i] = qhead => i = h
  BY <1>1, <1>2, <1>5 DEF Chain
<1>8. Chain(L)'
  BY <1>1, <1>4, ChainStays
<1>9. Accepted \subseteq Accepted' /\ Carried \subseteq Carried'
  BY <1>4, AcceptedStays
<1>10. \A i \in 1..N : h < i => value[L[i]] \in Carried /\ value'[L[i]] = value[L[i]]
  <2> SUFFICES ASSUME NEW i \in 1..N, h < i
               PROVE  value[L[i]] \in Carried /\ value'[L[i]] = value[L[i]]
    OBVIOUS
  <2>1. value[L[i]] \in Carried
    BY <1>1, <1>2, <1>5 DEF Contents
  <2>2. L[i] # qhead
    BY <1>6, <1>7
  <2> QED BY <1>4, <1>6, <2>1, <2>2
<1>11. Contents(L)'
  <2>1. ASSUME NEW g \in 1..N, NEW i \in 1..N, L[g] = qhead', g < i
        PROVE  value'[L[i]] \in Carried'
    <3>1. g = h
      BY <1>4, <1>7, <2>1
    <3> QED BY <1>9, <1>10, <2>1, <3>1
  <2>2. ASSUME NEW u \in Threads
        PROVE  /\ Unlinked(u)' => value'[node'[u]] = <<<<u, pushed'[u]>>>>
               /\ qpc'[u] = "d_take" => nx'[u] = qhead' /\ value'[nx'[u]] \in Carried'
               /\ dpc'[u] = "ship" => ret'[u] \in Carried'
    <3>1. Unlinked(u)' => value'[node'[u]] = <<<<u, pushed'[u]>>>>
      <4>1. SUFFICES ASSUME Unlinked(u)' PROVE value'[node'[u]] = <<<<u, pushed'[u]>>>>
        OBVIOUS
      <4>2. Unlinked(u) /\ node'[u] = node[u] /\ pushed'[u] = pushed[u]
        BY <1>4, <4>1 DEF Waits
      <4>3. value[node[u]] = <<<<u, pushed[u]>>>>
        BY <1>1, <4>2 DEF Contents
      <4>4. node[u] \in Nodes /\ ~Linked(node[u])
        BY <1>3, <4>2 DEF Enqueuers, Private, Unlinked
      <4>5. value'[node[u]] = value[node[u]]
        BY <1>3, <1>4, <4>4
      <4> QED BY <4>2, <4>3, <4>5
    <3>2. dpc'[u] = "ship" => ret'[u] \in Carried'
      BY <1>4, <1>9
    <3> QED BY <1>4, <3>1, <3>2
  <2>3. \A i \in 1..Len(out') : out'[i] \in Accepted'
    BY <1>1, <1>4, <1>9 DEF Contents
  <2> QED BY <1>2, <2>1, <2>2, <2>3 DEF Contents
<1>12. InFlight' = InFlight
  <2>1. InFlight = value[qhead]
    BY <1>3, <1>4, InFlightIs DEF InFlightAtDrainer
  <2>2. InFlight' = ret'[t]
    BY <1>4, InFlightNext DEF InFlightAtDrainer
  <2> QED BY <1>4, <2>1, <2>2
<1>13. Waiting' = Waiting
  <2>1. Waiting = [i \in 1..(N - h) |-> value[L[h + i]][1]]
    BY <1>1, <1>2, <1>5, WaitingIs DEF WaitingInChain
  <2>2. Waiting' = [i \in 1..(N - h) |-> value'[L[h + i]][1]]
    BY <1>2, <1>4, <1>5, <1>8, WaitingNext DEF WaitingInChain
  <2>3. \A i \in 1..(N - h) : h + i \in 1..N /\ h < h + i
    BY <1>6
  <2> QED BY <1>10, <2>1, <2>2, <2>3
<1> QED BY <1>4, <1>8, <1>11, <1>12, <1>13 DEF OrderInv, Items

(***************************************************************************)
(* inner.transaction delivers the oldest record or drops it.               *)
(***************************************************************************)

LEMMA ShipFacts ==
  ASSUME RingInv, NEW t \in Threads, Ship(t)
  PROVE  /\ UNCHANGED <<qhead, link, value, pushed>>
         /\ out' = out \o ret[t] \/ out' = out
         /\ dpc[t] = "ship"
         /\ \A u \in Threads : Waits(u) /\ qpc'[u] # "d_take" /\ dpc'[u] # "ship"
<1>1. dpc[t] = "ship" /\ TypeOK /\ Phases
  BY DEF RingInv, Ship, Move
<1>2. \A u \in Threads : qpc[u] # "d_take" /\ (u # t => dpc[u] # "ship")
  <2>1. \A u \in Threads : qpc[u] = "d_take" \/ dpc[u] = "ship" => Holds(u)
    BY <1>1 DEF Phases, Dequeuing, Holds, Draining
  <2>2. Holds(t)
    BY <1>1 DEF Holds, Draining
  <2>3. \A u \in Threads : qpc[u] = "d_take" \/ dpc[u] = "ship" => u = t
    BY <2>1, <2>2 DEF RingInv, Locking
  <2>4. qpc[t] # "d_take"
    BY <1>1 DEF Phases, Dequeuing
  <2> QED BY <2>3, <2>4
<1> QED BY <1>1, <1>2 DEF Ship, Move, TypeOK, QueueTypeOK, Waits, Unlinked

LEMMA ShipKeeps ==
  ASSUME OrderInv, RingInv', NEW t \in Threads, Ship(t)
  PROVE  /\ OrderInv'
         /\ Items # <<>> /\ Items' = Tail(Items)
         /\ out' = Append(out, Head(Items)) \/ out' = out
<1>1. PICK L : Chain(L) /\ Contents(L)
  BY DEF OrderInv
<1>2. PICK r : r = ret[t][1]
  OBVIOUS
<1>3. RingInv /\ TypeOK
  BY DEF OrderInv, RingInv
<1>4. /\ UNCHANGED <<qhead, link, value, pushed>>
      /\ out' = out \o ret[t] \/ out' = out
      /\ dpc[t] = "ship"
      /\ \A u \in Threads : Waits(u) /\ qpc'[u] # "d_take" /\ dpc'[u] # "ship"
  BY <1>3, ShipFacts
<1>5. ret[t] = <<r>> /\ r \in Accepted /\ r \in Threads \X Nat
  <2>1. ret[t] \in Carried
    BY <1>1, <1>4 DEF Contents
  <2>2. ret[t] \in Seq(Threads \X Nat) /\ Len(ret[t]) = 1 /\ r \in Accepted
    BY <1>2, <2>1 DEF Carried
  <2>3. ret[t] = <<ret[t][1]>>
    BY <2>2
  <2> QED BY <1>2, <2>2, <2>3 DEF Accepted
<1>6. out \in Seq(Threads \X Nat) /\ Waiting \in Seq(Threads \X Nat)
      /\ \A i \in 1..Len(out) : out[i] \in Accepted
  BY <1>1, <1>3, Records
<1>7. out' = Append(out, r) \/ out' = out
  BY <1>4, <1>5, <1>6, AppendIsConcat
<1>8. Chain(L)'
  BY <1>1, <1>4, ChainStays
<1>9. Accepted \subseteq Accepted' /\ Carried \subseteq Carried'
  BY <1>4, AcceptedStays
<1>10. Contents(L)'
  <2>1. \A h, i \in 1..Len(L) : L[h] = qhead' /\ h < i => value'[L[i]] \in Carried'
    BY <1>1, <1>4, <1>9 DEF Contents
  <2>2. ASSUME NEW u \in Threads
        PROVE  /\ Unlinked(u)' => value'[node'[u]] = <<<<u, pushed'[u]>>>>
               /\ qpc'[u] = "d_take" => nx'[u] = qhead' /\ value'[nx'[u]] \in Carried'
               /\ dpc'[u] = "ship" => ret'[u] \in Carried'
    <3>1. Waits(u)
      BY <1>4
    <3> QED BY <1>1, <1>4, <3>1 DEF Contents, Waits
  <2>3. \A i \in 1..Len(out') : out'[i] \in Accepted'
    <3>1. CASE out' = out
      BY <1>6, <1>9, <3>1
    <3>2. CASE out' = Append(out, r)
      <4>1. Len(out') = Len(out) + 1 /\ Len(out) \in Nat
        BY <1>5, <1>6, <3>2
      <4>2. \A i \in 1..(Len(out) + 1) :
              IF i = Len(out) + 1 THEN out'[i] = r ELSE i \in 1..Len(out) /\ out'[i] = out[i]
        BY <1>5, <1>6, <3>2
      <4> QED BY <1>5, <1>6, <1>9, <4>1, <4>2
    <3> QED BY <1>7, <3>1, <3>2
  <2> QED BY <2>1, <2>2, <2>3 DEF Contents
<1>11. InFlight = <<r>> /\ InFlight' = <<>>
  <2>1. InFlight = ret[t]
    BY <1>3, <1>4, InFlightIs DEF InFlightAtDrainer
  <2>2. InFlight' = <<>>
    BY <1>4, InFlightNext DEF InFlightAtDrainer
  <2> QED BY <1>5, <2>1, <2>2
<1>12. Waiting' = Waiting
  <2>1. After' = After
    BY <1>4 DEF After
  <2> QED BY <1>4, <2>1 DEF Waiting, Queued
<1>13. Items = <<r>> \o Waiting /\ Items' = Waiting
  BY <1>6, <1>11, <1>12 DEF Items
<1>14. Items # <<>> /\ Head(Items) = r /\ Tail(Items) = Waiting
  <2>1. Waiting \in Seq(Threads \X Nat) /\ r \in Threads \X Nat
    BY <1>5, <1>6
  <2> QED BY <1>13, <2>1, FirstOfConcat
<1> QED BY <1>7, <1>8, <1>10, <1>13, <1>14 DEF OrderInv

(***************************************************************************)
(* The refinement.                                                         *)
(***************************************************************************)

LEMMA InitOrder == Init => OrderInv
<1> SUFFICES ASSUME Init PROVE OrderInv
  OBVIOUS
<1>1. RingInv
  BY InitInv
<1>2. PICK L : Chain(L)
  BY InitChain DEF ChainInv
<1>3. \A n \in Nodes : link[n] = Null
  BY DEF Init, QueueInit
<1>4. Len(L) \in Nat /\ \A i \in 1..Len(L) : L[i] # Null
  BY <1>2, ChainFacts
<1>5. Len(L) = 1
  <2>1. SUFFICES ASSUME Len(L) # 1 PROVE FALSE
    OBVIOUS
  <2>2. 1 \in 1..(Len(L) - 1) /\ 1 + 1 \in 1..Len(L)
    <3>1. PICK n : n = Len(L)
      OBVIOUS
    <3>2. n \in Nat /\ n >= 1 /\ n # 1
      BY <1>2, <2>1, <3>1, ChainFacts
    <3>3. 1 \in 1..(n - 1) /\ 1 + 1 \in 1..n
      BY <3>2
    <3> QED BY <3>1, <3>3
  <2>3. link[L[1]] = L[1 + 1] /\ L[1] = 1
    BY <1>2, <2>2 DEF Chain
  <2>4. 1 \in Nodes
    BY MaxNodesAssumption DEF Nodes
  <2> QED BY <1>3, <1>4, <2>2, <2>3, <2>4
<1>6. Contents(L)
  <2>1. \A h, i \in 1..Len(L) : ~(h < i)
    BY <1>5
  <2>2. \A t \in Threads : qpc[t] = "out" /\ dpc[t] = "idle"
    BY DEF Init, QueueInit
  <2>3. Len(out) = 0
    BY DEF Init
  <2> QED BY <2>1, <2>2, <2>3 DEF Contents, Unlinked
<1> QED BY <1>1, <1>2, <1>6 DEF OrderInv

LEMMA InitMaps == Init => Queue!Init
<1> SUFFICES ASSUME Init PROVE Queue!Init
  OBVIOUS
<1>1. RingInv /\ \E L : Chain(L) /\ Contents(L)
  BY InitOrder DEF OrderInv
<1>2. InFlight = <<>>
  BY <1>1, InFlightIs DEF InFlightAtDrainer, Init, QueueInit
<1>3. After[qhead] = <<>>
  <2>1. PICK L : Chain(L)
    BY <1>1
  <2>2. After = AfterBody(After)
    BY <2>1, AfterUnfolds
  <2>3. qhead \in 0..MaxNodes /\ link[qhead] = Null
    BY MaxNodesAssumption DEF Init, QueueInit, Nodes
  <2> QED BY <2>2, <2>3 DEF AfterBody
<1>4. Waiting = <<>>
  BY <1>3 DEF Waiting, Queued
<1>5. Items = <<>> /\ out = <<>>
  BY <1>2, <1>4 DEF Items, Init
<1> QED BY <1>5 DEF Queue!Init, Items, Waiting

LEMMA LinkAccepts ==
  ASSUME OrderInv, RingInv', NEW t \in Threads, InQueue(t), EnqLinked(t)
  PROVE  Queue!Accept
<1>1. PICK L : Chain(L) /\ Contents(L)
  BY DEF OrderInv
<1>2. PICK r, I, J : r = <<t, pushed[t]>> /\ I = Items /\ J = Items'
  OBVIOUS
<1>3. UNCHANGED out /\ J = Append(I, r) /\ r \in Threads \X Nat
  BY <1>2, LinkKeeps
<1>4. /\ InFlight \in Seq(Threads \X Nat) /\ Waiting \in Seq(Threads \X Nat)
      /\ \A i \in 1..Len(InFlight) : InFlight[i] \in Accepted
      /\ \A i \in 1..Len(Waiting) : Waiting[i] \in Accepted
      /\ out \in Seq(Threads \X Nat)
      /\ \A i \in 1..Len(out) : out[i] \in Accepted
  BY <1>1, Records DEF OrderInv
<1>5. I \in Seq(Threads \X Nat) /\ \A i \in 1..Len(I) : I[i] \in Accepted
  <2>1. /\ I \in Seq(Threads \X Nat)
        /\ Len(I) = Len(InFlight) + Len(Waiting)
        /\ \A i \in 1..(Len(InFlight) + Len(Waiting)) :
             I[i] = IF i <= Len(InFlight) THEN InFlight[i] ELSE Waiting[i - Len(InFlight)]
    BY <1>2, <1>4, ConcatProperties DEF Items
  <2>2. Len(InFlight) \in Nat /\ Len(Waiting) \in Nat
    BY <1>4
  <2>3. ASSUME NEW i \in 1..Len(I) PROVE I[i] \in Accepted
    <3>1. CASE i <= Len(InFlight)
      <4>1. i \in 1..(Len(InFlight) + Len(Waiting)) /\ i \in 1..Len(InFlight)
        BY <2>1, <2>2, <3>1
      <4>2. I[i] = InFlight[i]
        BY <2>1, <3>1, <4>1
      <4> QED BY <1>4, <4>1, <4>2
    <3>2. CASE ~(i <= Len(InFlight))
      <4>1. PICK k \in 1..Len(Waiting) : k = i - Len(InFlight)
        <5>1. i - Len(InFlight) \in 1..Len(Waiting)
          BY <2>1, <2>2, <3>2
        <5> QED BY <5>1
      <4>2. i \in 1..(Len(InFlight) + Len(Waiting))
        BY <2>1
      <4>3. I[i] = Waiting[k]
        BY <2>1, <3>2, <4>1, <4>2
      <4> QED BY <1>4, <4>1, <4>3
    <3> QED BY <3>1, <3>2
  <2> QED BY <2>1, <2>3
<1>6. Len(J) = Len(I) + 1 /\ SubSeq(J, 1, Len(J) - 1) = I /\ J[Len(J)] = r
  <2>1. /\ J \in Seq(Threads \X Nat) /\ Len(J) = Len(I) + 1 /\ Len(I) \in Nat
        /\ J[Len(I) + 1] = r /\ \A i \in 1..Len(I) : J[i] = I[i]
    BY <1>3, <1>5, AppendProperties
  <2>2. Len(J) - 1 = Len(I)
    BY <2>1
  <2>3. PICK K : K = SubSeq(J, 1, Len(I))
    OBVIOUS
  <2>4. K \in Seq(Threads \X Nat) /\ Len(K) = Len(I) /\ \A i \in 1..Len(I) : K[i] = J[i]
    <3>1. \A i \in 1..Len(I) : J[i] \in Threads \X Nat
      BY <2>1
    <3>2. /\ K \in Seq(Threads \X Nat)
          /\ Len(K) = IF 1 <= Len(I) THEN Len(I) - 1 + 1 ELSE 0
          /\ \A i \in 1..(Len(I) - 1 + 1) : K[i] = J[1 + i - 1]
      BY <2>1, <2>3, <3>1, SubSeqProperties
    <3>3. Len(I) - 1 + 1 = Len(I) /\ \A i \in 1..Len(I) : 1 + i - 1 = i
      BY <2>1
    <3> QED BY <2>1, <3>2, <3>3
  <2>5. K = I
    BY <1>5, <2>1, <2>4, SeqEqual
  <2> QED BY <2>1, <2>2, <2>3, <2>5
<1>7. \A q \in Accepted : q[1] = r[1] => q[2] < r[2]
  <2>1. TypeOK
    BY DEF OrderInv, RingInv
  <2>2. Unlinked(t)
    BY <2>1, LinkFacts
  <2>3. r[1] = t /\ r[2] = pushed[t]
    BY <1>2
  <2> QED BY <2>2, <2>3 DEF Accepted
<1>8. \A q \in {I[i] : i \in DOMAIN I} \cup {out[i] : i \in DOMAIN out} :
        q[1] = r[1] => q[2] < r[2]
  <2>1. DOMAIN I = 1..Len(I) /\ DOMAIN out = 1..Len(out)
    BY <1>4, <1>5, LenProperties
  <2> QED BY <1>4, <1>5, <1>7, <2>1
<1> HIDE DEF Items
<1>9. /\ Len(Items') = Len(Items) + 1 /\ SubSeq(Items', 1, Len(Items') - 1) = Items
      /\ \A q \in {Items[i] : i \in DOMAIN Items} \cup {out[i] : i \in DOMAIN out} :
           q[1] = Items'[Len(Items')][1] => q[2] < Items'[Len(Items')][2]
      /\ UNCHANGED out
  BY <1>2, <1>3, <1>6, <1>8
<1> QED BY <1>9 DEF Queue!Accept, Queue!Front, Queue!Last, Queue!ToSet, Items, Waiting

LEMMA ShipDelivers ==
  ASSUME OrderInv, RingInv', NEW t \in Threads, Ship(t)
  PROVE  Queue!Deliver \/ Queue!Drop
<1>1. /\ Items # <<>> /\ Items' = Tail(Items)
      /\ out' = Append(out, Head(Items)) \/ out' = out
  BY ShipKeeps
<1> QED BY <1>1 DEF Queue!Deliver, Queue!Drop, Items, Waiting

\* What the mapping lets change.
queueView == <<Items, out>>

LEMMA StepMaps ==
  ASSUME OrderInv, [Next]_vars
  PROVE  OrderInv' /\ (Queue!Next \/ UNCHANGED queueView)
<1>1. RingInv' /\ TypeOK /\ Phases
  BY NextInv DEF OrderInv, RingInv
<1>2. CASE Calm
  BY <1>1, <1>2, CalmKeeps DEF queueView
<1>3. ASSUME NEW t \in Threads, Push(t)
      PROVE  OrderInv' /\ (Queue!Next \/ UNCHANGED queueView)
  BY <1>1, <1>3, PushKeeps DEF queueView
<1>4. ASSUME NEW t \in Threads, InQueue(t), EnqLinked(t)
      PROVE  OrderInv' /\ (Queue!Next \/ UNCHANGED queueView)
  BY <1>1, <1>4, LinkKeeps, LinkAccepts DEF Queue!Next
<1>5. ASSUME NEW t \in Threads, InQueue(t), DeqSwing(t)
      PROVE  OrderInv' /\ (Queue!Next \/ UNCHANGED queueView)
  BY <1>1, <1>5, SwingKeeps DEF queueView
<1>6. ASSUME NEW t \in Threads, GotItem(t)
      PROVE  OrderInv' /\ (Queue!Next \/ UNCHANGED queueView)
  BY <1>1, <1>6, TakeKeeps DEF queueView
<1>7. ASSUME NEW t \in Threads, Ship(t)
      PROVE  OrderInv' /\ (Queue!Next \/ UNCHANGED queueView)
  BY <1>1, <1>7, ShipKeeps, ShipDelivers DEF Queue!Next
<1>8. CASE UNCHANGED vars
  <2>1. Calm
    BY <1>8 DEF vars, queueVars, Calm, Same, Waits, Unlinked
  <2> QED BY <1>2, <2>1
<1>9. CASE Next
  BY <1>1, <1>2, <1>3, <1>4, <1>5, <1>6, <1>7, <1>9, CalmStep
<1> QED BY <1>8, <1>9

(* locked_ring.rs: for any number of threads and nodes, what the lock-free  *)
(* queue and the inner ring do together is what the record queue allows:    *)
(* each record linked leaves once, in the order of linking, and the records *)
(* of one thread keep their order.                                          *)
THEOREM RingIsAQueue == Spec => ImplementsQueue
<1>1. Init => OrderInv /\ Queue!Init
  BY InitOrder, InitMaps
<1>2. OrderInv /\ [Next]_vars
        => OrderInv' /\ [Queue!Next]_<<InFlight \o [i \in DOMAIN Queued |-> Queued[i][1]], out>>
  BY StepMaps DEF queueView, Items, Waiting
<1> QED BY <1>1, <1>2, PTL DEF Spec, ImplementsQueue, Queue!Spec
==============================================================================
