----------------------------- MODULE FileTx_proofs -----------------------------
(* Proofs about module FileTx, for any threads, ring and bound. *)
EXTENDS FileTx, TLAPS

(* Every slot the tail has passed holds an event of some transaction. *)
SlotsAreEvents == \A i \in 0..(Slots - 1) : i < tail => slot[i].tx # 0

(* While the client works on an event, it is one of a transaction; before   *)
(* the callback it is the first unread one, after it a decision is taken.   *)
ClientHasEvent ==
  /\ cpc # "poll" => ctx # 0
  /\ cpc = "callback" => cpos = head /\ head < tail
  /\ cpc \in {"write", "send"} => chosen[ctx] # "none"

TxInv ==
  /\ TypeOK
  /\ SlotsAreEvents
  /\ ClientHasEvent
  /\ \A t \in Ops : opc[t] # "idle" => tx[t] # 0
  /\ TrackerPointsToWaiters
  /\ WokenByOwnDecision

LEMMA SlotInRange ==
  ASSUME NEW n \in Nat
  PROVE  Slot(n) \in 0..(Slots - 1) /\ Slot(n) <= n /\ (n < Slots => Slot(n) = n)
BY SlotsAssumption DEF Slot

LEMMA InitTx == Init => TxInv
BY SlotsAssumption, DefaultAssumption
DEF Init, TxInv, TypeOK, SlotsAreEvents, ClientHasEvent, TrackerPointsToWaiters,
    WokenByOwnDecision, Txs, Choices

(* A step of a thread in minifilter_pre_op. *)
LEMMA OpKeepsTx ==
  ASSUME TxInv, NEW t \in Ops, Begin(t) \/ OpStep(t)
  PROVE  TxInv'
<1> USE SlotsAssumption DEF TxInv, TypeOK, Move, clientVars
<1>1. CASE Begin(t)
  BY <1>1 DEF Begin, SlotsAreEvents, ClientHasEvent, TrackerPointsToWaiters, WokenByOwnDecision
<1>2. CASE PushEvent(t)
  <2>1. Slot(tail) \in 0..(Slots - 1) /\ tx[t] \in 1..MaxTx
    BY <1>2, SlotInRange DEF PushEvent
  <2>2. /\ slot' \in [0..(Slots - 1) -> [tx : 0..MaxTx, decision : Choices]]
        /\ slot'[Slot(tail)].tx = tx[t]
        /\ \A i \in 0..(Slots - 1) : i # Slot(tail) => slot'[i] = slot[i]
    <3>1. [tx |-> tx[t], decision |-> "allow"] \in [tx : 0..MaxTx, decision : Choices]
      BY <2>1 DEF Choices
    <3>2. slot' = [slot EXCEPT ![Slot(tail)] = [tx |-> tx[t], decision |-> "allow"]]
      BY <1>2 DEF PushEvent
    <3> QED
      BY <2>1, <3>1, <3>2
  <2>3. TypeOK'
    BY <1>2, <2>2 DEF PushEvent
  <2>4. SlotsAreEvents'
    <3>1. tail' = tail + 1 /\ tail \in Nat
      BY <1>2 DEF PushEvent
    <3>2. ASSUME NEW i \in 0..(Slots - 1), i < tail + 1 PROVE slot'[i].tx # 0
      <4>1. CASE i = Slot(tail)
        BY <4>1, <2>1, <2>2
      <4>2. CASE i # Slot(tail)
        <5>1. i # tail
          BY <4>2, <3>1, SlotInRange
        <5> QED
          BY <5>1, <4>2, <3>1, <3>2, <2>2 DEF SlotsAreEvents
      <4> QED
        BY <4>1, <4>2
    <3> QED
      BY <3>1, <3>2 DEF SlotsAreEvents
  <2> QED
    BY <1>2, <2>3, <2>4 DEF PushEvent, ClientHasEvent, TrackerPointsToWaiters, WokenByOwnDecision
<1>3. CASE PushFails(t)
  BY <1>3 DEF PushFails, Leave, Choices, SlotsAreEvents, ClientHasEvent, TrackerPointsToWaiters, WokenByOwnDecision
<1>4. CASE AddTx(t)
  BY <1>4 DEF AddTx, SlotsAreEvents, ClientHasEvent, TrackerPointsToWaiters, WokenByOwnDecision
<1>5. CASE Woken(t)
  BY <1>5 DEF Woken, SlotsAreEvents, ClientHasEvent, TrackerPointsToWaiters, WokenByOwnDecision
<1>6. CASE TimesOut(t)
  BY <1>6 DEF TimesOut, SlotsAreEvents, ClientHasEvent, TrackerPointsToWaiters, WokenByOwnDecision
<1>7. CASE RemoveTx(t)
  BY <1>7 DEF RemoveTx, SlotsAreEvents, ClientHasEvent, TrackerPointsToWaiters, WokenByOwnDecision
<1>8. CASE ReadBack(t)
  <2>1. slot[Slot(pos[t])].decision \in Choices
    BY SlotInRange
  <2> QED
    BY <1>8, <2>1 DEF ReadBack, SlotsAreEvents, ClientHasEvent, TrackerPointsToWaiters,
                      WokenByOwnDecision
<1>9. CASE Finish(t)
  BY <1>9 DEF Finish, Leave, Choices, SlotsAreEvents, ClientHasEvent, TrackerPointsToWaiters, WokenByOwnDecision
<1> QED
  BY <1>1, <1>2, <1>3, <1>4, <1>5, <1>6, <1>7, <1>8, <1>9 DEF OpStep

(* Writing into the record at cpos keeps the ring one of events. *)
LEMMA DecisionWritten ==
  ASSUME TxInv, ctx # 0, NEW c \in Choices, tail' = tail,
         slot' = [slot EXCEPT ![Slot(cpos)] = [tx |-> ctx, decision |-> c]]
  PROVE  /\ slot' \in [0..(Slots - 1) -> [tx : 0..MaxTx, decision : Choices]]
         /\ SlotsAreEvents'
<1>1. Slot(cpos) \in 0..(Slots - 1) /\ ctx \in 0..MaxTx
  BY SlotInRange DEF TxInv, TypeOK
<1>2. \A i \in 0..(Slots - 1) : slot'[i] = IF i = Slot(cpos) THEN [tx |-> ctx, decision |-> c]
                                                             ELSE slot[i]
  BY <1>1 DEF TxInv, TypeOK
<1> QED
  BY <1>1, <1>2 DEF TxInv, TypeOK, SlotsAreEvents

(* A decision taken is never taken back, and the client's step leaves the   *)
(* threads where they are.                                                  *)
LEMMA Decided ==
  ASSUME TxInv, NEW c \in Choices, Callback(c) \/ CallbackSets(c)
  PROVE  /\ chosen' \in [Txs -> Choices \cup {"none"}] /\ chosen'[ctx] = c /\ c # "none"
         /\ \A t \in Ops : opc[t] # "idle" /\ chosen[tx[t]] # "none" => chosen'[tx[t]] # "none"
         /\ head' \in Nat /\ tail - head' \in 0..Slots
<1>1. cpc = "callback" /\ head' = cpos + 1 /\ chosen' = [chosen EXCEPT ![ctx] = c]
  BY DEF Callback, CallbackSets, Client
<1>2. ctx \in Txs /\ c # "none"
  BY <1>1 DEF TxInv, TypeOK, ClientHasEvent, Txs, Choices
<1>3. \A t \in Ops : opc[t] # "idle" => tx[t] \in Txs
  BY DEF TxInv, TypeOK, Txs
<1> QED
  BY <1>1, <1>2, <1>3, SlotsAssumption DEF TxInv, TypeOK, ClientHasEvent

(* A step of poll_file_events. *)
LEMMA ClientKeepsTx ==
  ASSUME TxInv, ClientStep
  PROVE  TxInv'
<1> USE SlotsAssumption DEF TxInv, TypeOK, Client, opVars
<1>1. CASE NextEvent
  <2>1. Slot(head) \in 0..(Slots - 1) /\ Slot(head) <= head
    BY SlotInRange
  <2>2. slot[Slot(head)].tx \in 1..MaxTx
    BY <1>1, <2>1 DEF NextEvent, SlotsAreEvents
  <2> QED
    BY <1>1, <2>2 DEF NextEvent, SlotsAreEvents, ClientHasEvent, TrackerPointsToWaiters,
                      WokenByOwnDecision
<1>2. ASSUME NEW c \in Choices, Callback(c) PROVE TxInv'
  <2>1. TypeOK'
    BY <1>2, Decided DEF Callback
  <2>2. SlotsAreEvents' /\ ClientHasEvent' /\ TrackerPointsToWaiters'
    BY <1>2, Decided DEF Callback, SlotsAreEvents, ClientHasEvent, TrackerPointsToWaiters
  <2>3. WokenByOwnDecision'
    BY <1>2, Decided DEF Callback, WokenByOwnDecision
  <2> QED
    BY <1>2, <2>1, <2>2, <2>3 DEF Callback
<1>3. ASSUME NEW c \in Choices, CallbackSets(c) PROVE TxInv'
  <2>0. ctx # 0 /\ tail' = tail
    BY <1>3 DEF CallbackSets, ClientHasEvent
  <2>1. TypeOK'
    BY <1>3, <2>0, Decided, DecisionWritten DEF CallbackSets, Choices
  <2>2. SlotsAreEvents'
    BY <1>3, <2>0, DecisionWritten DEF CallbackSets
  <2>3. ClientHasEvent' /\ TrackerPointsToWaiters'
    BY <1>3, Decided DEF CallbackSets, ClientHasEvent, TrackerPointsToWaiters
  <2>4. WokenByOwnDecision'
    BY <1>3, Decided DEF CallbackSets, WokenByOwnDecision
  <2> QED
    BY <1>3, <2>1, <2>2, <2>3, <2>4 DEF CallbackSets
<1>4. CASE WriteDecision
  <2>0. ctx # 0 /\ tail' = tail
    BY <1>4 DEF WriteDecision, ClientHasEvent
  <2>1. TypeOK' /\ SlotsAreEvents'
    BY <1>4, <2>0, DecisionWritten DEF WriteDecision
  <2> QED
    BY <1>4, <2>1 DEF WriteDecision, ClientHasEvent, TrackerPointsToWaiters, WokenByOwnDecision
<1>5. CASE SendDecision
  <2>1. PICK t \in tracker : tx[t] = ctx /\ signalled' = signalled \cup {t}
    BY <1>5 DEF SendDecision
  <2>2. chosen[ctx] # "none" /\ t \in Ops
    BY <1>5, <2>1 DEF SendDecision, Again, ClientHasEvent
  <2>3. WokenByOwnDecision'
    BY <1>5, <2>1, <2>2 DEF SendDecision, Again, WokenByOwnDecision
  <2> QED
    BY <1>5, <2>1, <2>2, <2>3 DEF SendDecision, Again, Choices, SlotsAreEvents, ClientHasEvent,
                                  TrackerPointsToWaiters
<1>6. CASE SendNotFound
  BY <1>6 DEF SendNotFound, Again, Choices, SlotsAreEvents, ClientHasEvent, TrackerPointsToWaiters,
              WokenByOwnDecision
<1> QED
  BY <1>1, <1>2, <1>3, <1>4, <1>5, <1>6 DEF ClientStep

LEMMA NextTx == TxInv /\ [Next]_vars => TxInv'
<1> SUFFICES ASSUME TxInv, [Next]_vars PROVE TxInv'
  OBVIOUS
<1>1. CASE UNCHANGED vars
  BY <1>1 DEF vars, opVars, clientVars, TxInv, TypeOK, SlotsAreEvents, ClientHasEvent,
              TrackerPointsToWaiters, WokenByOwnDecision
<1> QED
  BY <1>1, OpKeepsTx, ClientKeepsTx DEF Next

(* Type correctness, for any number of threads, slots and transactions.     *)
THEOREM TypeCorrect == Spec => []TypeOK
<1>1. TxInv => TypeOK
  BY DEF TxInv
<1> QED
  BY <1>1, InitTx, NextTx, PTL DEF Spec

(* minifilter.rs:31-78: no pointer in the tracker outlives the wait of the  *)
(* thread whose stack it points into.                                       *)
THEOREM NoPointerOutlivesWait == Spec => []TrackerPointsToWaiters
<1>1. TxInv => TrackerPointsToWaiters
  BY DEF TxInv
<1> QED
  BY <1>1, InitTx, NextTx, PTL DEF Spec

(* minifilter.rs:60: a thread is woken only by a decision on its own        *)
(* transaction.                                                             *)
THEOREM NobodyElseWakes == Spec => []WokenByOwnDecision
<1>1. TxInv => WokenByOwnDecision
  BY DEF TxInv
<1> QED
  BY <1>1, InitTx, NextTx, PTL DEF Spec

-----------------------------------------------------------------------------
(* What VerdictBeforeWrap rests on: as long as the ring has not come round, *)
(* a record stays where it was put, and who is woken has been decided on    *)
(* for good.                                                                *)

Suspended == {"add", "wait", "remove", "read", "finish"}

Filled == 0..(tail - 1)

Numbering ==
  /\ \A t, u \in Ops : opc[t] # "idle" /\ opc[u] # "idle" /\ tx[t] = tx[u] => t = u
  /\ \A t \in Ops : opc[t] # "idle" => tx[t] < nextTx

Records ==
  /\ \A i \in Filled : slot[i].tx \in Txs /\ slot[i].tx < nextTx
  /\ \A i, j \in Filled : slot[i].tx = slot[j].tx => i = j
  /\ \A t \in Ops : opc[t] \in Suspended => pos[t] \in Filled /\ slot[pos[t]].tx = tx[t]
  /\ cpc # "poll" => cpos \in Filled /\ slot[cpos].tx = ctx
  /\ cpc \in {"write", "send"} => head = cpos + 1

(* What is not in the ring yet has not been decided on. *)
Undecided ==
  /\ \A n \in Txs : n >= nextTx => chosen[n] = "none"
  /\ \A t \in Ops : opc[t] = "push" => chosen[tx[t]] = "none"
  /\ \A i \in Filled, t \in Ops : opc[t] = "push" => slot[i].tx # tx[t]

Decisions ==
  /\ \A i \in Filled : chosen[slot[i].tx] = "none" <=> i >= head
  /\ \A i \in Filled : slot[i].decision = IF i >= head \/ (cpc = "write" /\ cpos = i)
                                          THEN "allow" ELSE chosen[slot[i].tx]
  /\ cpc = "write" => choice = chosen[ctx]

Wakes ==
  /\ \A t \in signalled : /\ opc[t] \in {"wait", "remove", "read", "finish"}
                          /\ pos[t] < head
                          /\ cpc \in {"write", "send"} => cpos # pos[t]
  /\ \A t \in Ops : opc[t] \in {"remove", "read", "finish"} /\ ~timedOut[t] => t \in signalled
  /\ \A t \in Ops : opc[t] = "finish" /\ ~timedOut[t] => seen[t] = chosen[tx[t]]

BeforeWrap == Records /\ Undecided /\ Decisions /\ Wakes

VerdictInv == TxInv /\ Numbering /\ (tail <= Slots => BeforeWrap)

LEMMA InitVerdict == Init => VerdictInv
BY InitTx, SlotsAssumption
DEF Init, VerdictInv, Numbering, BeforeWrap, Records, Undecided, Decisions, Wakes, Filled,
    Suspended, Txs

LEMMA NumberingKept ==
  ASSUME TxInv, Numbering, [Next]_vars
  PROVE  Numbering'
<1> USE DEF TxInv, TypeOK, Numbering
<1>1. CASE UNCHANGED vars
  BY <1>1 DEF vars, opVars
<1>2. ASSUME NEW t \in Ops, Begin(t) PROVE Numbering'
  BY <1>2 DEF Begin, Move
<1>3. ASSUME NEW t \in Ops, OpStep(t) PROVE Numbering'
  <2>1. /\ nextTx' = nextTx /\ opc[t] # "idle"
        /\ \A u \in Ops : opc'[u] # "idle" => opc[u] # "idle" /\ tx'[u] = tx[u]
    BY <1>3 DEF OpStep, PushEvent, PushFails, AddTx, Woken, TimesOut, RemoveTx, ReadBack, Finish,
                Leave, Move
  <2> QED
    BY <2>1
<1>4. CASE ClientStep
  <2>1. UNCHANGED <<nextTx, opc, tx>>
    BY <1>4 DEF ClientStep, NextEvent, Callback, CallbackSets, WriteDecision, SendDecision,
                SendNotFound, opVars
  <2> QED
    BY <2>1
<1> QED
  BY <1>1, <1>2, <1>3, <1>4 DEF Next

(* Before the ring comes round, Slot is the identity. *)
LEMMA SlotIsPlace ==
  ASSUME TxInv, tail <= Slots, NEW i \in Filled
  PROVE  i \in Nat /\ i \in 0..(Slots - 1) /\ Slot(i) = i
BY SlotInRange, SlotsAssumption DEF TxInv, TypeOK, Filled

LEMMA BeginKeeps ==
  ASSUME TxInv, Numbering, tail <= Slots, BeforeWrap, NEW t \in Ops, Begin(t)
  PROVE  BeforeWrap'
<1>1. /\ UNCHANGED <<slot, tail, tracker, signalled, pos, timedOut, seen>>
      /\ UNCHANGED <<head, cpc, cpos, ctx, choice, chosen>>
      /\ nextTx' = nextTx + 1 /\ nextTx \in Txs /\ nextTx \in Nat
      /\ opc[t] = "idle" /\ opc'[t] = "push" /\ tx'[t] = nextTx
      /\ \A u \in Ops \ {t} : opc'[u] = opc[u] /\ tx'[u] = tx[u]
  BY SlotsAssumption DEF Begin, Move, clientVars, TxInv, TypeOK, Txs
<1>2. Records'
  BY <1>1 DEF Records, BeforeWrap, Filled, Suspended, Txs
<1>3. Undecided'
  BY <1>1 DEF Undecided, Records, BeforeWrap, Filled, Txs
<1>4. Decisions'
  BY <1>1 DEF Decisions, BeforeWrap, Filled
<1>5. Wakes'
  <2>1. t \notin signalled
    BY <1>1 DEF Wakes, BeforeWrap
  <2>2. signalled \subseteq Ops
    BY DEF TxInv, TypeOK
  <2> QED
    BY <1>1, <2>1, <2>2 DEF Wakes, BeforeWrap
<1> QED
  BY <1>2, <1>3, <1>4, <1>5 DEF BeforeWrap

LEMMA PushKeeps ==
  ASSUME TxInv, Numbering, tail <= Slots, tail' <= Slots, BeforeWrap, NEW t \in Ops, PushEvent(t)
  PROVE  BeforeWrap'
<1>1. /\ UNCHANGED <<signalled, timedOut, seen, nextTx, tx>>
      /\ UNCHANGED <<head, cpc, cpos, ctx, choice, chosen>>
      /\ opc[t] = "push" /\ opc'[t] = "add" /\ pos'[t] = tail
      /\ \A u \in Ops \ {t} : opc'[u] = opc[u] /\ pos'[u] = pos[u]
      /\ tail' = tail + 1 /\ tail \in Nat /\ head \in Nat /\ head <= tail
  BY SlotsAssumption DEF PushEvent, Move, clientVars, TxInv, TypeOK
<1>2. /\ Slot(tail) = tail /\ tail \in 0..(Slots - 1)
      /\ tx[t] \in Txs /\ tx[t] < nextTx
  <2>1. tail < Slots
    BY <1>1, SlotsAssumption
  <2>2. Slot(tail) = tail /\ tail \in 0..(Slots - 1)
    BY <1>1, <2>1, SlotInRange
  <2>3. tx[t] \in Txs /\ tx[t] < nextTx
    BY <1>1, SlotsAssumption DEF TxInv, TypeOK, Numbering, Txs
  <2> QED
    BY <2>2, <2>3
<1>3. /\ slot'[tail].tx = tx[t] /\ slot'[tail].decision = "allow"
      /\ \A i \in Filled : slot'[i] = slot[i]
      /\ Filled' = Filled \cup {tail} /\ tail \notin Filled /\ \A i \in Filled : i < tail
  BY <1>1, <1>2, SlotsAssumption DEF PushEvent, TxInv, TypeOK, Filled
<1>4. Records'
  BY <1>1, <1>2, <1>3 DEF Records, Undecided, BeforeWrap, Suspended
<1>5. Undecided'
  BY <1>1, <1>2, <1>3 DEF Undecided, BeforeWrap, Numbering
<1>6. Decisions'
  <2>1. cpc = "write" => cpos # tail
    BY <1>1, <1>3 DEF BeforeWrap, Records
  <2> QED
    BY <1>1, <1>2, <1>3, <2>1 DEF Decisions, Undecided, BeforeWrap
<1>7. Wakes'
  <2>1. t \notin signalled
    BY <1>1 DEF Wakes, BeforeWrap
  <2> QED
    BY <1>1, <2>1 DEF Wakes, BeforeWrap, TxInv, TypeOK
<1> QED
  BY <1>4, <1>5, <1>6, <1>7 DEF BeforeWrap

(* A step of a thread that leaves the ring as it is. *)
LEMMA WaitKeeps ==
  ASSUME TxInv, tail <= Slots, BeforeWrap, NEW t \in Ops,
         AddTx(t) \/ Woken(t) \/ TimesOut(t) \/ RemoveTx(t)
  PROVE  BeforeWrap'
<1>1. /\ UNCHANGED <<slot, tail, nextTx, tx, pos, seen>>
      /\ UNCHANGED <<head, cpc, cpos, ctx, choice, chosen>>
      /\ \A u \in Ops \ {t} : opc'[u] = opc[u] /\ timedOut'[u] = timedOut[u]
      /\ opc[t] \in {"add", "wait", "remove"} /\ opc'[t] \in {"wait", "remove", "read"}
      /\ opc'[t] = "wait" <=> opc[t] = "add"
  BY DEF AddTx, Woken, TimesOut, RemoveTx, Move, clientVars, TxInv, TypeOK
<1>2. Records' /\ Undecided' /\ Decisions'
  BY <1>1 DEF Records, Undecided, Decisions, BeforeWrap, Filled, Suspended
<1>3. /\ signalled' \subseteq signalled /\ signalled \ signalled' \subseteq {t}
      /\ opc'[t] \in {"remove", "read"} /\ ~timedOut'[t] => t \in signalled'
  BY DEF AddTx, Woken, TimesOut, RemoveTx, Move, TxInv, TypeOK, Wakes, BeforeWrap
<1>4. Wakes'
  <2>1. \A u \in signalled' : /\ opc'[u] \in {"wait", "remove", "read", "finish"}
                              /\ pos'[u] < head'
                              /\ cpc' \in {"write", "send"} => cpos' # pos'[u]
    <3>1. signalled \subseteq Ops
      BY DEF TxInv, TypeOK
    <3> QED
      BY <1>1, <1>3, <3>1 DEF Wakes, BeforeWrap
  <2>2. \A u \in Ops : opc'[u] \in {"remove", "read", "finish"} /\ ~timedOut'[u] => u \in signalled'
    BY <1>1, <1>3 DEF Wakes, BeforeWrap
  <2>3. \A u \in Ops : opc'[u] = "finish" /\ ~timedOut'[u] => seen'[u] = chosen'[tx'[u]]
    BY <1>1 DEF Wakes, BeforeWrap
  <2> QED
    BY <2>1, <2>2, <2>3 DEF Wakes
<1> QED
  BY <1>2, <1>4 DEF BeforeWrap

(* The record at start_tail is still its own, and it holds the decision.    *)
LEMMA ReadKeeps ==
  ASSUME TxInv, tail <= Slots, BeforeWrap, NEW t \in Ops, ReadBack(t)
  PROVE  BeforeWrap'
<1>1. /\ UNCHANGED <<slot, tail, signalled, nextTx, tx, pos, timedOut>>
      /\ UNCHANGED <<head, cpc, cpos, ctx, choice, chosen>>
      /\ opc[t] = "read" /\ opc'[t] = "finish"
      /\ seen'[t] = slot[Slot(pos[t])].decision
      /\ \A u \in Ops \ {t} : opc'[u] = opc[u] /\ seen'[u] = seen[u]
  BY DEF ReadBack, Move, clientVars, TxInv, TypeOK
<1>2. Records' /\ Undecided' /\ Decisions'
  BY <1>1 DEF Records, Undecided, Decisions, BeforeWrap, Filled, Suspended
<1>3. ASSUME ~timedOut[t] PROVE seen'[t] = chosen[tx[t]]
  <2>1. pos[t] \in Filled /\ slot[pos[t]].tx = tx[t]
    BY <1>1 DEF BeforeWrap, Records, Suspended
  <2>2. pos[t] < head /\ ~(cpc = "write" /\ cpos = pos[t])
    BY <1>1, <1>3 DEF BeforeWrap, Wakes
  <2>3. Slot(pos[t]) = pos[t] /\ pos[t] \in Nat /\ head \in Nat
    BY <2>1, SlotIsPlace DEF TxInv, TypeOK
  <2> QED
    BY <1>1, <2>1, <2>2, <2>3 DEF BeforeWrap, Decisions
<1>4. Wakes'
  <2>1. t \in signalled \/ timedOut[t]
    BY <1>1 DEF Wakes, BeforeWrap
  <2>2. \A u \in Ops : opc'[u] = "finish" /\ ~timedOut'[u] => seen'[u] = chosen'[tx'[u]]
    BY <1>1, <1>3 DEF Wakes, BeforeWrap
  <2>3. signalled \subseteq Ops
    BY DEF TxInv, TypeOK
  <2> QED
    BY <1>1, <2>1, <2>2, <2>3 DEF Wakes, BeforeWrap
<1> QED
  BY <1>2, <1>4 DEF BeforeWrap

LEMMA LeaveKeeps ==
  ASSUME TxInv, tail <= Slots, BeforeWrap, NEW t \in Ops, PushFails(t) \/ Finish(t)
  PROVE  BeforeWrap'
<1>1. /\ UNCHANGED <<slot, tail, nextTx>>
      /\ UNCHANGED <<head, cpc, cpos, ctx, choice, chosen>>
      /\ opc'[t] = "idle" /\ signalled' = signalled \ {t}
      /\ \A u \in Ops \ {t} : /\ opc'[u] = opc[u] /\ tx'[u] = tx[u] /\ pos'[u] = pos[u]
                              /\ timedOut'[u] = timedOut[u] /\ seen'[u] = seen[u]
  BY DEF PushFails, Finish, Leave, Move, clientVars, TxInv, TypeOK
<1>2. Records' /\ Undecided'
  BY <1>1 DEF Records, Undecided, BeforeWrap, Filled, Suspended
<1>3. Decisions' /\ Wakes'
  BY <1>1 DEF Decisions, Wakes, BeforeWrap, Filled, TxInv, TypeOK
<1> QED
  BY <1>2, <1>3 DEF BeforeWrap

LEMMA NextEventKeeps ==
  ASSUME TxInv, tail <= Slots, BeforeWrap, NextEvent
  PROVE  BeforeWrap'
<1>1. /\ UNCHANGED <<slot, tail, signalled, nextTx, opc, tx, pos, timedOut, seen>>
      /\ UNCHANGED <<head, choice, chosen>>
      /\ cpc = "poll" /\ cpc' = "callback" /\ cpos' = head /\ head \in Filled
      /\ ctx' = slot[Slot(head)].tx
  BY DEF NextEvent, Client, opVars, TxInv, TypeOK, Filled
<1>2. ctx' = slot[head].tx
  BY <1>1, SlotIsPlace
<1>3. Records' /\ Undecided'
  BY <1>1, <1>2 DEF Records, Undecided, BeforeWrap, Filled, Suspended
<1>4. Decisions' /\ Wakes'
  BY <1>1 DEF Decisions, Wakes, BeforeWrap, Filled
<1> QED
  BY <1>3, <1>4 DEF BeforeWrap

(* The callback decides on the first unread record, whose thread has not    *)
(* been woken.                                                              *)
LEMMA CallbackKeeps ==
  ASSUME TxInv, tail <= Slots, BeforeWrap, NEW c \in Choices, Callback(c) \/ CallbackSets(c)
  PROVE  BeforeWrap'
<1>1. /\ UNCHANGED <<tail, signalled, nextTx, opc, tx, pos, timedOut, seen, cpos, ctx>>
      /\ cpc = "callback" /\ cpc' \in {"write", "send"} /\ cpos = head /\ head' = head + 1
      /\ cpos \in Filled /\ ctx = slot[cpos].tx /\ ctx \in Txs /\ c # "none"
      /\ head \in Nat /\ tail \in Nat
      /\ chosen'[ctx] = c /\ \A n \in Txs \ {ctx} : chosen'[n] = chosen[n]
  BY SlotsAssumption
  DEF Callback, CallbackSets, Client, opVars, TxInv, TypeOK, ClientHasEvent, BeforeWrap, Records,
      Choices, Txs
<1>2. /\ Slot(cpos) = cpos /\ cpos \in 0..(Slots - 1)
      /\ \A i \in Filled : i \in Nat /\ i \in 0..(Slots - 1)
  BY <1>1, SlotIsPlace
<1>3. /\ \A i \in Filled : slot'[i].tx = slot[i].tx
      /\ \A i \in Filled \ {cpos} : slot'[i] = slot[i]
  <2>1. CASE slot' = slot
    BY <2>1
  <2>2. CASE slot' = [slot EXCEPT ![Slot(cpos)] = [tx |-> ctx, decision |-> c]]
    BY <2>2, <1>1, <1>2 DEF TxInv, TypeOK
  <2> QED
    BY <2>1, <2>2 DEF Callback, CallbackSets
<1>4. /\ cpc' = "write" => choice' = c /\ slot'[cpos].decision = "allow"
      /\ cpc' = "send" => slot'[cpos].decision = c
  <2>1. slot[cpos].decision = "allow"
    BY <1>1 DEF BeforeWrap, Decisions
  <2>2. CASE Callback(c)
    BY <2>1, <2>2 DEF Callback, Client
  <2>3. CASE CallbackSets(c)
    BY <2>3, <1>1, <1>2 DEF CallbackSets, Client, TxInv, TypeOK
  <2> QED
    BY <2>2, <2>3
<1>5. Filled' = Filled
  BY <1>1 DEF Filled
<1>6. Records'
  <2>1. \A i \in Filled : slot'[i].tx \in Txs /\ slot'[i].tx < nextTx
    BY <1>3 DEF Records, BeforeWrap
  <2>2. \A i, j \in Filled : slot'[i].tx = slot'[j].tx => i = j
    BY <1>3 DEF Records, BeforeWrap
  <2>3. \A t \in Ops : opc[t] \in Suspended => pos[t] \in Filled /\ slot'[pos[t]].tx = tx[t]
    BY <1>3 DEF Records, BeforeWrap
  <2>4. cpos \in Filled /\ slot'[cpos].tx = ctx /\ head' = cpos + 1
    BY <1>1, <1>3
  <2> QED
    BY <1>1, <1>5, <2>1, <2>2, <2>3, <2>4 DEF Records
<1>7. Undecided'
  <2>1. /\ ctx < nextTx /\ nextTx \in Nat
        /\ \A t \in Ops : opc[t] = "push" => ctx # tx[t] /\ tx[t] \in Txs
    BY <1>1 DEF BeforeWrap, Records, Undecided, TxInv, TypeOK, Txs
  <2> QED
    BY <1>1, <1>3, <1>5, <2>1 DEF Undecided, BeforeWrap, Txs
<1>8. Decisions'
  <2>1. \A i \in Filled \ {cpos} : slot[i].tx \in Txs \ {ctx}
    BY <1>1 DEF BeforeWrap, Records
  <2>2. \A i \in Filled : chosen'[slot'[i].tx] = "none" <=> i >= head'
    <3>1. chosen'[slot'[cpos].tx] # "none"
      BY <1>1, <1>3
    <3>2. \A i \in Filled \ {cpos} : chosen'[slot'[i].tx] = "none" <=> i >= head
      BY <1>1, <1>3, <2>1 DEF Decisions, BeforeWrap
    <3>3. \A i \in Filled \ {cpos} : i >= head <=> i >= head'
      <4>1. head' = head + 1 /\ cpos = head /\ head \in Nat
        BY <1>1
      <4>2. \A i \in Filled : i \in Nat
        BY <1>2
      <4> QED
        BY <4>1, <4>2
    <3>4. ~(cpos >= head')
      BY <1>1
    <3> QED
      BY <3>1, <3>2, <3>3, <3>4
  <2>3. \A i \in Filled \ {cpos} :
          slot'[i].decision = IF i >= head' THEN "allow" ELSE chosen'[slot'[i].tx]
    BY <1>1, <1>2, <1>3, <2>1 DEF Decisions, BeforeWrap
  <2>4. slot'[cpos].decision = IF cpc' = "write" THEN "allow" ELSE chosen'[slot'[cpos].tx]
    BY <1>1, <1>3, <1>4
  <2>5. cpc' = "write" => choice' = chosen'[ctx]
    BY <1>1, <1>4
  <2> QED
    BY <1>1, <1>2, <1>5, <2>2, <2>3, <2>4, <2>5 DEF Decisions
<1>9. Wakes'
  <2>1. \A t \in signalled : pos[t] < head /\ pos[t] # cpos /\ pos[t] \in Nat
    BY <1>1 DEF Wakes, BeforeWrap, TxInv, TypeOK
  <2>2. \A t \in Ops : opc[t] = "finish" /\ ~timedOut[t] => tx[t] \in Txs \ {ctx}
    <3> SUFFICES ASSUME NEW t \in Ops, opc[t] = "finish", ~timedOut[t] PROVE tx[t] \in Txs \ {ctx}
      OBVIOUS
    <3>1. pos[t] \in Filled /\ slot[pos[t]].tx = tx[t] /\ t \in signalled
      BY DEF BeforeWrap, Records, Wakes, Suspended
    <3> QED
      BY <1>1, <2>1, <3>1 DEF BeforeWrap, Records
  <2> QED
    BY <1>1, <2>1, <2>2 DEF Wakes, BeforeWrap
<1> QED
  BY <1>6, <1>7, <1>8, <1>9 DEF BeforeWrap

LEMMA WriteKeeps ==
  ASSUME TxInv, tail <= Slots, BeforeWrap, WriteDecision
  PROVE  BeforeWrap'
<1>1. /\ UNCHANGED <<tail, signalled, nextTx, opc, tx, pos, timedOut, seen>>
      /\ UNCHANGED <<head, cpos, ctx, choice, chosen>>
      /\ cpc = "write" /\ cpc' = "send" /\ cpos \in Filled /\ ctx = slot[cpos].tx
      /\ head = cpos + 1
  BY DEF WriteDecision, Client, opVars, BeforeWrap, Records
<1>2. /\ Slot(cpos) = cpos /\ cpos \in Nat
      /\ \A i \in Filled : i \in Nat /\ i \in 0..(Slots - 1)
  BY <1>1, SlotIsPlace
<1>3. /\ \A i \in Filled : slot'[i].tx = slot[i].tx
      /\ \A i \in Filled \ {cpos} : slot'[i] = slot[i]
      /\ slot'[cpos].decision = chosen[ctx]
  BY <1>1, <1>2 DEF WriteDecision, TxInv, TypeOK, BeforeWrap, Decisions
<1>4. Filled' = Filled
  BY <1>1 DEF Filled
<1>5. Records' /\ Undecided'
  BY <1>1, <1>3, <1>4 DEF Records, Undecided, BeforeWrap
<1>6. Decisions'
  BY <1>1, <1>2, <1>3, <1>4 DEF Decisions, BeforeWrap
<1>7. Wakes'
  BY <1>1 DEF Wakes, BeforeWrap
<1> QED
  BY <1>5, <1>6, <1>7 DEF BeforeWrap

(* The transaction found is that of the record just decided on. *)
LEMMA SendKeeps ==
  ASSUME TxInv, tail <= Slots, BeforeWrap, SendDecision \/ SendNotFound
  PROVE  BeforeWrap'
<1>1. /\ UNCHANGED <<slot, tail, nextTx, opc, tx, pos, timedOut, seen>>
      /\ UNCHANGED <<head, chosen>>
      /\ cpc = "send" /\ cpc' = "poll" /\ cpos \in Filled /\ ctx = slot[cpos].tx
      /\ head = cpos + 1
  BY DEF SendDecision, SendNotFound, Again, Client, opVars, BeforeWrap, Records
<1>2. Records' /\ Undecided' /\ Decisions'
  BY <1>1 DEF Records, Undecided, Decisions, BeforeWrap, Filled, Suspended
<1>3. CASE SendNotFound
  <2>1. signalled' = signalled
    BY <1>3 DEF SendNotFound
  <2> QED
    BY <1>1, <1>2, <2>1 DEF Wakes, BeforeWrap
<1>4. CASE SendDecision
  <2>1. PICK t \in tracker : tx[t] = ctx /\ signalled' = signalled \cup {t}
    BY <1>4 DEF SendDecision
  <2>2. t \in Ops /\ opc[t] \in {"wait", "remove"}
    BY DEF TxInv, TypeOK, TrackerPointsToWaiters
  <2>3. pos[t] = cpos
    BY <1>1, <2>1, <2>2 DEF BeforeWrap, Records, Suspended
  <2>4. pos[t] < head
    BY <1>1, <2>3 DEF Filled, TxInv, TypeOK
  <2> QED
    BY <1>1, <1>2, <2>1, <2>2, <2>4 DEF Wakes, BeforeWrap
<1> QED
  BY <1>3, <1>4

LEMMA NextVerdict == VerdictInv /\ [Next]_vars => VerdictInv'
<1> SUFFICES ASSUME VerdictInv, [Next]_vars PROVE VerdictInv'
  OBVIOUS
<1>1. TxInv /\ TxInv' /\ Numbering /\ Numbering'
  BY NextTx, NumberingKept DEF VerdictInv
<1>2. tail \in Nat /\ (tail' = tail \/ tail' = tail + 1)
  BY <1>1 DEF Next, Begin, OpStep, PushEvent, PushFails, AddTx, Woken, TimesOut, RemoveTx, ReadBack,
     Finish, ClientStep, NextEvent, Callback, CallbackSets, WriteDecision, SendDecision,
     SendNotFound, vars, TxInv, TypeOK
<1>3. ASSUME tail' <= Slots PROVE BeforeWrap'
  <2>1. tail <= Slots /\ BeforeWrap
    BY <1>2, <1>3, SlotsAssumption DEF VerdictInv
  <2>2. CASE UNCHANGED vars
    BY <2>1, <2>2 DEF vars, opVars, clientVars, BeforeWrap, Records, Undecided, Decisions, Wakes,
                      Filled
  <2>3. ASSUME NEW t \in Ops, Begin(t) \/ OpStep(t) PROVE BeforeWrap'
    BY <1>1, <1>3, <2>1, <2>3, BeginKeeps, PushKeeps, WaitKeeps, ReadKeeps, LeaveKeeps DEF OpStep
  <2>4. CASE ClientStep
    BY <1>1, <2>1, <2>4, NextEventKeeps, CallbackKeeps, WriteKeeps, SendKeeps DEF ClientStep
  <2> QED
    BY <2>2, <2>3, <2>4 DEF Next
<1> QED
  BY <1>1, <1>3 DEF VerdictInv

(* divert.rs:259, for any number of threads, slots and transactions: an     *)
(* operation that did not time out ends as the callback decided, as long as *)
(* the ring has not come round.                                             *)
THEOREM VerdictStands == Spec => []VerdictBeforeWrap
<1>1. VerdictInv => VerdictBeforeWrap
  BY DEF VerdictInv, BeforeWrap, Wakes, VerdictBeforeWrap, VerdictIsChosen, Verdict
<1> QED
  BY <1>1, InitVerdict, NextVerdict, PTL DEF Spec
=============================================================================
