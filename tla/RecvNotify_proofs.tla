--------------------------- MODULE RecvNotify_proofs ---------------------------
(* Proofs about module RecvNotify, for any threads, cores and callouts. *)
EXTENDS RecvNotify, TLAPS

(* The park queue: what appending, completing and emptying do to the set of *)
(* parked requests.                                                         *)
LEMMA ParkedAppend ==
  ASSUME TypeOK, NEW c \in Clients, recvq' = Append(recvq, c)
  PROVE  recvq' \in Seq(Clients) /\ Parked' = Parked \cup {c}
<1>1. /\ recvq \in Seq(Clients) /\ recvq' \in Seq(Clients)
      /\ Len(recvq') = Len(recvq) + 1 /\ recvq'[Len(recvq) + 1] = c
      /\ \A i \in 1..Len(recvq) : recvq'[i] = recvq[i]
  BY DEF TypeOK
<1>2. DOMAIN recvq = 1..Len(recvq) /\ DOMAIN recvq' = 1..(Len(recvq) + 1) /\ Len(recvq) \in Nat
  BY <1>1
<1> QED
  BY <1>1, <1>2 DEF Parked

LEMMA ParkedTail ==
  ASSUME TypeOK, CompleteOne
  PROVE  /\ recvq' \in Seq(Clients) /\ Parked' \subseteq Parked
         /\ answered' \subseteq Clients
<1>1. /\ recvq \in Seq(Clients) /\ recvq' \in Seq(Clients) /\ recvq # <<>>
      /\ Len(recvq') = Len(recvq) - 1 /\ Head(recvq) \in Clients
      /\ \A i \in 1..Len(recvq') : recvq'[i] = recvq[i + 1]
  BY DEF TypeOK, CompleteOne
<1>2. DOMAIN recvq = 1..Len(recvq) /\ DOMAIN recvq' = 1..(Len(recvq) - 1) /\ Len(recvq) \in Nat
  BY <1>1
<1>3. answered' = answered \cup {Head(recvq)} /\ answered \subseteq Clients
  BY DEF CompleteOne, TypeOK
<1>4. ASSUME NEW i \in DOMAIN recvq' PROVE recvq'[i] \in Parked
  <2>1. i + 1 \in DOMAIN recvq /\ recvq'[i] = recvq[i + 1]
    BY <1>1, <1>2
  <2> QED BY <2>1 DEF Parked
<1>5. Parked' \subseteq Parked
  BY <1>4 DEF Parked
<1> QED
  BY <1>1, <1>3, <1>5

LEMMA ParkedEmpty == recvq = <<>> => Parked = {}
  BY DEF Parked

(* Only threads with a request parked are in Parked. *)
LEMMA ParkedClients == TypeOK => Parked \subseteq Clients
  BY DEF TypeOK, Parked

LEMMA InitWakeup == Init => WakeupInv
<1> SUFFICES ASSUME Init PROVE WakeupInv
  OBVIOUS
<1>1. Parked = {}
  BY ParkedEmpty DEF Init
<1>2. recvq \in Seq(Clients)
  BY DEF Init
<1>3. unread \in [Cores -> 0..MaxUnread]
  BY MaxUnreadAssumption DEF Init
<1>4. TypeOK
  BY <1>2, <1>3, OwnsAssumption, LayerAssumption DEF Init, TypeOK
<1> QED
  BY <1>1, <1>4 DEF Init, WakeupInv, FlagGuardsArmed, DataIsSeen

LEMMA NextWakeupType == TypeOK /\ [Next]_vars => TypeOK'
<1> SUFFICES ASSUME TypeOK, [Next]_vars PROVE TypeOK'
  OBVIOUS
<1> USE OwnsAssumption, MaxUnreadAssumption DEF TypeOK
<1>1. ASSUME NEW c \in Clients, ClientStep(c) PROVE TypeOK'
  <2>1. CASE Consume(c)   BY <2>1 DEF Consume
  <2>2. CASE PollEmpty(c) BY <2>2 DEF PollEmpty
  <2>3. CASE Forward(c)   BY <2>3, ParkedAppend DEF Forward
  <2>4. CASE SetWatching(c) BY <2>4 DEF SetWatching, AfterArming
  <2>5. CASE RingHasData(c) BY <2>5 DEF RingHasData
  <2>6. CASE RingEmpty(c) BY <2>6 DEF RingEmpty
  <2>7. CASE TestAndClear(c) BY <2>7 DEF TestAndClear
  <2>8. CASE ArmCompletes(c) BY <2>8, ParkedTail DEF ArmCompletes
  <2>9. CASE ArmCompletedAll(c) BY <2>9 DEF ArmCompletedAll
  <2>10. CASE Wake(c) BY <2>10 DEF Wake
  <2> QED BY <1>1, <2>1, <2>2, <2>3, <2>4, <2>5, <2>6, <2>7, <2>8, <2>9, <2>10 DEF ClientStep
<1>2. ASSUME NEW c \in Clients, FlushStore(c) PROVE TypeOK'
  BY <1>2 DEF FlushStore
<1>3. ASSUME NEW p \in Callouts, SwapWatching(p) PROVE TypeOK'
  BY <1>3 DEF SwapWatching
<1>4. ASSUME NEW p \in Callouts, NotifyCompletes(p) PROVE TypeOK'
  BY <1>4, ParkedTail DEF NotifyCompletes
<1>5. ASSUME NEW p \in Callouts, NotifyCompletedAll(p) PROVE TypeOK'
  BY <1>5 DEF NotifyCompletedAll
<1>6. ASSUME NEW p \in Callouts, NEW k \in Cores, Commit(p, k) PROVE TypeOK'
  BY <1>6 DEF Commit
<1>7. CASE UNCHANGED vars
  BY <1>7 DEF vars
<1> QED
  BY <1>1, <1>2, <1>3, <1>4, <1>5, <1>6, <1>7 DEF Next, NotifyStep

(* The flag comes down only in front of a loop that completes every parked  *)
(* request, and such a loop ends only when none is left.                    *)
LEMMA NextGuards ==
  ASSUME TypeOK, FlagGuardsArmed, [Next]_vars
  PROVE  FlagGuardsArmed'
<1> USE DEF FlagGuardsArmed, Completing
<1>1. ASSUME NEW c \in Clients, Consume(c) PROVE FlagGuardsArmed'
  BY <1>1 DEF Consume, Parked
<1>2. ASSUME NEW c \in Clients, PollEmpty(c) PROVE FlagGuardsArmed'
  BY <1>2 DEF PollEmpty, Parked
<1>3. ASSUME NEW c \in Clients, Forward(c) PROVE FlagGuardsArmed'
  <2>1. Parked' = Parked \cup {c}
    BY <1>3, ParkedAppend DEF Forward
  <2> QED BY <1>3, <2>1, ParkedClients DEF Forward, TypeOK
<1>4. ASSUME NEW c \in Clients, SetWatching(c) PROVE FlagGuardsArmed'
  BY <1>4, ParkedClients DEF SetWatching, Parked, TypeOK
<1>5. ASSUME NEW c \in Clients, FlushStore(c) PROVE FlagGuardsArmed'
  BY <1>5 DEF FlushStore
<1>6. ASSUME NEW c \in Clients, RingHasData(c) PROVE FlagGuardsArmed'
  BY <1>6, ParkedClients DEF RingHasData, Parked, TypeOK
<1>7. ASSUME NEW c \in Clients, RingEmpty(c) PROVE FlagGuardsArmed'
  <2>1. cpc[c] = "check" /\ cpc' \in [Clients -> {"poll", "arm", "check", "clear", "complete", "wait"}]
        /\ cpc'[c] \in {"check", "wait"} /\ \A d \in Clients : d # c => cpc'[d] = cpc[d]
    BY <1>7 DEF RingEmpty, TypeOK
  <2>2. UNCHANGED <<watching, buffered, recvq, ppc>>
    BY <1>7 DEF RingEmpty
  <2>3. Parked' = Parked
    BY <2>2 DEF Parked
  <2> QED BY <2>1, <2>2, <2>3, ParkedClients
<1>8. ASSUME NEW c \in Clients, TestAndClear(c) PROVE FlagGuardsArmed'
  BY <1>8, ParkedClients DEF TestAndClear, Parked, TypeOK
<1>9. ASSUME NEW c \in Clients, ArmCompletes(c) PROVE FlagGuardsArmed'
  BY <1>9, ParkedTail DEF ArmCompletes, TypeOK
<1>10. ASSUME NEW c \in Clients, ArmCompletedAll(c) PROVE FlagGuardsArmed'
  BY <1>10, ParkedEmpty DEF ArmCompletedAll, Parked
<1>11. ASSUME NEW c \in Clients, Wake(c) PROVE FlagGuardsArmed'
  BY <1>11, ParkedClients DEF Wake, Parked, TypeOK
<1>12. ASSUME NEW p \in Callouts, SwapWatching(p) PROVE FlagGuardsArmed'
  BY <1>12 DEF SwapWatching, Parked, TypeOK
<1>13. ASSUME NEW p \in Callouts, NotifyCompletes(p) PROVE FlagGuardsArmed'
  BY <1>13, ParkedTail DEF NotifyCompletes, TypeOK
<1>14. ASSUME NEW p \in Callouts, NotifyCompletedAll(p) PROVE FlagGuardsArmed'
  BY <1>14, ParkedEmpty DEF NotifyCompletedAll, Parked
<1>15. ASSUME NEW p \in Callouts, NEW k \in Cores, Commit(p, k) PROVE FlagGuardsArmed'
  BY <1>15 DEF Commit, Parked, TypeOK
<1>16. CASE UNCHANGED vars
  BY <1>16 DEF vars, Parked
<1> QED
  BY <1>1, <1>2, <1>3, <1>4, <1>5, <1>6, <1>7, <1>8, <1>9, <1>10, <1>11,
     <1>12, <1>13, <1>14, <1>15, <1>16 DEF Next, ClientStep, NotifyStep

(* In the packet layers, on a machine that keeps the order of the flag's    *)
(* store and the rings' loads, data a thread has looked past is being seen  *)
(* to.  The swaps that find the flag down rely on FlagGuardsArmed.          *)
LEMMA NextSeen ==
  ASSUME CheckedInOrder, TypeOK, FlagGuardsArmed, buffered = {}, DataIsSeen, [Next]_vars
  PROVE  buffered' = {} /\ DataIsSeen'
<1> USE DEF DataIsSeen, Completing, AboutToLook
<1>0. buffered' = {}
  BY DEF Next, ClientStep, NotifyStep, Consume, PollEmpty, Forward, SetWatching, FlushStore,
     RingHasData, RingEmpty, TestAndClear, ArmCompletes, ArmCompletedAll, Wake, SwapWatching,
     NotifyCompletes, NotifyCompletedAll, Commit, vars, CheckedInOrder
<1>1. ASSUME NEW c \in Clients, Consume(c) PROVE DataIsSeen'
  <2>1. ASSUME NEW k \in Cores, unread'[k] > 0 PROVE unread[k] > 0
    <3>1. PICK j \in Cores : unread[j] > 0 /\ unread' = [unread EXCEPT ![j] = @ - 1]
      BY <1>1 DEF Consume
    <3> QED BY <2>1, <3>1 DEF TypeOK
  <2>2. /\ Parked' = Parked /\ cpc' = cpc /\ ppc' = ppc /\ cpc[c] = "poll"
        /\ \A d \in Clients : d # c => toScan'[d] = toScan[d]
    BY <1>1 DEF Consume, Parked, TypeOK
  <2> QED BY <2>1, <2>2, ParkedClients
<1>2. ASSUME NEW c \in Clients, PollEmpty(c) PROVE DataIsSeen'
  <2>1. /\ Parked' = Parked /\ unread' = unread /\ ppc' = ppc
        /\ cpc' = cpc /\ cpc[c] = "poll"
        /\ \A d \in Clients : d # c => toScan'[d] = toScan[d]
    BY <1>2 DEF PollEmpty, Parked, TypeOK
  <2> QED BY <2>1, ParkedClients
<1>3. ASSUME NEW c \in Clients, Forward(c) PROVE DataIsSeen'
  <2>1. Parked' = Parked \cup {c}
    BY <1>3, ParkedAppend DEF Forward
  <2> QED BY <1>3, <2>1, ParkedClients DEF Forward, TypeOK
<1>4. ASSUME NEW c \in Clients, SetWatching(c) PROVE DataIsSeen'
  BY <1>4, ParkedClients DEF SetWatching, Parked, TypeOK, CheckedInOrder, AfterArming
<1>5. ASSUME NEW c \in Clients, FlushStore(c) PROVE DataIsSeen'
  BY <1>5 DEF FlushStore
<1>6. ASSUME NEW c \in Clients, RingHasData(c) PROVE DataIsSeen'
  BY <1>6, ParkedClients DEF RingHasData, Parked, TypeOK
<1>7. ASSUME NEW c \in Clients, RingEmpty(c) PROVE DataIsSeen'
  BY <1>7, ParkedClients DEF RingEmpty, Parked, TypeOK
<1>8. ASSUME NEW c \in Clients, TestAndClear(c) PROVE DataIsSeen'
  <2>1. CASE watching
    BY <1>8, <2>1, ParkedClients DEF TestAndClear, Parked, TypeOK
  <2>2. CASE ~watching
    BY <1>8, <2>2, ParkedClients DEF TestAndClear, Parked, TypeOK, FlagGuardsArmed
  <2> QED BY <2>1, <2>2
<1>9. ASSUME NEW c \in Clients, ArmCompletes(c) PROVE DataIsSeen'
  BY <1>9, ParkedTail DEF ArmCompletes, TypeOK
<1>10. ASSUME NEW c \in Clients, ArmCompletedAll(c) PROVE DataIsSeen'
  BY <1>10, ParkedEmpty DEF ArmCompletedAll, Parked
<1>11. ASSUME NEW c \in Clients, Wake(c) PROVE DataIsSeen'
  <2>1. /\ Parked' = Parked /\ ppc' = ppc /\ unread' = unread
        /\ cpc[c] = "wait" /\ cpc'[c] = "poll"
        /\ \A d \in Clients : d # c => toScan'[d] = toScan[d] /\ cpc'[d] = cpc[d]
    BY <1>11 DEF Wake, Parked, TypeOK
  <2>2. (AboutToLook \/ Completing) => (AboutToLook' \/ Completing')
    BY <2>1
  <2>3. ASSUME NEW d \in Parked', NEW k \in Cores,
               cpc'[d] = "wait" \/ (cpc'[d] = "check" /\ k \notin toScan'[d]), unread'[k] > 0
        PROVE  AboutToLook \/ Completing
    <3>1. d # c /\ d \in Parked /\ d \in Clients
      BY <2>1, <2>3, ParkedClients
    <3> QED BY <2>1, <2>3, <3>1
  <2> QED BY <2>2, <2>3
<1>12. ASSUME NEW p \in Callouts, SwapWatching(p) PROVE DataIsSeen'
  <2>1. CASE watching
    BY <1>12, <2>1 DEF SwapWatching, Parked, TypeOK
  <2>2. CASE ~watching
    BY <1>12, <2>2, ParkedClients DEF SwapWatching, Parked, TypeOK, FlagGuardsArmed
  <2> QED BY <2>1, <2>2
<1>13. ASSUME NEW p \in Callouts, NotifyCompletes(p) PROVE DataIsSeen'
  BY <1>13, ParkedTail DEF NotifyCompletes, TypeOK
<1>14. ASSUME NEW p \in Callouts, NotifyCompletedAll(p) PROVE DataIsSeen'
  BY <1>14, ParkedEmpty DEF NotifyCompletedAll, Parked
<1>15. ASSUME NEW p \in Callouts, NEW k \in Cores, Commit(p, k) PROVE DataIsSeen'
  BY <1>15 DEF Commit, Parked, TypeOK
<1>16. CASE UNCHANGED vars
  BY <1>16 DEF vars, Parked
<1> QED
  BY <1>0, <1>1, <1>2, <1>3, <1>4, <1>5, <1>6, <1>7, <1>8, <1>9, <1>10, <1>11,
     <1>12, <1>13, <1>14, <1>15, <1>16 DEF Next, ClientStep, NotifyStep

(* The machine does not change. *)
LEMMA SameMachine == [Next]_vars => delays' = delays
  BY DEF Next, ClientStep, NotifyStep, Consume, PollEmpty, Forward, SetWatching, FlushStore,
     RingHasData, RingEmpty, TestAndClear, ArmCompletes, ArmCompletedAll, Wake, SwapWatching,
     NotifyCompletes, NotifyCompletedAll, Commit, vars

LEMMA NextWakeup == WakeupInv /\ [Next]_vars => WakeupInv'
<1> SUFFICES ASSUME WakeupInv, [Next]_vars PROVE WakeupInv'
  OBVIOUS
<1>1. TypeOK' /\ FlagGuardsArmed'
  BY NextWakeupType, NextGuards DEF WakeupInv
<1>2. CheckedInOrder' => CheckedInOrder
  BY SameMachine DEF CheckedInOrder
<1> QED
  BY <1>1, <1>2, NextSeen DEF WakeupInv

(* Type correctness of the wake-up protocol, for every instance. *)
THEOREM TypeCorrect == Spec => []TypeOK
<1>1. WakeupInv => TypeOK
  BY DEF WakeupInv
<1> QED
  BY <1>1, InitWakeup, NextWakeup, PTL DEF Spec

(* In every layer, for any number of threads and callouts and whatever the  *)
(* processor delays, a thread asleep has the flag up or somebody completing *)
(* requests (per_cpu_ring.rs:341-343): the next record wakes it.            *)
THEOREM NextRecordWakes == Spec => []SleeperStaysArmed
<1>1. WakeupInv => SleeperStaysArmed
  BY DEF WakeupInv, FlagGuardsArmed, SleeperStaysArmed, Asleep
<1> QED
  BY <1>1, InitWakeup, NextWakeup, PTL DEF Spec

(* In the packet layers the double check of arm_recv leaves no thread       *)
(* asleep over unread data (module.rs:157), provided the machine does not   *)
(* let its loads pass the store of the flag.                                *)
THEOREM DoubleCheckSuffices ==
  ASSUME Layer = "packet"
  PROVE  Spec => []DoubleCheckWorks
<1>1. WakeupInv => DoubleCheckWorks
  <2> SUFFICES ASSUME WakeupInv, ~delays, NEW c \in Clients, Asleep(c),
                      NEW k \in Cores, unread[k] > 0
               PROVE  AboutToLook \/ Completing
    BY DEF DoubleCheckWorks, NoLostWakeup, HasData
  <2> QED
    BY DEF WakeupInv, CheckedInOrder, DataIsSeen, Asleep
<1> QED
  BY <1>1, InitWakeup, NextWakeup, PTL DEF Spec
=============================================================================
