--------------------------- MODULE LockedRingOrder ---------------------------
(***************************************************************************)
(* LockedRing seen as the record queue of module RecordQueue.  A record is *)
(* accepted when its node is linked; the one the drainer has dequeued is   *)
(* still the oldest until the inner ring has taken or refused it.          *)
(***************************************************************************)
EXTENDS LockedRing

InFlight ==
  IF \E t \in Threads : qpc[t] = "d_take" \/ dpc[t] = "ship"
  THEN LET t == CHOOSE u \in Threads : qpc[u] = "d_take" \/ dpc[u] = "ship"
       IN  IF dpc[t] = "ship" THEN ret[t] ELSE value[nx[t]]
  ELSE <<>>

Queue == INSTANCE RecordQueue
           WITH items <- InFlight \o [i \in DOMAIN Queued |-> Queued[i][1]]

(* The locked ring implements the record queue: nothing is lost, doubled or *)
(* reordered between push_record and the inner ring.                        *)
ImplementsQueue == Queue!Spec
=============================================================================
