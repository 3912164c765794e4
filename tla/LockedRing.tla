------------------------------ MODULE LockedRing ------------------------------
(***************************************************************************)
(* LockedRingBuffer (src/src/ringbuffer/locked_ring.rs), the ring of the   *)
(* flow and socket layers: a callout enqueues its record in the lock-free  *)
(* queue, and whoever holds drain_lock moves the queue into the inner      *)
(* single-producer ring.  The inner ring is the sequence of the records it *)
(* accepted (module RingBufferData is the ring itself).                    *)
(***************************************************************************)
EXTENDS LockFreeQueue

CONSTANTS
  Pushes,  \* bound: records each thread pushes
  Delays   \* the machines considered: see delays

ASSUME PushesAssumption == Pushes \in Nat /\ Delays \subseteq BOOLEAN

VARIABLES
  drainLock,  \* LockedRingBuffer.drain_lock
  delays,     \* a plain store may become visible after later loads (x86)
  buffered,   \* threads whose store of drain_lock is not visible yet
  dpc,        \* where each thread is in push_record and drain
  pushed,     \* records each thread has pushed
  out         \* the records the inner ring accepted, in order

vars == <<queueVars, drainLock, delays, buffered, dpc, pushed, out>>

Init ==
  /\ QueueInit
  /\ drainLock = FALSE /\ buffered = {}
  /\ delays \in Delays
  /\ dpc = [t \in Threads |-> "idle"]
  /\ pushed = [t \in Threads |-> 0]
  /\ out = <<>>

Move(t, from, to) == dpc[t] = from /\ dpc' = [dpc EXCEPT ![t] = to]

(* push_record: the new node. *)
Push(t) ==
  /\ pushed[t] < Pushes /\ t \notin buffered
  /\ Move(t, "idle", "push")
  /\ pushed' = [pushed EXCEPT ![t] = @ + 1]
  /\ EnqAlloc(t, <<t, pushed[t] + 1>>)
  /\ UNCHANGED <<drainLock, buffered, out, delays>>

InQueue(t) ==
  /\ dpc[t] \in {"push", "drain"}
  /\ QueueStep(t)
  /\ UNCHANGED <<drainLock, buffered, dpc, pushed, out, delays>>

Pushed(t) ==
  /\ Move(t, "push", "lock")
  /\ EnqSwing(t)
  /\ UNCHANGED <<drainLock, buffered, pushed, out, delays>>

(* Variant: the lock is stored to, not compare-exchanged. *)
LockDrainByStore(t, from) ==
  /\ t \notin buffered
  /\ Move(t, from, "drain")
  /\ drainLock' = TRUE
  /\ UNCHANGED <<queueVars, buffered, pushed, out, delays>>

(* drain: the lock is taken, the first time or again. *)
LockDrain(t, from) ==
  /\ ~drainLock /\ t \notin buffered
  /\ Move(t, from, "drain")
  /\ drainLock' = TRUE
  /\ UNCHANGED <<queueVars, buffered, pushed, out, delays>>

(* It is held: its holder will drain what we enqueued. *)
LeaveToHolder(t, from) ==
  /\ drainLock /\ t \notin buffered
  /\ Move(t, from, "idle")
  /\ UNCHANGED <<queueVars, drainLock, buffered, pushed, out, delays>>

StartDequeue(t) ==
  /\ dpc[t] = "drain"
  /\ DeqLoadHead(t, "out")
  /\ UNCHANGED <<drainLock, buffered, dpc, pushed, out, delays>>

GotItem(t) ==
  /\ Move(t, "drain", "ship")
  /\ DeqTake(t)
  /\ UNCHANGED <<drainLock, buffered, pushed, out, delays>>

GotNone(t) ==
  /\ Move(t, "drain", "unlock")
  /\ DeqNone(t)
  /\ UNCHANGED <<drainLock, buffered, pushed, out, delays>>

(* inner.transaction: the record goes in, or the ring is full and the error *)
(* is ignored.                                                              *)
Ship(t) ==
  /\ Move(t, "ship", "drain")
  /\ out' = out \o ret[t] \/ out' = out
  /\ ret' = [ret EXCEPT ![t] = <<>>]
  /\ UNCHANGED <<qhead, qtail, link, value, live, fresh, qpc, node, hd, tl, nx,
                 drainLock, buffered, pushed, delays>>

(* drain_lock.store(false). *)
UnlockDrain(t) ==
  /\ Move(t, "unlock", "probe")
  /\ IF delays
     THEN buffered' = buffered \cup {t} /\ UNCHANGED drainLock
     ELSE drainLock' = FALSE /\ UNCHANGED buffered
  /\ UNCHANGED <<queueVars, pushed, out, delays>>

FlushStore(t) ==
  /\ t \in buffered
  /\ buffered' = buffered \ {t}
  /\ drainLock' = FALSE
  /\ UNCHANGED <<queueVars, dpc, pushed, out, delays>>

(* The double check: is_empty, then try for the lock again. *)
StartProbe(t) ==
  /\ dpc[t] = "probe"
  /\ EmptyLoadHead(t)
  /\ UNCHANGED <<drainLock, buffered, dpc, pushed, out, delays>>

(* Variant: drain returns after the unlock without the double check. *)
ProbedOnce(t) ==
  /\ qpc[t] = "i_next"
  /\ Move(t, "probe", "idle")
  /\ EmptyLoadNext(t)
  /\ UNCHANGED <<drainLock, buffered, pushed, out, delays>>

Probed(t) ==
  /\ qpc[t] = "i_next"
  /\ Move(t, "probe", IF SeesEmpty(t) THEN "idle" ELSE "again")
  /\ EmptyLoadNext(t)
  /\ UNCHANGED <<drainLock, buffered, pushed, out, delays>>

-----------------------------------------------------------------------------
DrainStep(t) ==
  \/ InQueue(t) \/ Pushed(t)
  \/ \E from \in {"lock", "again"} : LockDrain(t, from) \/ LeaveToHolder(t, from)
  \/ StartDequeue(t) \/ GotItem(t) \/ GotNone(t) \/ Ship(t)
  \/ UnlockDrain(t) \/ StartProbe(t) \/ Probed(t)

Next == \E t \in Threads : Push(t) \/ DrainStep(t) \/ FlushStore(t)

Spec == Init /\ [][Next]_vars

(* A thread inside push_record keeps running. *)
Fairness == \A t \in Threads : WF_vars(DrainStep(t)) /\ WF_vars(FlushStore(t))

FairSpec == Spec /\ Fairness

-----------------------------------------------------------------------------
(* Type invariant. *)
TypeOK ==
  /\ QueueTypeOK
  /\ drainLock \in BOOLEAN /\ delays \in BOOLEAN /\ buffered \subseteq Threads
  /\ dpc \in [Threads -> {"idle", "push", "lock", "drain", "ship", "unlock", "probe", "again"}]
  /\ pushed \in [Threads -> 0..Pushes]
  /\ out \in Seq(Threads \X Nat)

Draining(t) == dpc[t] \in {"drain", "ship", "unlock"}

(* locked_ring.rs:24-25: writes into the inner ring are serialized.         *)
OneDrainer ==
  \A t, u \in Threads : Draining(t) /\ Draining(u) => t = u

(* The records in the queue, oldest first. *)
Queued == LET ns == After[qhead] IN [i \in DOMAIN ns |-> value[ns[i]]]

(* locked_ring.rs:122-123: "we must re-acquire and continue draining to     *)
(* prevent packet freezing": once every call has returned, no node follows  *)
(* the sentinel.                                                            *)
NothingFrozen ==
  (\A t \in Threads : dpc[t] = "idle") /\ buffered = {} => link[qhead] = Null

(* What the double check achieves on a machine whose loads do not pass the  *)
(* unlock.                                                                  *)
NothingFrozenInOrder == ~delays => NothingFrozen

(* cas_queue.rs:38-82: tail never falls behind head, and lags the end of    *)
(* the list by at most the one node whose enqueue is about to swing it.     *)
TailKeepsUp ==
  /\ qtail = qhead \/ \E i \in DOMAIN After[qhead] : After[qhead][i] = qtail
  /\ Len(After[qtail]) <= 1

(* cas_queue.rs:16, "A thread-safe, lock-free Michael-Scott FIFO Queue": no *)
(* thread is about to follow a pointer to a node that has been freed.       *)
NoDanglingAccess ==
  \A t \in Threads :
    /\ qpc[t] \in {"e_next", "e_link"} => tl[t] \in live
    /\ qpc[t] \in {"d_next", "i_next"} => hd[t] \in live
    /\ qpc[t] = "d_take" => nx[t] \in live

(* locked_ring.rs:122-123: on such a machine what was pushed is shipped or  *)
(* dropped in the end, whatever the order of unlocks and pushes.            *)
QueueDrains == Queued # <<>> /\ ~delays ~> Queued = <<>>
=============================================================================
