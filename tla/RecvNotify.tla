------------------------------ MODULE RecvNotify ------------------------------
(***************************************************************************)
(* How a client thread sleeps until a ring has data.  The thread polls its *)
(* cores, finds nothing and blocks in IOCTL_RECV; handle_recv parks the    *)
(* request in the handle's recv_queue and arms the watching flag; a callout *)
(* that commits a record takes the flag down and, if it was up, completes  *)
(* every parked request.                                                   *)
(*                                                                         *)
(* A ring is abstracted to the number of its committed, unread records     *)
(* (module RingBufferData has the ring itself).  Each step is one access   *)
(* to state the threads share: a ring's cursors, the flag, the WDF queue.  *)
(* The WDF queue operations are atomic, as the framework makes them.       *)
(***************************************************************************)
EXTENDS Integers, Sequences

CONSTANTS
  Clients,      \* user threads, each in poll_cores() with default_wait()
  Cores,        \* the rings, in the order they are scanned
  Owns,         \* Owns[c]: the cores thread c polls (poll_multi_threads)
  Callouts,     \* threads or DPCs that commit records
  MaxUnread,    \* bound: records a ring has room for
  Layer,        \* "packet", or "ale" (flow, socket) or "file"
  Delays        \* the machines considered: see delays

ASSUME CoresAssumption == Cores \subseteq Nat
ASSUME OwnsAssumption == Owns \in [Clients -> SUBSET Cores]
ASSUME MaxUnreadAssumption == MaxUnread \in Nat
ASSUME LayerAssumption == Layer \in {"packet", "ale", "file"} /\ Delays \subseteq BOOLEAN

VARIABLES
  unread,    \* records committed and not yet consumed, per ring
  watching,  \* PerCpuRingBuffer.is_watching
  delays,    \* a plain store may become visible after later loads (x86)
  buffered,  \* threads whose set_watching() store is not visible yet
  recvq,     \* Context.recv_queue: the threads whose request is parked, in order
  answered,  \* the threads whose request has been completed
  cpc,       \* where each client thread is, in poll_cores() or handle_recv()
  toScan,    \* the cores it has still to look at in this scan
  ppc        \* where each callout is, at the end of transaction()

vars == <<unread, watching, delays, buffered, recvq, answered, cpc, toScan, ppc>>

Init ==
  /\ unread = [k \in Cores |-> 0]
  /\ watching = FALSE
  /\ delays \in Delays
  /\ buffered = {} /\ recvq = <<>> /\ answered = {}
  /\ cpc = [c \in Clients |-> "poll"]
  /\ toScan = Owns
  /\ ppc = [p \in Callouts |-> "idle"]

-----------------------------------------------------------------------------
(* Client: poll_cores *)

(* The next core of the scan. *)
Next1(c, k) == k \in toScan[c] /\ \A j \in toScan[c] : k <= j

(* A packet: the callback has it, drops it, and the scan starts over. *)
Consume(c) ==
  /\ cpc[c] = "poll"
  /\ \E k \in Cores :
       /\ Next1(c, k) /\ unread[k] > 0
       /\ unread' = [unread EXCEPT ![k] = @ - 1]
  /\ toScan' = [toScan EXCEPT ![c] = Owns[c]]
  /\ UNCHANGED <<watching, buffered, recvq, answered, cpc, ppc, delays>>

PollEmpty(c) ==
  /\ cpc[c] = "poll"
  /\ \E k \in Cores :
       /\ Next1(c, k) /\ unread[k] = 0
       /\ toScan' = [toScan EXCEPT ![c] = @ \ {k}]
  /\ UNCHANGED <<unread, watching, buffered, recvq, answered, cpc, ppc, delays>>

-----------------------------------------------------------------------------
(* The same thread in the driver: handle_recv, arm_recv *)

(* Nothing on any core: IOCTL_RECV; the request is parked. *)
Forward(c) ==
  /\ cpc[c] = "poll" /\ toScan[c] = {}
  /\ recvq' = Append(recvq, c)
  /\ cpc' = [cpc EXCEPT ![c] = "arm"]
  /\ UNCHANGED <<unread, watching, buffered, answered, toScan, ppc, delays>>

(* Variant: no layer looks at the rings again. *)
AfterArmingWait == "wait"

(* Where arm_recv goes once the flag is set: only the packet layers look at *)
(* the rings again.                                                         *)
AfterArming == IF Layer = "packet" THEN "check" ELSE "wait"

(* set_notify_callback has run; set_watching stores the flag. *)
SetWatching(c) ==
  /\ cpc[c] = "arm"
  /\ IF delays
     THEN buffered' = buffered \cup {c} /\ UNCHANGED watching
     ELSE watching' = TRUE /\ UNCHANGED buffered
  /\ cpc' = [cpc EXCEPT ![c] = AfterArming]
  /\ toScan' = [toScan EXCEPT ![c] = IF Layer = "packet" THEN Cores ELSE {}]
  /\ UNCHANGED <<unread, recvq, answered, ppc, delays>>

(* The processor writes the buffered store to memory. *)
FlushStore(c) ==
  /\ c \in buffered
  /\ buffered' = buffered \ {c}
  /\ watching' = TRUE
  /\ UNCHANGED <<unread, recvq, answered, cpc, toScan, ppc, delays>>

(* has_unread_packets: one ring after the other, until one has data. *)
RingHasData(c) ==
  /\ cpc[c] = "check"
  /\ \E k \in Cores : Next1(c, k) /\ unread[k] > 0
  /\ cpc' = [cpc EXCEPT ![c] = "clear"]
  /\ UNCHANGED <<unread, watching, buffered, recvq, answered, toScan, ppc, delays>>

RingEmpty(c) ==
  /\ cpc[c] = "check"
  /\ \E k \in Cores :
       /\ Next1(c, k) /\ unread[k] = 0
       /\ toScan' = [toScan EXCEPT ![c] = @ \ {k}]
       /\ cpc' = [cpc EXCEPT ![c] = IF toScan[c] = {k} THEN "wait" ELSE "check"]
  /\ UNCHANGED <<unread, watching, buffered, recvq, answered, ppc, delays>>

(* test_and_clear_watching_flag; the locked exchange empties the buffer. *)
TestAndClear(c) ==
  /\ cpc[c] = "clear" /\ c \notin buffered
  /\ watching' = FALSE
  /\ cpc' = [cpc EXCEPT ![c] = IF watching THEN "complete" ELSE "wait"]
  /\ UNCHANGED <<unread, buffered, recvq, answered, toScan, ppc, delays>>

(* One turn of the retrieve-and-complete loop (in arm_recv and in           *)
(* packet_arrived_callback).                                                *)
CompleteOne ==
  /\ recvq # <<>>
  /\ recvq' = Tail(recvq)
  /\ answered' = answered \cup {Head(recvq)}

ArmCompletes(c) ==
  /\ cpc[c] = "complete"
  /\ CompleteOne
  /\ UNCHANGED <<unread, watching, buffered, cpc, toScan, ppc, delays>>

ArmCompletedAll(c) ==
  /\ cpc[c] = "complete" /\ recvq = <<>>
  /\ cpc' = [cpc EXCEPT ![c] = "wait"]
  /\ UNCHANGED <<unread, watching, buffered, recvq, answered, toScan, ppc, delays>>

(* The dispatch routine has returned and the request is complete: the       *)
(* thread is back in user mode and polls again.                             *)
Wake(c) ==
  /\ cpc[c] = "wait" /\ c \in answered /\ c \notin buffered
  /\ answered' = answered \ {c}
  /\ cpc' = [cpc EXCEPT ![c] = "poll"]
  /\ toScan' = [toScan EXCEPT ![c] = Owns[c]]
  /\ UNCHANGED <<unread, watching, buffered, recvq, ppc, delays>>

-----------------------------------------------------------------------------
(* Callout: the end of PerCpuRingBuffer::transaction *)

(* Variant: a record is committed to a full ring. *)
CommitToFull(p, k) ==
  /\ ppc[p] = "idle"
  /\ unread' = [unread EXCEPT ![k] = @ + 1]
  /\ ppc' = [ppc EXCEPT ![p] = "swap"]
  /\ UNCHANGED <<watching, buffered, recvq, answered, cpc, toScan, delays>>

Commit(p, k) ==
  /\ ppc[p] = "idle"
  /\ unread[k] < MaxUnread
  /\ unread' = [unread EXCEPT ![k] = @ + 1]
  /\ ppc' = [ppc EXCEPT ![p] = "swap"]
  /\ UNCHANGED <<watching, buffered, recvq, answered, cpc, toScan, delays>>

SwapWatching(p) ==
  /\ ppc[p] = "swap"
  /\ watching' = FALSE
  /\ ppc' = [ppc EXCEPT ![p] = IF watching THEN "notify" ELSE "idle"]
  /\ UNCHANGED <<unread, buffered, recvq, answered, cpc, toScan, delays>>

(* Variant: the callback completes a single request. *)
NotifyCompletesOne(p) ==
  /\ ppc[p] = "notify"
  /\ CompleteOne
  /\ ppc' = [ppc EXCEPT ![p] = "idle"]
  /\ UNCHANGED <<unread, watching, buffered, cpc, toScan, delays>>

NotifyCompletes(p) ==
  /\ ppc[p] = "notify"
  /\ CompleteOne
  /\ UNCHANGED <<unread, watching, buffered, cpc, toScan, ppc, delays>>

NotifyCompletedAll(p) ==
  /\ ppc[p] = "notify" /\ recvq = <<>>
  /\ ppc' = [ppc EXCEPT ![p] = "idle"]
  /\ UNCHANGED <<unread, watching, buffered, recvq, answered, cpc, toScan, delays>>

-----------------------------------------------------------------------------
ClientStep(c) ==
  \/ Consume(c) \/ PollEmpty(c) \/ Forward(c) \/ SetWatching(c)
  \/ RingHasData(c) \/ RingEmpty(c) \/ TestAndClear(c)
  \/ ArmCompletes(c) \/ ArmCompletedAll(c) \/ Wake(c)

NotifyStep(p) == SwapWatching(p) \/ NotifyCompletes(p) \/ NotifyCompletedAll(p)

Next ==
  \/ \E c \in Clients : ClientStep(c) \/ FlushStore(c)
  \/ \E p \in Callouts : NotifyStep(p) \/ \E k \in Cores : Commit(p, k)

Spec == Init /\ [][Next]_vars

(* Runnable threads run, a callout finishes, a store buffer is written out. *)
(* Nothing is assumed of new traffic.                                       *)
Fairness ==
  /\ \A c \in Clients : WF_vars(ClientStep(c)) /\ WF_vars(FlushStore(c))
  /\ \A p \in Callouts : WF_vars(NotifyStep(p))

FairSpec == Spec /\ Fairness

-----------------------------------------------------------------------------
(* Type invariant. *)
TypeOK ==
  /\ unread \in [Cores -> 0..MaxUnread]
  /\ watching \in BOOLEAN /\ delays \in BOOLEAN
  /\ buffered \subseteq Clients /\ recvq \in Seq(Clients) /\ answered \subseteq Clients
  /\ cpc \in [Clients -> {"poll", "arm", "check", "clear", "complete", "wait"}]
  /\ toScan \in [Clients -> SUBSET Cores]
  /\ ppc \in [Callouts -> {"idle", "swap", "notify"}]

Parked == {recvq[i] : i \in DOMAIN recvq}

(* The thread sleeps in IOCTL_RECV: its dispatch is over and its request is *)
(* still parked.                                                            *)
Asleep(c) == cpc[c] = "wait" /\ c \in Parked /\ c \notin buffered

HasData == \E k \in Cores : unread[k] > 0

(* Someone is in a loop that completes every parked request. *)
Completing ==
  (\E p \in Callouts : ppc[p] = "notify") \/ (\E c \in Clients : cpc[c] = "complete")

(* Someone is about to look at the flag because it saw data. *)
AboutToLook ==
  (\E p \in Callouts : ppc[p] = "swap") \/ (\E c \in Clients : cpc[c] = "clear")

(* module.rs:157, "Double check to prevent race condition"; divert.rs:320,  *)
(* "blocks using IOCTL when no events/packets are available": a thread is   *)
(* not left asleep over unread data with nobody on the way to wake it.      *)
NoLostWakeup ==
  (\E c \in Clients : Asleep(c)) /\ HasData => AboutToLook \/ Completing

(* per_cpu_ring.rs:341-343: in every layer, and whatever the processor      *)
(* delays, a thread asleep has the flag up, or a completer running, so that *)
(* at the latest the next record wakes it.                                  *)
SleeperStaysArmed ==
  \A c \in Clients : Asleep(c) => watching \/ Completing

(* module.rs:157: what the double check does achieve, on a machine that     *)
(* does not let its loads pass the store of the flag.                       *)
DoubleCheckWorks == ~delays => NoLostWakeup

(* The same promise end to end: a thread asleep over unread data wakes.     *)
SleepersWake ==
  \A c \in Clients : Asleep(c) /\ HasData /\ ~delays ~> cpc[c] = "poll"

-----------------------------------------------------------------------------
(* The inductive invariant behind SleeperStaysArmed and NoLostWakeup.  A    *)
(* parked and armed request either finds the flag up or somebody completing *)
(* requests; and in the packet layers data that its thread has looked past  *)
(* has somebody about to look at the flag.                                  *)
FlagGuardsArmed ==
  \A c \in Parked : cpc[c] \notin {"poll", "arm"} /\ c \notin buffered =>
    watching \/ Completing

DataIsSeen ==
  \A c \in Parked, k \in Cores :
    (cpc[c] = "wait" \/ (cpc[c] = "check" /\ k \notin toScan[c])) /\ unread[k] > 0
      => AboutToLook \/ Completing

(* The setting in which the double check works: the packet layers, on a     *)
(* machine that does not let the later loads pass the store of the flag.    *)
CheckedInOrder == Layer = "packet" /\ ~delays

WakeupInv ==
  /\ TypeOK /\ FlagGuardsArmed
  /\ CheckedInOrder => buffered = {} /\ DataIsSeen
=============================================================================
