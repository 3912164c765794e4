----------------------------- MODULE LockFreeQueue -----------------------------
(***************************************************************************)
(* The Michael-Scott queue of src/src/ringbuffer/cas_queue.rs, one action  *)
(* per load or compare-exchange of a shared pointer.  The module has the   *)
(* operations only; LockedRing runs them.                                  *)
(*                                                                         *)
(* Addresses are handed out once, and a freed node keeps its contents:     *)
(* the allocator most favourable to the code, which frees a node while     *)
(* other threads may still hold its address (see NoDanglingAccess).        *)
(***************************************************************************)
EXTENDS Integers, Sequences

CONSTANTS
  Threads,  \* threads or DPCs that use the queue
  MaxNodes  \* bound: nodes ever allocated, the first sentinel included

ASSUME MaxNodesAssumption == MaxNodes \in Nat \ {0}

VARIABLES
  qhead,  \* LockFreeQueue.head: the sentinel
  qtail,  \* LockFreeQueue.tail: the last node, or one that was
  link,   \* Node.next
  value,  \* Node.value: <<>> is None, <<v>> is Some(v)
  live,   \* the nodes allocated and not freed
  fresh,  \* the next address to hand out
  qpc,    \* where each thread is in enqueue, dequeue or is_empty
  node,   \* new_node
  hd, tl, nx,  \* the head, tail and next a thread has loaded
  ret     \* what dequeue returns: <<v>>, or <<>> for None

queueVars == <<qhead, qtail, link, value, live, fresh, qpc, node, hd, tl, nx, ret>>

Nodes == 1..MaxNodes
Null == 0

(* new(): one sentinel. *)
QueueInit ==
  /\ qhead = 1 /\ qtail = 1
  /\ link = [n \in Nodes |-> Null]
  /\ value = [n \in Nodes |-> <<>>]
  /\ live = {1} /\ fresh = 2
  /\ qpc = [t \in Threads |-> "out"]
  /\ node = [t \in Threads |-> Null]
  /\ hd = [t \in Threads |-> Null]
  /\ tl = [t \in Threads |-> Null]
  /\ nx = [t \in Threads |-> Null]
  /\ ret = [t \in Threads |-> <<>>]

Go(t, from, to) == qpc[t] = from /\ qpc' = [qpc EXCEPT ![t] = to]

(* The call returns and its locals are gone. *)
Leave(t, from, result) ==
  /\ Go(t, from, "out")
  /\ node' = [node EXCEPT ![t] = Null]
  /\ hd' = [hd EXCEPT ![t] = Null]
  /\ tl' = [tl EXCEPT ![t] = Null]
  /\ nx' = [nx EXCEPT ![t] = Null]
  /\ ret' = [ret EXCEPT ![t] = result]

-----------------------------------------------------------------------------
(* enqueue *)

EnqAlloc(t, v) ==
  /\ Go(t, "out", "e_tail")
  /\ fresh <= MaxNodes
  /\ fresh' = fresh + 1
  /\ live' = live \cup {fresh}
  /\ node' = [node EXCEPT ![t] = fresh]
  /\ value' = [value EXCEPT ![fresh] = <<v>>]
  /\ UNCHANGED <<qhead, qtail, link, hd, tl, nx, ret>>

EnqLoadTail(t) ==
  /\ Go(t, "e_tail", "e_next")
  /\ tl' = [tl EXCEPT ![t] = qtail]
  /\ UNCHANGED <<qhead, qtail, link, value, live, fresh, node, hd, nx, ret>>

EnqLoadNext(t) ==
  /\ Go(t, "e_next", "e_check")
  /\ nx' = [nx EXCEPT ![t] = link[tl[t]]]
  /\ UNCHANGED <<qhead, qtail, link, value, live, fresh, node, hd, tl, ret>>

EnqCheck(t) ==
  /\ Go(t, "e_check",
        IF tl[t] # qtail THEN "e_tail" ELSE IF nx[t] = Null THEN "e_link" ELSE "e_help")
  /\ UNCHANGED <<qhead, qtail, link, value, live, fresh, node, hd, tl, nx, ret>>

(* Variant: next is stored, whatever another enqueue has put there. *)
EnqLinkedOver(t) ==
  /\ Go(t, "e_link", "e_swing")
  /\ link' = [link EXCEPT ![tl[t]] = node[t]]
  /\ UNCHANGED <<qhead, qtail, value, live, fresh, node, hd, tl, nx, ret>>

EnqLinked(t) ==
  /\ Go(t, "e_link", "e_swing")
  /\ link[tl[t]] = Null
  /\ link' = [link EXCEPT ![tl[t]] = node[t]]
  /\ UNCHANGED <<qhead, qtail, value, live, fresh, node, hd, tl, nx, ret>>

EnqLostRace(t) ==
  /\ Go(t, "e_link", "e_tail")
  /\ link[tl[t]] # Null
  /\ UNCHANGED <<qhead, qtail, link, value, live, fresh, node, hd, tl, nx, ret>>

(* The swing of tail, its failure ignored; the new node is in either way. *)
EnqSwing(t) ==
  /\ Leave(t, "e_swing", <<>>)
  /\ qtail' = IF qtail = tl[t] THEN node[t] ELSE qtail
  /\ UNCHANGED <<qhead, link, value, live, fresh>>

(* Tail lags behind another enqueue: help it, and start over. *)
EnqHelp(t) ==
  /\ Go(t, "e_help", "e_tail")
  /\ qtail' = IF qtail = tl[t] THEN nx[t] ELSE qtail
  /\ UNCHANGED <<qhead, link, value, live, fresh, node, hd, tl, nx, ret>>

-----------------------------------------------------------------------------
(* dequeue *)

DeqLoadHead(t, from) ==
  /\ Go(t, from, "d_tail")
  /\ hd' = [hd EXCEPT ![t] = qhead]
  /\ UNCHANGED <<qhead, qtail, link, value, live, fresh, node, tl, nx, ret>>

DeqLoadTail(t) ==
  /\ Go(t, "d_tail", "d_next")
  /\ tl' = [tl EXCEPT ![t] = qtail]
  /\ UNCHANGED <<qhead, qtail, link, value, live, fresh, node, hd, nx, ret>>

DeqLoadNext(t) ==
  /\ Go(t, "d_next", "d_check")
  /\ nx' = [nx EXCEPT ![t] = link[hd[t]]]
  /\ UNCHANGED <<qhead, qtail, link, value, live, fresh, node, hd, tl, ret>>

(* Variant: the tail that lags behind is not helped before head moves. *)
DeqCheckNoHelp(t) ==
  /\ ~(hd[t] = qhead /\ hd[t] = tl[t] /\ nx[t] = Null)
  /\ Go(t, "d_check", IF hd[t] # qhead THEN "d_head" ELSE "d_swing")
  /\ UNCHANGED <<qhead, qtail, link, value, live, fresh, node, hd, tl, nx, ret>>

(* Variant: an empty queue is not told from one whose tail lags. *)
DeqCheckNoNone(t) ==
  /\ Go(t, "d_check",
        IF hd[t] # qhead THEN "d_head" ELSE IF hd[t] = tl[t] THEN "d_help" ELSE "d_swing")
  /\ UNCHANGED <<qhead, qtail, link, value, live, fresh, node, hd, tl, nx, ret>>

(* The second load of head, and what it leads to other than None. *)
DeqCheck(t) ==
  /\ ~(hd[t] = qhead /\ hd[t] = tl[t] /\ nx[t] = Null)
  /\ Go(t, "d_check",
        IF hd[t] # qhead THEN "d_head" ELSE IF hd[t] = tl[t] THEN "d_help" ELSE "d_swing")
  /\ UNCHANGED <<qhead, qtail, link, value, live, fresh, node, hd, tl, nx, ret>>

DeqNone(t) ==
  /\ hd[t] = qhead /\ hd[t] = tl[t] /\ nx[t] = Null
  /\ Leave(t, "d_check", <<>>)
  /\ UNCHANGED <<qhead, qtail, link, value, live, fresh>>

DeqHelp(t) ==
  /\ Go(t, "d_help", "d_head")
  /\ qtail' = IF qtail = tl[t] THEN nx[t] ELSE qtail
  /\ UNCHANGED <<qhead, link, value, live, fresh, node, hd, tl, nx, ret>>

DeqSwing(t) ==
  /\ Go(t, "d_swing", IF qhead = hd[t] THEN "d_take" ELSE "d_head")
  /\ qhead' = IF qhead = hd[t] THEN nx[t] ELSE qhead
  /\ UNCHANGED <<qtail, link, value, live, fresh, node, hd, tl, nx, ret>>

(* The value moves out of the new sentinel, and the old one is freed. *)
DeqTake(t) ==
  /\ qpc[t] = "d_take"
  /\ Leave(t, "d_take", value[nx[t]])
  /\ value' = [value EXCEPT ![nx[t]] = <<>>]
  /\ live' = live \ {hd[t]}
  /\ UNCHANGED <<qhead, qtail, link, fresh>>

-----------------------------------------------------------------------------
(* is_empty *)

EmptyLoadHead(t) ==
  /\ Go(t, "out", "i_next")
  /\ hd' = [hd EXCEPT ![t] = qhead]
  /\ UNCHANGED <<qhead, qtail, link, value, live, fresh, node, tl, nx, ret>>

EmptyLoadNext(t) ==
  /\ Leave(t, "i_next", <<>>)
  /\ UNCHANGED <<qhead, qtail, link, value, live, fresh>>

(* What EmptyLoadNext returns. *)
SeesEmpty(t) == link[hd[t]] = Null

-----------------------------------------------------------------------------
(* A step inside a call that is under way. *)
QueueStep(t) ==
  \/ EnqLoadTail(t) \/ EnqLoadNext(t) \/ EnqCheck(t) \/ EnqLinked(t) \/ EnqLostRace(t)
  \/ EnqHelp(t)
  \/ DeqLoadHead(t, "d_head") \/ DeqLoadTail(t) \/ DeqLoadNext(t) \/ DeqCheck(t)
  \/ DeqHelp(t) \/ DeqSwing(t)

-----------------------------------------------------------------------------
QueueTypeOK ==
  /\ qhead \in Nodes /\ qtail \in Nodes
  /\ link \in [Nodes -> Nodes \cup {Null}]
  /\ value \in [Nodes -> Seq(Threads \X Nat)]
  /\ live \subseteq Nodes /\ fresh \in Nat
  /\ qpc \in [Threads -> {"out", "e_tail", "e_next", "e_check", "e_link", "e_swing", "e_help",
                          "d_head", "d_tail", "d_next", "d_check", "d_help", "d_swing",
                          "d_take", "i_next"}]
  /\ node \in [Threads -> Nodes \cup {Null}]
  /\ hd \in [Threads -> Nodes \cup {Null}]
  /\ tl \in [Threads -> Nodes \cup {Null}]
  /\ nx \in [Threads -> Nodes \cup {Null}]
  /\ ret \in [Threads -> Seq(Threads \X Nat)]

(* The nodes after n, in order. *)
After[n \in 0..MaxNodes] ==
  IF n = Null \/ link[n] = Null THEN <<>> ELSE <<link[n]>> \o After[link[n]]
=============================================================================
