------------------------------ MODULE PacketPath ------------------------------
(***************************************************************************)
(* What becomes of a packet on a handle: the classify callouts             *)
(* (src/src/network/callout_*.rs) put a copy into the ring and let it go   *)
(* on or block it; the client takes the copy and sends it back with        *)
(* IOCTL_SEND (module.rs, inject.rs); the injected packet meets the same   *)
(* callout again, which must recognise it.                                 *)
(*                                                                         *)
(* A net buffer list (NBL) carries packets through the legs of its path: a *)
(* packet sent to this machine is seen going out and coming in.  The NBLs  *)
(* are those of the traffic (Lists) and one for each send request.  The    *)
(* ring is that of module RingBufferData, a record at a time, and one for  *)
(* all processors.  A BPF program is the set of packets it accepts; that   *)
(* every packet can be mapped is assumed.  WFP is external: it shows an    *)
(* injected NBL to the callouts of the leg it was injected on, knows by    *)
(* which injection handle, and calls the completion function once for each *)
(* injection it accepted.                                                  *)
(***************************************************************************)
EXTENDS Integers, Sequences

CONSTANTS
  Lists,      \* the NBLs of the traffic
  Content,    \* the packets in each of them
  Path,       \* the directions in which each passes the callouts
  Layers,     \* the layers the handle may be opened on
  Programs,   \* the BPF programs the client loads
  Crafted,    \* a packet the client makes itself
  MaxSends,   \* bound: send requests
  Slots       \* records the ring has room for

Reqs == 1..MaxSends
Nbls == Lists \cup Reqs
PacketLayers == {"network", "forward", "transport"}
Resources == {"mdl", "context", "nbl"}
Dispatched == {"begun", "inject", "return"}

ASSUME BoundsAssumption == MaxSends \in Nat /\ Slots \in Nat \ {0}

Packets == UNION {{Content[l][k] : k \in 1..Len(Content[l])} : l \in Lists}

(* Packets are told apart; a list has at least one, and a path a leg. *)
ASSUME TrafficAssumption ==
  /\ Content \in [Lists -> Seq(Packets)] /\ Path \in [Lists -> Seq({"in", "out"})]
  /\ \A l \in Lists : Content[l] # <<>> /\ Path[l] # <<>>
  /\ \A l, m \in Lists : \A k \in 1..Len(Content[l]), n \in 1..Len(Content[m]) :
       Content[l][k] = Content[m][n] => l = m /\ k = n
  /\ Crafted \notin Packets /\ Lists \cap Reqs = {}

\* The empty program, with which a handle starts.
NoFilter == Packets \cup {Crafted}

VARIABLES
  layer,     \* Context.layer, set by IOCTL_INITIALIZE
  recvOnly,  \* the handle was opened with Flags::RecvOnly
  live,      \* init_wfp has committed: the callouts are called
  readOnly,  \* packet_read_only
  started,   \* IOCTL_STARTUP has returned
  program,   \* bpf_program
  nbl,       \* the NBLs
  ring,      \* the ring's records, the client's PacketRef being of the first
  client,    \* what the client is doing; "sent": it has sent back the packet it holds
  rq,        \* where each send request is in handle_send
  owns,      \* what has been allocated for it and not freed
  owed,      \* requests whose completion function WFP will call
  completed  \* how often each request has been completed

setupVars == <<layer, recvOnly, live, readOnly, started, program>>
sendVars == <<rq, owns, owed, completed>>
vars == <<setupVars, nbl, ring, client, sendVars>>

\* A stream, flow or socket callout is called for one thing at a time.
Seen(l) == IF layer \in PacketLayers THEN Content[l] ELSE <<Content[l][1]>>

Unsent == [pkts |-> <<>>, src |-> "none", leg |-> 0, mark |-> "none",
           st |-> "none", nb |-> 0, matched |-> {}, torn |-> FALSE]

Init ==
  /\ layer \in Layers /\ recvOnly \in BOOLEAN
  /\ live = FALSE /\ readOnly = FALSE /\ started = FALSE
  /\ program = NoFilter
  /\ nbl = [i \in Nbls |->
              IF i \in Lists
              THEN [Unsent EXCEPT !.pkts = Seen(i), !.src = i, !.leg = 1, !.st = "wire"]
              ELSE Unsent]
  /\ ring = <<>> /\ client = "poll"
  /\ rq = [r \in Reqs |-> "free"]
  /\ owns = [r \in Reqs |-> {}]
  /\ owed = {}
  /\ completed = [r \in Reqs |-> 0]

-----------------------------------------------------------------------------
(* Opening the handle *)

(* init_wfp commits its transaction. *)
InitWfp ==
  /\ ~live /\ live' = TRUE
  /\ UNCHANGED <<layer, recvOnly, readOnly, started, program, nbl, ring, client, sendVars>>

(* The rest of NetworkModule::startup; open returns. *)
Startup ==
  /\ live /\ ~started /\ started' = TRUE
  /\ readOnly' = recvOnly
  /\ UNCHANGED <<layer, recvOnly, live, program, nbl, ring, client, sendVars>>

HasBuffer(i) == nbl[i].st = "classify" /\ nbl[i].nb <= Len(nbl[i].pkts)

(* IOCTL_SET_BPF, at any time after that.  The old program is freed, even   *)
(* if a callout is running it.                                              *)
SetBpf(p) ==
  /\ started /\ p # program /\ program' = p
  /\ nbl' = [i \in Nbls |-> [nbl[i] EXCEPT !.torn = HasBuffer(i)]]
  /\ UNCHANGED <<layer, recvOnly, live, readOnly, started, ring, client, sendVars>>

-----------------------------------------------------------------------------
(* The injection handle of each layer, for a direction *)

NetworkHandle(dir) == dir
ForwardHandle(dir) == "forward"
TransportHandle(dir) == dir

Handle(dir) ==
  CASE layer = "network" -> NetworkHandle(dir)
    [] layer = "forward" -> ForwardHandle(dir)
    [] layer = "transport" -> TransportHandle(dir)
    [] OTHER -> "stream"

(* A packet in transit is forwarded once; a connection is authorised once. *)
Legs(l) == IF layer \in {"network", "transport"} THEN Path[l] ELSE <<Path[l][1]>>

Direction(i) == Legs(nbl[i].src)[nbl[i].leg]

-----------------------------------------------------------------------------
(* The classify functions *)

(* External: the NBL passes the rest of this leg, and the next one begins. *)
Onward(i) ==
  LET on == [nbl[i] EXCEPT !.nb = 0, !.matched = {}]
  IN  nbl' = [nbl EXCEPT ![i] = IF on.leg < Len(Legs(on.src))
                                THEN [on EXCEPT !.leg = @ + 1, !.st = "wire"]
                                ELSE [on EXCEPT !.st = "delivered"]]

(* No filter is registered, or another callout has taken the right to      *)
(* write the verdict.                                                      *)
NotOurs(i) ==
  /\ nbl[i].st = "wire"
  /\ Onward(i)
  /\ UNCHANGED <<setupVars, ring, client, sendVars>>

(* Variant: the Forward arm of the match is missing. *)
NotForwardInjected(i) == layer \in {"network", "transport"} /\ nbl[i].mark = Handle(Direction(i))

(* is_self_injected *)
IsSelfInjected(i) == layer \in PacketLayers /\ nbl[i].mark = Handle(Direction(i))

SelfInjected(i) ==
  /\ live /\ nbl[i].st = "wire" /\ IsSelfInjected(i)
  /\ Onward(i)
  /\ UNCHANGED <<setupVars, ring, client, sendVars>>

Classify(i) ==
  /\ live /\ layer # "reflect" /\ nbl[i].st = "wire" /\ ~IsSelfInjected(i)
  /\ nbl' = [nbl EXCEPT ![i].st = "classify", ![i].nb = 1, ![i].matched = {}]
  /\ UNCHANGED <<setupVars, ring, client, sendVars>>

(* filter_packet.  A program that was freed while it ran may have said     *)
(* anything.                                                               *)
FilterResults(i) ==
  IF nbl[i].torn THEN BOOLEAN ELSE {nbl[i].pkts[nbl[i].nb] \in program}

TransportFilterResults(i) == FilterResults(i)
SocketFilterResults(i) == FilterResults(i)

Record(i) == [pkt |-> nbl[i].pkts[nbl[i].nb], src |-> nbl[i].src, leg |-> nbl[i].leg]

(* Variant: no test for room. *)
PushedOver(rec) == Append(ring, rec)

(* transaction or push_record: what the ring has no room for is dropped. *)
Pushed(rec) == IF Len(ring) < Slots THEN Append(ring, rec) ELSE ring

(* The next buffer: whether the filter matches it, and whether it is copied. *)
Process(i, passes, copied) ==
  /\ nbl' = [nbl EXCEPT ![i].nb = @ + 1, ![i].torn = FALSE,
                        ![i].matched = IF passes THEN @ \cup {Record(i).pkt} ELSE @]
  /\ ring' = IF copied THEN Pushed(Record(i)) ELSE ring
  /\ UNCHANGED <<setupVars, client, sendVars>>

ProcessNetwork(i) ==
  /\ layer \in {"network", "forward"} /\ HasBuffer(i)
  /\ \E passes \in FilterResults(i) : Process(i, passes, passes)

ProcessTransport(i) ==
  /\ layer = "transport" /\ HasBuffer(i)
  /\ \E passes \in TransportFilterResults(i) : Process(i, passes, passes)

(* Stream and flow have no filter.  A stream indication without bytes, such *)
(* as a FIN, is not copied.                                                 *)
ProcessStream(i) ==
  layer = "stream" /\ HasBuffer(i) /\ \E data \in BOOLEAN : Process(i, data, data)
ProcessFlow(i) == layer = "flow" /\ HasBuffer(i) /\ Process(i, TRUE, TRUE)

(* The socket callout reports what its filter rejects as well.  It decides  *)
(* before it pushes: what it has matched is what it will block.             *)
ProcessSocket(i) ==
  /\ layer = "socket" /\ HasBuffer(i)
  /\ \E passes \in SocketFilterResults(i) : Process(i, ~readOnly /\ passes, TRUE)

(* The verdict: block (and absorb), or let go on. *)
Returns(i, blocks) ==
  /\ nbl[i].st = "classify" /\ nbl[i].nb > Len(nbl[i].pkts)
  /\ IF blocks THEN nbl' = [nbl EXCEPT ![i].st = "blocked", ![i].nb = 0]
               ELSE Onward(i)
  /\ UNCHANGED <<setupVars, ring, client, sendVars>>

(* Variant: a list is judged by its first packet. *)
NetworkReturnsFirst(i) ==
  layer \in {"network", "forward"} /\ Returns(i, ~readOnly /\ nbl[i].pkts[1] \in nbl[i].matched)

NetworkReturns(i) == layer \in {"network", "forward"} /\ Returns(i, ~readOnly)
TransportReturns(i) == layer = "transport" /\ Returns(i, ~readOnly)
StreamReturns(i) == layer = "stream" /\ Returns(i, FALSE)
FlowReturns(i) == layer = "flow" /\ Returns(i, FALSE)
SocketReturns(i) == layer = "socket" /\ Returns(i, nbl[i].matched # {})

ProcessBuffer(i) ==
  \/ ProcessNetwork(i) \/ ProcessTransport(i) \/ ProcessStream(i)
  \/ ProcessFlow(i) \/ ProcessSocket(i)

ClassifyReturns(i) ==
  \/ NetworkReturns(i) \/ TransportReturns(i) \/ StreamReturns(i)
  \/ FlowReturns(i) \/ SocketReturns(i)

StackStep(i) ==
  \/ NotOurs(i) \/ SelfInjected(i) \/ Classify(i) \/ ProcessBuffer(i) \/ ClassifyReturns(i)

-----------------------------------------------------------------------------
(* The client *)

Receive ==
  /\ client = "poll" /\ ring # <<>> /\ client' = "held"
  /\ UNCHANGED <<setupVars, nbl, ring, sendVars>>

(* The PacketRef is dropped. *)
Drop ==
  /\ client \in {"held", "sent"}
  /\ \A r \in Reqs : rq[r] \notin Dispatched
  /\ ring' = Tail(ring) /\ client' = "poll"
  /\ UNCHANGED <<setupVars, nbl, sendVars>>

Begin(r, p, src, leg) ==
  /\ rq[r] = "free" /\ \A q \in Reqs : q < r => rq[q] \in {"done", "lost"}
  /\ rq' = [rq EXCEPT ![r] = "begun"]
  /\ nbl' = [nbl EXCEPT ![r] = [Unsent EXCEPT !.pkts = <<p>>, !.src = src, !.leg = leg]]
  /\ UNCHANGED <<setupVars, ring, owns, owed, completed>>

(* send_packet, for a packet that was intercepted: once, with its address. *)
SendPacket(r) ==
  /\ client = "held" /\ ~recvOnly /\ layer \in PacketLayers
  /\ client' = "sent"
  /\ Begin(r, Head(ring).pkt, Head(ring).src, Head(ring).leg)

(* send, of a packet of the client's own, as soon as IOCTL_INITIALIZE has  *)
(* returned.                                                               *)
SendCrafted(r) ==
  /\ client = "poll" /\ \E l \in Lists : Begin(r, Crafted, l, 1)
  /\ UNCHANGED client

-----------------------------------------------------------------------------
(* IOCTL_SEND *)

(* injection_completion_fn: frees what the request owns and completes it. *)
InjectionCompletes(r) ==
  /\ owns' = [owns EXCEPT ![r] = @ \ Resources]
  /\ completed' = [completed EXCEPT ![r] = @ + 1]

(* handle_send allocates an MDL, a completion context and an NBL ... *)
Prepare(r) ==
  /\ rq[r] = "begun"
  /\ rq' = [rq EXCEPT ![r] = "inject"]
  /\ owns' = [owns EXCEPT ![r] = Resources]
  /\ UNCHANGED <<setupVars, nbl, ring, client, owed, completed>>

(* ... or, when one of them fails, frees those before it and returns an    *)
(* error, with which handle_send_request completes the request.            *)
PrepareFails(r) ==
  /\ rq[r] = "begun"
  /\ rq' = [rq EXCEPT ![r] = "done"]
  /\ completed' = [completed EXCEPT ![r] = @ + 1]
  /\ UNCHANGED <<setupVars, nbl, ring, client, owns, owed>>

(* The layer has no inject: flow, socket, reflect. *)
CannotInject(r) ==
  /\ rq[r] = "inject" /\ layer \notin PacketLayers \cup {"stream"}
  /\ rq' = [rq EXCEPT ![r] = "return"]
  /\ InjectionCompletes(r)
  /\ UNCHANGED <<setupVars, nbl, ring, client, owed>>

(* StreamLayer::inject before the stream callouts are registered: it       *)
(* returns without completing, and handle_send answers STATUS_PENDING.     *)
StreamRefuses(r) ==
  /\ rq[r] = "inject" /\ layer = "stream" /\ ~live
  /\ rq' = [rq EXCEPT ![r] = "lost"]
  /\ UNCHANGED <<setupVars, nbl, ring, client, owns, owed, completed>>

CanInject == layer \in PacketLayers \/ (layer = "stream" /\ live)

(* WFP does not take the NBL: inject calls the completion function itself. *)
InjectFails(r) ==
  /\ rq[r] = "inject" /\ CanInject
  /\ rq' = [rq EXCEPT ![r] = "return"]
  /\ InjectionCompletes(r)
  /\ UNCHANGED <<setupVars, nbl, ring, client, owed>>

(* WFP takes it.  Data injected into a stream goes past the callout. *)
Inject(r) ==
  /\ rq[r] = "inject" /\ CanInject
  /\ rq' = [rq EXCEPT ![r] = "return"]
  /\ owed' = owed \cup {r}
  /\ nbl' = [nbl EXCEPT ![r].mark = Handle(Direction(r)),
                        ![r].st = IF layer = "stream" THEN "delivered" ELSE "wire"]
  /\ UNCHANGED <<setupVars, ring, client, owns, completed>>

(* Variant: the status of a failed injection is returned. *)
SendReturnsStatus(r) ==
  /\ rq[r] = "return"
  /\ rq' = [rq EXCEPT ![r] = "done"]
  /\ completed' = [completed EXCEPT ![r] = IF nbl[r].st = "none" THEN @ + 1 ELSE @]
  /\ UNCHANGED <<setupVars, nbl, ring, client, owns, owed>>

(* STATUS_PENDING: handle_send_request leaves the request alone. *)
SendReturns(r) ==
  /\ rq[r] = "return"
  /\ rq' = [rq EXCEPT ![r] = "done"]
  /\ UNCHANGED <<setupVars, nbl, ring, client, owns, owed, completed>>

SendStep(r) ==
  \/ Prepare(r) \/ PrepareFails(r) \/ CannotInject(r) \/ StreamRefuses(r)
  \/ InjectFails(r) \/ Inject(r) \/ SendReturns(r)

(* External: WFP may discard an injected NBL ... *)
Discard(r) ==
  /\ r \in owed /\ nbl[r].st = "wire"
  /\ nbl' = [nbl EXCEPT ![r].st = "discarded"]
  /\ UNCHANGED <<setupVars, ring, client, sendVars>>

(* ... and gives it back when the stack has no more use for it. *)
Completion(r) ==
  /\ r \in owed /\ nbl[r].st \in {"delivered", "blocked", "discarded"}
  /\ owed' = owed \ {r}
  /\ InjectionCompletes(r)
  /\ UNCHANGED <<setupVars, nbl, ring, client, rq>>

-----------------------------------------------------------------------------
Next ==
  \/ InitWfp \/ Startup
  \/ \E p \in Programs : SetBpf(p)
  \/ \E i \in Nbls : StackStep(i)
  \/ Receive \/ Drop
  \/ \E r \in Reqs : SendPacket(r) \/ SendCrafted(r) \/ SendStep(r) \/ Discard(r) \/ Completion(r)

Spec == Init /\ [][Next]_vars

-----------------------------------------------------------------------------
Carries(i, p) == \E k \in 1..Len(nbl[i].pkts) : nbl[i].pkts[k] = p

(* Type invariant. *)
TypeOK ==
  /\ layer \in Layers /\ program \in Programs \cup {NoFilter}
  /\ {recvOnly, live, readOnly, started} \subseteq BOOLEAN
  /\ \A i \in Nbls :
       /\ nbl[i].st \in {"none", "wire", "classify", "blocked", "delivered", "discarded"}
       /\ nbl[i].mark \in {"none", "in", "out", "forward", "stream"}
       /\ nbl[i].st # "none" => nbl[i].leg \in 1..Len(Legs(nbl[i].src))
  /\ Len(ring) <= Slots
  /\ client \in {"poll", "held", "sent"} /\ (client # "poll" => ring # <<>>)
  /\ rq \in [Reqs -> Dispatched \cup {"free", "done", "lost"}]
  /\ owns \in [Reqs -> SUBSET Resources] /\ owed \subseteq Reqs
  /\ completed \in [Reqs -> Nat]

(* callout_network.rs:83-112, 578: a packet the client has sent back is     *)
(* recognised, so it is intercepted at most once on each leg of its path.   *)
InterceptedOnce ==
  \A i, j \in Nbls : \A p \in Packets :
    /\ nbl[i].st = "blocked" /\ Carries(i, p)
    /\ nbl[j].st = "blocked" /\ Carries(j, p)
    /\ nbl[i].leg = nbl[j].leg
    => i = j

(* callout_network.rs:595-604: either the original reaches its destination  *)
(* or what the client sent in its place, never both.                        *)
DeliveredOnce ==
  layer \in PacketLayers =>
    \A i, j \in Nbls : \A p \in Packets :
      /\ nbl[i].st = "delivered" /\ Carries(i, p)
      /\ nbl[j].st = "delivered" /\ Carries(j, p)
      => i = j

(* inject.rs:25-56, module.rs:305-310: a request is completed at most once; *)
(* while the stack has its NBL it is not completed and nothing of it is     *)
(* freed; when handle_send has returned and the stack is done with it, it   *)
(* has been completed and everything is freed.  The one exception is a      *)
(* request that StreamLayer::inject refused before its callouts were        *)
(* registered (callout_stream.rs:70-78): handle_send returns STATUS_PENDING *)
(* for it as well, but it is never completed and keeps all it has           *)
(* allocated.                                                               *)
AnsweredOnce ==
  \A r \in Reqs :
    /\ completed[r] <= 1
    /\ r \in owed => completed[r] = 0 /\ owns[r] = Resources
    /\ rq[r] = "done" /\ r \notin owed => completed[r] = 1 /\ owns[r] = {}
    /\ rq[r] = "lost" =>
         /\ layer = "stream" /\ r \notin owed
         /\ completed[r] = 0 /\ owns[r] = Resources

(* What module.rs:307 says of a failed injection, "Completion callback      *)
(* completes request", and so of every request that handle_send has         *)
(* answered: without the exception above.  It fails in StreamRefuses.       *)
EveryRequestAnswered ==
  \A r \in Reqs : rq[r] \in {"done", "lost"} /\ r \notin owed => completed[r] = 1

(* Refuted by run packet_ignored.                                           *)
(* callout_network.rs:348, "returns false to ignore the packet": a list     *)
(* with no packet that passes the filter is not blocked.                    *)
IgnoredNotBlocked ==
  \A i \in Nbls : nbl[i].st = "blocked" => nbl[i].matched # {}
=============================================================================
