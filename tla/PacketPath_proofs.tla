-------------------------- MODULE PacketPath_proofs ---------------------------
(* For any layer, traffic and client: every send request is completed once  *)
(* (but one that StreamLayer::inject refuses, which never is); a packet is  *)
(* intercepted at most once on each leg of its path; and of a packet and    *)
(* what the client sends in its place one at most is delivered.  The        *)
(* argument for the last two follows each packet to the one place where it  *)
(* is, a copy in an NBL or a record in the ring.                            *)
EXTENDS PacketPath, TLAPS

(* What a request owns and has been told, by where it is in handle_send.    *)
Untouched(r) == completed[r] = 0 /\ owns[r] = {} /\ r \notin owed
Prepared(r) == completed[r] = 0 /\ owns[r] = Resources /\ r \notin owed
InStack(r) == completed[r] = 0 /\ owns[r] = Resources /\ r \in owed
Finished(r) == completed[r] = 1 /\ owns[r] = {} /\ r \notin owed

RequestInv ==
  /\ rq \in [Reqs -> Dispatched \cup {"free", "done", "lost"}]
  /\ owns \in [Reqs -> SUBSET Resources]
  /\ completed \in [Reqs -> Nat]
  /\ \A r \in Reqs :
       /\ rq[r] \in {"free", "begun"} => Untouched(r)
       /\ rq[r] \in {"inject", "lost"} => Prepared(r)
       /\ rq[r] = "lost" => layer = "stream"
       /\ rq[r] \in {"return", "done"} => InStack(r) \/ Finished(r)

LEMMA RequestInit == Init => RequestInv
<1> SUFFICES ASSUME Init PROVE RequestInv
  OBVIOUS
<1>1. /\ rq = [r \in Reqs |-> "free"] /\ owns = [r \in Reqs |-> {}] /\ owed = {}
      /\ completed = [r \in Reqs |-> 0]
  BY DEF Init
<1> QED
  BY <1>1 DEF RequestInv, Untouched, Dispatched

(* A step leaves every request alone but the one it is about.               *)
LEMMA RequestStep == RequestInv /\ [Next]_vars => RequestInv'
<1> SUFFICES ASSUME RequestInv, [Next]_vars PROVE RequestInv'
  OBVIOUS
<1> USE DEF RequestInv, Dispatched
<1>1. ASSUME UNCHANGED <<layer, sendVars>> PROVE RequestInv'
  BY <1>1 DEF sendVars, Untouched, Prepared, InStack, Finished
<1>2. ASSUME NEW r \in Reqs, NEW p, NEW src, NEW leg, Begin(r, p, src, leg) PROVE RequestInv'
  BY <1>2 DEF Begin, setupVars, Untouched, Prepared, InStack, Finished
<1>3. ASSUME NEW r \in Reqs, SendStep(r) PROVE RequestInv'
  <2>1. CASE Prepare(r)
    BY <2>1 DEF Prepare, setupVars, Untouched, Prepared, InStack, Finished
  <2>2. CASE PrepareFails(r)
    BY <2>2 DEF PrepareFails, setupVars, Untouched, Prepared, InStack, Finished
  <2>3. CASE CannotInject(r)
    BY <2>3 DEF CannotInject, InjectionCompletes, setupVars, Untouched, Prepared, InStack, Finished
  <2>4. CASE StreamRefuses(r)
    BY <2>4 DEF StreamRefuses, setupVars, Untouched, Prepared, InStack, Finished
  <2>5. CASE InjectFails(r)
    BY <2>5 DEF InjectFails, InjectionCompletes, setupVars, Untouched, Prepared, InStack, Finished
  <2>6. CASE Inject(r)
    BY <2>6 DEF Inject, setupVars, Untouched, Prepared, InStack, Finished
  <2>7. CASE SendReturns(r)
    BY <2>7 DEF SendReturns, setupVars, Untouched, Prepared, InStack, Finished
  <2> QED
    BY <1>3, <2>1, <2>2, <2>3, <2>4, <2>5, <2>6, <2>7 DEF SendStep
<1>4. ASSUME NEW r \in Reqs, Completion(r) PROVE RequestInv'
  <2>1. InStack(r) /\ rq[r] \in {"return", "done"}
    BY <1>4 DEF Completion, setupVars, Untouched, Prepared, InStack, Finished
  <2> QED
    BY <1>4, <2>1 DEF Completion, InjectionCompletes, setupVars, Untouched, Prepared, InStack, Finished
<1>5. ASSUME NEW i \in Nbls, StackStep(i) PROVE UNCHANGED <<layer, sendVars>>
  <2>1. CASE NotOurs(i) \/ SelfInjected(i) \/ Classify(i)
    BY <2>1 DEF NotOurs, SelfInjected, Classify, setupVars
  <2>2. CASE ProcessBuffer(i)
    BY <2>2 DEF ProcessBuffer, ProcessNetwork, ProcessTransport, ProcessStream, ProcessFlow,
                ProcessSocket, Process, setupVars
  <2>3. CASE ClassifyReturns(i)
    BY <2>3 DEF ClassifyReturns, NetworkReturns, TransportReturns, StreamReturns, FlowReturns,
                SocketReturns, Returns, setupVars
  <2> QED
    BY <1>5, <2>1, <2>2, <2>3 DEF StackStep
<1>6. ASSUME NEW r \in Reqs, SendPacket(r) \/ SendCrafted(r) PROVE RequestInv'
  BY <1>6, <1>2 DEF SendPacket, SendCrafted
<1>7. CASE InitWfp \/ Startup \/ (\E p \in Programs : SetBpf(p)) \/ Receive \/ Drop
  BY <1>7, <1>1 DEF InitWfp, Startup, SetBpf, Receive, Drop, setupVars
<1>8. ASSUME NEW r \in Reqs, Discard(r) PROVE RequestInv'
  BY <1>8, <1>1 DEF Discard, setupVars
<1>9. CASE UNCHANGED vars
  BY <1>9, <1>1 DEF vars, setupVars
<1> QED
  BY <1>1, <1>3, <1>4, <1>5, <1>6, <1>7, <1>8, <1>9 DEF Next

(* inject.rs:25-56, module.rs:305-310.  For any number of requests, layer   *)
(* and traffic, a request is completed once and its memory is freed once,   *)
(* not before the stack has given the NBL back; one that is neither         *)
(* completed nor with the stack was refused by StreamLayer::inject, and     *)
(* keeps its memory (callout_stream.rs:70-78).                              *)
THEOREM CompletedOnce == Spec => []AnsweredOnce
<1>1. RequestInv => AnsweredOnce
  BY DEF RequestInv, AnsweredOnce, Dispatched, Untouched, Prepared, InStack, Finished
<1> QED
  BY <1>1, RequestInit, RequestStep, PTL DEF Spec

-----------------------------------------------------------------------------
(* The types of what the packets pass through.                              *)

Marks == {"none", "in", "out", "forward", "stream"}
States == {"none", "wire", "classify", "blocked", "delivered", "discarded"}

NblRecords ==
  [pkts : Seq(Packets \cup {Crafted}), src : Lists \cup {"none"}, leg : Nat, mark : Marks,
   st : States, nb : Nat, matched : SUBSET (Packets \cup {Crafted}), torn : BOOLEAN]

OnPath(src, leg) == src \in Lists /\ leg \in 1..Len(Legs(src))

NblsTyped ==
  /\ nbl \in [Nbls -> NblRecords]
  /\ \A i \in Nbls : nbl[i].st # "none" => OnPath(nbl[i].src, nbl[i].leg)
  /\ \A i \in Nbls : nbl[i].st = "classify" => nbl[i].nb \in 1..(Len(nbl[i].pkts) + 1)
  /\ \A r \in Reqs : rq[r] # "free" => OnPath(nbl[r].src, nbl[r].leg)
  /\ \A r \in Reqs : rq[r] \in {"free", "begun", "inject"} => nbl[r].st = "none"

RingTyped ==
  /\ ring \in Seq([pkt : Packets \cup {Crafted}, src : Lists, leg : Nat]) /\ Len(ring) <= Slots
  /\ \A k \in 1..Len(ring) : OnPath(ring[k].src, ring[k].leg)
  /\ client \in {"poll", "held", "sent"} /\ (client # "poll" => ring # <<>>)

SetupTyped ==
  /\ layer \in Layers /\ program \in Programs \cup {NoFilter}
  /\ {recvOnly, live, readOnly, started} \subseteq BOOLEAN

FlowInv == RequestInv /\ SetupTyped /\ NblsTyped /\ RingTyped /\ owed \subseteq Reqs

-----------------------------------------------------------------------------
(* Where a packet is.  A copy of it is packet k of NBL i; the classify      *)
(* function is done with it when it has been filtered and will be blocked.  *)
(* A record waits until the client has sent its packet back.                *)

Copy(i, k) == i \in Nbls /\ k \in 1..Len(nbl[i].pkts) /\ nbl[i].pkts[k] \in Packets
Done(i, k) == nbl[i].st = "blocked" \/ (nbl[i].st = "classify" /\ k < nbl[i].nb)
Waits(n) == n \in 1..Len(ring) /\ (n = 1 => client # "sent")

(* The callout will not see it again on this leg. *)
LetPast(i) == nbl[i].st = "wire" => IsSelfInjected(i)

(* A packet is in one place: as an undone copy ... *)
OneCopy ==
  \A i, j \in Nbls : \A k, m \in Nat :
    Copy(i, k) /\ Copy(j, m) /\ ~Done(i, k) /\ ~Done(j, m) /\ nbl[i].pkts[k] = nbl[j].pkts[m] =>
      i = j /\ k = m

(* ... or in a record that waits.                                           *)
CopyOrRecord ==
  \A i \in Nbls : \A k, n \in Nat :
    Copy(i, k) /\ ~Done(i, k) /\ Waits(n) => ring[n].pkt # nbl[i].pkts[k]

OneRecord ==
  \A m, n \in Nat :
    Waits(m) /\ Waits(n) /\ ring[m].pkt = ring[n].pkt /\ ring[m].pkt \in Packets => m = n

(* Where it has been intercepted lies behind that place, or is the same leg *)
(* and the callout lets it past.                                            *)
BehindCopy ==
  \A i, j \in Nbls : \A k, m \in Nat :
    Copy(i, k) /\ Copy(j, m) /\ Done(i, k) /\ ~Done(j, m) /\ nbl[i].pkts[k] = nbl[j].pkts[m] =>
      /\ nbl[i].leg <= nbl[j].leg
      /\ nbl[i].leg = nbl[j].leg => nbl[j].st # "classify" /\ LetPast(j)

BehindRecord ==
  \A i \in Nbls : \A k, n \in Nat :
    Copy(i, k) /\ Done(i, k) /\ Waits(n) /\ ring[n].pkt = nbl[i].pkts[k] => nbl[i].leg <= ring[n].leg

OncePerLeg ==
  \A i, j \in Nbls : \A k, m \in Nat :
    /\ Copy(i, k) /\ Copy(j, m) /\ Done(i, k) /\ Done(j, m)
    /\ nbl[i].pkts[k] = nbl[j].pkts[m] /\ nbl[i].leg = nbl[j].leg
    => i = j

Placed == OneCopy /\ CopyOrRecord /\ OneRecord /\ BehindCopy /\ BehindRecord /\ OncePerLeg

(* A packet is in a list, or in no other NBL but what the client makes of   *)
(* it.                                                                      *)
Contents ==
  /\ \A l \in Lists : nbl[l].pkts = Seen(l)
  /\ \A r \in Reqs : Len(nbl[r].pkts) <= 1

Replays == ~recvOnly /\ layer \in PacketLayers

PlaceInv ==
  /\ FlowInv /\ Contents
  /\ IF Replays THEN ~readOnly /\ Placed
     ELSE \A r \in Reqs : \A k \in Nat : ~Copy(r, k)

-----------------------------------------------------------------------------
(* Types.                                                                   *)

LEMMA LegsTyped ==
  ASSUME NEW l \in Lists
  PROVE  Legs(l) \in Seq({"in", "out"}) /\ Len(Legs(l)) \in Nat \ {0}
<1>1. Path[l] \in Seq({"in", "out"}) /\ Path[l] # <<>>
  BY TrafficAssumption
<1>2. Len(Path[l]) \in Nat \ {0} /\ Path[l][1] \in {"in", "out"}
  BY <1>1
<1>3. <<Path[l][1]>> \in Seq({"in", "out"}) /\ Len(<<Path[l][1]>>) = 1
  BY <1>2
<1>4. CASE layer \in {"network", "transport"}
  BY <1>1, <1>2, <1>4 DEF Legs
<1>5. CASE layer \notin {"network", "transport"}
  BY <1>3, <1>5 DEF Legs
<1> QED
  BY <1>4, <1>5

LEMMA SeenTyped ==
  ASSUME NEW l \in Lists
  PROVE  Seen(l) \in Seq(Packets)
<1>1. Content[l] \in Seq(Packets) /\ Content[l] # <<>>
  BY TrafficAssumption
<1>2. Content[l][1] \in Packets
  BY <1>1
<1> QED
  BY <1>1, <1>2 DEF Seen

LEMMA HandleTyped ==
  ASSUME NEW src, NEW leg, OnPath(src, leg)
  PROVE  Handle(Legs(src)[leg]) \in Marks
<1>1. Legs(src)[leg] \in {"in", "out"}
  BY LegsTyped DEF OnPath
<1> QED
  BY <1>1 DEF Handle, NetworkHandle, ForwardHandle, TransportHandle, Marks

LEMMA Apart == \A r \in Reqs : r \notin Lists
BY TrafficAssumption

LEMMA InitFlow == Init => FlowInv /\ Contents
<1> SUFFICES ASSUME Init PROVE FlowInv /\ Contents
  OBVIOUS
<1>1. Unsent \in NblRecords
  BY DEF Unsent, NblRecords, Marks, States
<1>2. ASSUME NEW l \in Lists
      PROVE  /\ [Unsent EXCEPT !.pkts = Seen(l), !.src = l, !.leg = 1, !.st = "wire"] \in NblRecords
             /\ OnPath(l, 1)
  <2>1. Seen(l) \in Seq(Packets \cup {Crafted})
    BY SeenTyped
  <2>2. [Unsent EXCEPT !.pkts = Seen(l), !.src = l, !.leg = 1, !.st = "wire"] \in NblRecords
    BY <1>1, <2>1 DEF NblRecords, States
  <2>3. OnPath(l, 1)
    BY LegsTyped DEF OnPath
  <2> QED
    BY <2>2, <2>3
<1>3. nbl \in [Nbls -> NblRecords]
  BY <1>1, <1>2 DEF Init
<1>4. \A l \in Lists : nbl[l].pkts = Seen(l) /\ nbl[l].src = l /\ nbl[l].leg = 1
  BY DEF Init, Unsent, Nbls
<1>5. \A r \in Reqs : nbl[r] = Unsent /\ rq[r] = "free"
  BY Apart DEF Init, Nbls
<1>6. /\ \A i \in Nbls : nbl[i].st # "none" => OnPath(nbl[i].src, nbl[i].leg)
      /\ \A i \in Nbls : nbl[i].st # "classify"
  <2>1. \A l \in Lists : OnPath(nbl[l].src, nbl[l].leg) /\ nbl[l].st = "wire"
    BY <1>2, <1>4 DEF Init, Unsent, Nbls
  <2>2. \A r \in Reqs : nbl[r].st = "none"
    BY <1>5 DEF Unsent
  <2> QED
    BY <2>1, <2>2 DEF Nbls
<1>7. Contents
  BY <1>4, <1>5 DEF Contents, Unsent
<1>8. FlowInv
  <2>1. /\ RequestInv /\ ring = <<>> /\ client = "poll" /\ owed = {}
        /\ layer \in Layers /\ program = NoFilter
        /\ recvOnly \in BOOLEAN /\ live = FALSE /\ readOnly = FALSE /\ started = FALSE
    BY RequestInit DEF Init
  <2>2. /\ ring \in Seq([pkt : Packets \cup {Crafted}, src : Lists, leg : Nat])
        /\ Len(ring) <= Slots /\ Len(ring) = 0
    BY <2>1, BoundsAssumption
  <2>3. \A r \in Reqs : rq[r] = "free" /\ nbl[r].st = "none"
    BY <1>5 DEF Unsent
  <2>4. {recvOnly, live, readOnly, started} \subseteq BOOLEAN
    BY <2>1
  <2>5. \A k \in 1..Len(ring) : OnPath(ring[k].src, ring[k].leg)
    BY <2>2
  <2> QED
    BY <1>3, <1>6, <2>1, <2>2, <2>3, <2>4, <2>5
     DEF FlowInv, NblsTyped, RingTyped, SetupTyped
<1> QED
  BY <1>7, <1>8

(* What a step of one NBL leaves alone. *)
Other(i) == \A j \in Nbls \ {i} : nbl'[j] = nbl[j]

LEMMA OnwardFacts ==
  ASSUME FlowInv, NEW i \in Nbls, Onward(i), nbl[i].st # "none"
  PROVE  /\ nbl' \in [Nbls -> NblRecords] /\ Other(i)
         /\ nbl'[i].pkts = nbl[i].pkts /\ nbl'[i].src = nbl[i].src /\ nbl'[i].mark = nbl[i].mark
         /\ \/ nbl'[i].leg = nbl[i].leg + 1 /\ nbl'[i].st = "wire" /\ nbl'[i].leg <= Len(Legs(nbl[i].src))
            \/ nbl'[i].leg = nbl[i].leg /\ nbl'[i].st = "delivered"
         /\ OnPath(nbl'[i].src, nbl'[i].leg)
<1> DEFINE on == [nbl[i] EXCEPT !.nb = 0, !.matched = {}]
           new == IF on.leg < Len(Legs(on.src))
                  THEN [on EXCEPT !.leg = @ + 1, !.st = "wire"] ELSE [on EXCEPT !.st = "delivered"]
<1>1. nbl[i] \in NblRecords /\ OnPath(nbl[i].src, nbl[i].leg)
  BY DEF FlowInv, NblsTyped
<1>2. /\ on \in NblRecords /\ on.leg = nbl[i].leg /\ on.src = nbl[i].src
      /\ on.pkts = nbl[i].pkts /\ on.mark = nbl[i].mark
  BY <1>1 DEF NblRecords
<1>3. nbl[i].leg \in Nat /\ Len(Legs(nbl[i].src)) \in Nat
  BY <1>1, LegsTyped DEF NblRecords, OnPath
<1>4. nbl' = [nbl EXCEPT ![i] = new] /\ nbl \in [Nbls -> NblRecords]
  BY DEF Onward, FlowInv, NblsTyped
<1> HIDE DEF on
<1>5. CASE on.leg < Len(Legs(on.src))
  <2>1. new = [on EXCEPT !.leg = @ + 1, !.st = "wire"]
    BY <1>5
  <2>2. /\ new \in NblRecords /\ new.pkts = on.pkts /\ new.src = on.src /\ new.mark = on.mark
        /\ new.leg = on.leg + 1 /\ new.st = "wire"
    <3>1. on.leg + 1 \in Nat
      BY <1>2, <1>3
    <3> HIDE DEF new
    <3> QED
      BY <1>2, <2>1, <3>1 DEF NblRecords, States
  <2>3. OnPath(new.src, new.leg)
    BY <1>1, <1>2, <1>3, <1>5, <2>2 DEF OnPath
  <2> HIDE DEF new
  <2>4. nbl' \in [Nbls -> NblRecords] /\ Other(i) /\ nbl'[i] = new
    BY <1>4, <2>2 DEF Other
  <2> QED
    BY <1>2, <1>3, <1>5, <2>2, <2>3, <2>4
<1>6. CASE ~(on.leg < Len(Legs(on.src)))
  <2>1. new = [on EXCEPT !.st = "delivered"]
    BY <1>6
  <2>2. /\ new \in NblRecords /\ new.pkts = on.pkts /\ new.src = on.src /\ new.mark = on.mark
        /\ new.leg = on.leg /\ new.st = "delivered"
    BY <1>2, <2>1 DEF NblRecords, States
  <2> HIDE DEF new
  <2>3. nbl' \in [Nbls -> NblRecords] /\ Other(i) /\ nbl'[i] = new
    BY <1>4, <2>2 DEF Other
  <2> QED
    BY <1>1, <1>2, <2>2, <2>3
<1> QED
  BY <1>5, <1>6

LEMMA ClassifyFacts ==
  ASSUME FlowInv, NEW i \in Nbls, Classify(i)
  PROVE  /\ nbl' \in [Nbls -> NblRecords] /\ Other(i)
         /\ nbl'[i].pkts = nbl[i].pkts /\ nbl'[i].src = nbl[i].src /\ nbl'[i].leg = nbl[i].leg
         /\ nbl'[i].mark = nbl[i].mark /\ nbl'[i].st = "classify" /\ nbl'[i].nb = 1
<1> DEFINE new == [nbl[i] EXCEPT !.st = "classify", !.nb = 1, !.matched = {}]
<1>1. nbl \in [Nbls -> NblRecords] /\ nbl' = [nbl EXCEPT ![i] = new]
  BY DEF FlowInv, NblsTyped, Classify
<1>2. /\ new \in NblRecords /\ new.pkts = nbl[i].pkts /\ new.src = nbl[i].src
      /\ new.leg = nbl[i].leg /\ new.mark = nbl[i].mark /\ new.st = "classify" /\ new.nb = 1
  BY <1>1 DEF NblRecords, States
<1> HIDE DEF new
<1> QED
  BY <1>1, <1>2 DEF Other

LEMMA ProcessFacts ==
  ASSUME FlowInv, NEW i \in Nbls, NEW passes, NEW copied, HasBuffer(i), Process(i, passes, copied)
  PROVE  /\ nbl' \in [Nbls -> NblRecords] /\ Other(i)
         /\ nbl'[i].pkts = nbl[i].pkts /\ nbl'[i].src = nbl[i].src /\ nbl'[i].leg = nbl[i].leg
         /\ nbl'[i].mark = nbl[i].mark /\ nbl'[i].st = nbl[i].st /\ nbl'[i].nb = nbl[i].nb + 1
         /\ ring' = ring \/ (Len(ring) < Slots /\ ring' = Append(ring, Record(i)))
<1> DEFINE new == [nbl[i] EXCEPT !.nb = @ + 1, !.torn = FALSE,
                                 !.matched = IF passes THEN @ \cup {Record(i).pkt} ELSE @]
<1>1. nbl \in [Nbls -> NblRecords] /\ nbl' = [nbl EXCEPT ![i] = new]
  BY DEF FlowInv, NblsTyped, Process
<1>2. ring' = ring \/ (Len(ring) < Slots /\ ring' = Append(ring, Record(i)))
  BY DEF Process, Pushed
<1>3. /\ nbl[i] \in NblRecords /\ nbl[i].nb + 1 \in Nat /\ nbl[i].nb \in 1..Len(nbl[i].pkts)
      /\ nbl[i].pkts[nbl[i].nb] \in Packets \cup {Crafted}
  BY <1>1 DEF NblRecords, HasBuffer, FlowInv, NblsTyped
<1>4. (IF passes THEN nbl[i].matched \cup {Record(i).pkt} ELSE nbl[i].matched)
        \in SUBSET (Packets \cup {Crafted})
  BY <1>3 DEF NblRecords, Record
<1>5. /\ new \in NblRecords /\ new.pkts = nbl[i].pkts /\ new.src = nbl[i].src
      /\ new.leg = nbl[i].leg /\ new.mark = nbl[i].mark /\ new.st = nbl[i].st
      /\ new.nb = nbl[i].nb + 1
  BY <1>3, <1>4 DEF NblRecords
<1> HIDE DEF new
<1> QED
  BY <1>1, <1>2, <1>5 DEF Other

LEMMA BlockFacts ==
  ASSUME FlowInv, NEW i \in Nbls, nbl[i].st = "classify",
         nbl' = [nbl EXCEPT ![i].st = "blocked", ![i].nb = 0]
  PROVE  /\ nbl' \in [Nbls -> NblRecords] /\ Other(i)
         /\ nbl'[i].pkts = nbl[i].pkts /\ nbl'[i].src = nbl[i].src /\ nbl'[i].leg = nbl[i].leg
         /\ nbl'[i].mark = nbl[i].mark /\ nbl'[i].st = "blocked"
<1> DEFINE new == [nbl[i] EXCEPT !.st = "blocked", !.nb = 0]
<1>1. nbl \in [Nbls -> NblRecords] /\ nbl' = [nbl EXCEPT ![i] = new]
  BY DEF FlowInv, NblsTyped
<1>2. /\ new \in NblRecords /\ new.pkts = nbl[i].pkts /\ new.src = nbl[i].src
      /\ new.leg = nbl[i].leg /\ new.mark = nbl[i].mark /\ new.st = "blocked"
  <2>1. nbl[i] \in NblRecords /\ "blocked" \in States
    BY <1>1 DEF States
  <2> QED
    BY <2>1 DEF NblRecords
<1> HIDE DEF new
<1> QED
  BY <1>1, <1>2 DEF Other

LEMMA InjectFacts ==
  ASSUME FlowInv, NEW r \in Reqs, Inject(r)
  PROVE  /\ nbl' \in [Nbls -> NblRecords] /\ Other(r) /\ r \in Nbls
         /\ nbl'[r].pkts = nbl[r].pkts /\ nbl'[r].src = nbl[r].src /\ nbl'[r].leg = nbl[r].leg
         /\ nbl'[r].mark = Handle(Legs(nbl[r].src)[nbl[r].leg])
         /\ nbl'[r].st = IF layer = "stream" THEN "delivered" ELSE "wire"
         /\ nbl[r].st = "none" /\ OnPath(nbl[r].src, nbl[r].leg)
<1> DEFINE mark == Handle(Legs(nbl[r].src)[nbl[r].leg])
           st == IF layer = "stream" THEN "delivered" ELSE "wire"
           new == [nbl[r] EXCEPT !.mark = mark, !.st = st]
<1>1. nbl \in [Nbls -> NblRecords] /\ r \in Nbls /\ rq[r] = "inject"
  BY DEF FlowInv, NblsTyped, Nbls, Inject
<1>2. nbl[r].st = "none" /\ OnPath(nbl[r].src, nbl[r].leg)
  BY <1>1 DEF FlowInv, NblsTyped
<1>3. mark \in Marks /\ st \in States
  BY <1>2, HandleTyped DEF States
<1>4. nbl' = [nbl EXCEPT ![r] = new]
  BY <1>1 DEF Inject, Direction
<1> HIDE DEF mark, st
<1>5. /\ new \in NblRecords /\ new.pkts = nbl[r].pkts /\ new.src = nbl[r].src
      /\ new.leg = nbl[r].leg /\ new.mark = mark /\ new.st = st
  BY <1>1, <1>3 DEF NblRecords
<1> HIDE DEF new
<1>6. /\ nbl' \in [Nbls -> NblRecords] /\ Other(r)
      /\ nbl'[r] = new
  BY <1>1, <1>4, <1>5 DEF Other
<1> QED
  BY <1>1, <1>2, <1>5, <1>6 DEF mark, st

LEMMA DiscardFacts ==
  ASSUME FlowInv, NEW r \in Reqs, Discard(r)
  PROVE  /\ nbl' \in [Nbls -> NblRecords] /\ Other(r) /\ r \in Nbls
         /\ nbl'[r].pkts = nbl[r].pkts /\ nbl'[r].src = nbl[r].src /\ nbl'[r].leg = nbl[r].leg
         /\ nbl'[r].mark = nbl[r].mark /\ nbl'[r].st = "discarded" /\ nbl[r].st = "wire"
<1> DEFINE new == [nbl[r] EXCEPT !.st = "discarded"]
<1>1. nbl \in [Nbls -> NblRecords] /\ r \in Nbls /\ nbl' = [nbl EXCEPT ![r] = new]
  BY DEF FlowInv, NblsTyped, Nbls, Discard
<1>2. /\ new \in NblRecords /\ new.pkts = nbl[r].pkts /\ new.src = nbl[r].src
      /\ new.leg = nbl[r].leg /\ new.mark = nbl[r].mark /\ new.st = "discarded"
  BY <1>1 DEF NblRecords, States
<1>3. nbl[r].st = "wire"
  BY DEF Discard
<1> HIDE DEF new
<1> QED
  BY <1>1, <1>2, <1>3 DEF Other

LEMMA SetBpfFacts ==
  ASSUME FlowInv, NEW p, SetBpf(p)
  PROVE  /\ nbl' \in [Nbls -> NblRecords]
         /\ \A i \in Nbls :
              /\ nbl'[i].pkts = nbl[i].pkts /\ nbl'[i].src = nbl[i].src /\ nbl'[i].leg = nbl[i].leg
              /\ nbl'[i].mark = nbl[i].mark /\ nbl'[i].st = nbl[i].st /\ nbl'[i].nb = nbl[i].nb
<1>1. nbl' = [i \in Nbls |-> [nbl[i] EXCEPT !.torn = HasBuffer(i)]] /\ nbl \in [Nbls -> NblRecords]
  BY DEF SetBpf, FlowInv, NblsTyped
<1>2. ASSUME NEW i \in Nbls
      PROVE  /\ nbl'[i] \in NblRecords
             /\ nbl'[i].pkts = nbl[i].pkts /\ nbl'[i].src = nbl[i].src /\ nbl'[i].leg = nbl[i].leg
             /\ nbl'[i].mark = nbl[i].mark /\ nbl'[i].st = nbl[i].st /\ nbl'[i].nb = nbl[i].nb
  <2> DEFINE torn == HasBuffer(i)
  <2>1. torn \in BOOLEAN
    BY DEF HasBuffer
  <2>2. nbl'[i] = [nbl[i] EXCEPT !.torn = torn] /\ nbl[i] \in NblRecords
    BY <1>1
  <2> HIDE DEF torn
  <2> QED
    BY <2>1, <2>2 DEF NblRecords
<1> QED
  BY <1>1, <1>2

LEMMA BeginFacts ==
  ASSUME FlowInv, NEW r \in Reqs, NEW p \in Packets \cup {Crafted}, NEW src, NEW leg,
         OnPath(src, leg), Begin(r, p, src, leg)
  PROVE  /\ nbl' \in [Nbls -> NblRecords] /\ Other(r) /\ r \in Nbls
         /\ nbl'[r].pkts = <<p>> /\ nbl'[r].src = src /\ nbl'[r].leg = leg
         /\ nbl'[r].mark = "none" /\ nbl'[r].st = "none"
<1> DEFINE new == [Unsent EXCEPT !.pkts = <<p>>, !.src = src, !.leg = leg]
<1>1. nbl \in [Nbls -> NblRecords] /\ r \in Nbls /\ nbl' = [nbl EXCEPT ![r] = new]
  BY DEF FlowInv, NblsTyped, Nbls, Begin
<1>2. Unsent \in NblRecords /\ Unsent.mark = "none" /\ Unsent.st = "none"
  BY DEF Unsent, NblRecords, Marks, States
<1>3. src \in Lists /\ leg \in Nat /\ <<p>> \in Seq(Packets \cup {Crafted})
  BY LegsTyped DEF OnPath
<1>4. /\ new \in NblRecords /\ new.pkts = <<p>> /\ new.src = src /\ new.leg = leg
      /\ new.mark = "none" /\ new.st = "none"
  BY <1>2, <1>3 DEF NblRecords
<1> HIDE DEF new
<1> QED
  BY <1>1, <1>4 DEF Other

(* A step of NBL i that goes on with the packets it has. *)
LEMMA NblStep ==
  ASSUME FlowInv, Contents, NEW i \in Nbls, nbl' \in [Nbls -> NblRecords], Other(i), layer' = layer,
         nbl'[i].pkts = nbl[i].pkts, OnPath(nbl'[i].src, nbl'[i].leg),
         nbl'[i].st = "classify" => nbl'[i].nb \in 1..(Len(nbl[i].pkts) + 1),
         \A r \in Reqs : rq[r] = "free" => rq'[r] = "free",
         \A r \in Reqs \ {i} : rq'[r] \in {"free", "begun", "inject"} => rq[r] \in {"free", "begun", "inject"},
         i \in Reqs => rq'[i] \notin {"free", "begun", "inject"}
  PROVE  NblsTyped' /\ Contents'
<1>1. \A j \in Nbls : nbl'[j].pkts = nbl[j].pkts
  BY DEF Other
<1>2. Contents'
  BY <1>1 DEF Contents, Seen, Nbls
<1>3. /\ \A j \in Nbls : nbl'[j].st # "none" => OnPath(nbl'[j].src, nbl'[j].leg)
      /\ \A j \in Nbls : nbl'[j].st = "classify" => nbl'[j].nb \in 1..(Len(nbl'[j].pkts) + 1)
      /\ \A r \in Reqs : rq'[r] # "free" => OnPath(nbl'[r].src, nbl'[r].leg)
      /\ \A r \in Reqs : rq'[r] \in {"free", "begun", "inject"} => nbl'[r].st = "none"
  BY <1>1 DEF Other, FlowInv, NblsTyped, Nbls
<1>4. NblsTyped'
  BY <1>3 DEF NblsTyped, OnPath, Legs
<1> QED
  BY <1>2, <1>4

(* A step that leaves the NBLs and the ring alone. *)
LEMMA RestStep ==
  ASSUME FlowInv, Contents, nbl' = nbl, ring' = ring, layer' = layer,
         client' \in {"poll", "held", "sent"}, client' # "poll" => ring # <<>>,
         \A r \in Reqs : rq[r] = "free" => rq'[r] = "free",
         \A r \in Reqs : rq'[r] \in {"free", "begun", "inject"} => rq[r] \in {"free", "begun", "inject"}
  PROVE  NblsTyped' /\ RingTyped' /\ Contents'
<1>1. NblsTyped'
  BY DEF FlowInv, NblsTyped, OnPath, Legs
<1>2. RingTyped'
  BY DEF FlowInv, RingTyped, OnPath, Legs
<1>3. Contents'
  BY DEF Contents, Seen
<1> QED
  BY <1>1, <1>2, <1>3

LEMMA RecordTyped ==
  ASSUME FlowInv, NEW i \in Nbls, HasBuffer(i)
  PROVE  /\ Record(i) \in [pkt : Packets \cup {Crafted}, src : Lists, leg : Nat]
         /\ OnPath(Record(i).src, Record(i).leg) /\ nbl[i].nb \in 1..Len(nbl[i].pkts)
<1>1. /\ nbl[i] \in NblRecords /\ nbl[i].nb \in 1..Len(nbl[i].pkts)
      /\ OnPath(nbl[i].src, nbl[i].leg)
  BY DEF FlowInv, NblsTyped, HasBuffer, NblRecords
<1>2. nbl[i].pkts[nbl[i].nb] \in Packets \cup {Crafted} /\ nbl[i].src \in Lists /\ nbl[i].leg \in Nat
  BY <1>1 DEF NblRecords, OnPath
<1> QED
  BY <1>1, <1>2 DEF Record

LEMMA RingAppends ==
  ASSUME FlowInv, NEW rec \in [pkt : Packets \cup {Crafted}, src : Lists, leg : Nat],
         OnPath(rec.src, rec.leg), Len(ring) < Slots, ring' = Append(ring, rec),
         client' = client, layer' = layer
  PROVE  RingTyped'
<1>1. /\ ring \in Seq([pkt : Packets \cup {Crafted}, src : Lists, leg : Nat])
      /\ \A k \in 1..Len(ring) : OnPath(ring[k].src, ring[k].leg)
  BY DEF FlowInv, RingTyped
<1>2. /\ ring' \in Seq([pkt : Packets \cup {Crafted}, src : Lists, leg : Nat])
      /\ Len(ring') = Len(ring) + 1 /\ ring' # <<>> /\ Len(ring') <= Slots
      /\ \A k \in 1..Len(ring) : ring'[k] = ring[k]
      /\ ring'[Len(ring) + 1] = rec
  BY <1>1, BoundsAssumption
<1>3. \A k \in 1..Len(ring') : OnPath(ring'[k].src, ring'[k].leg)
  BY <1>1, <1>2
<1> QED
  BY <1>2, <1>3 DEF FlowInv, RingTyped, OnPath, Legs

LEMMA RingTail ==
  ASSUME FlowInv, Drop
  PROVE  /\ RingTyped' /\ Len(ring') = Len(ring) - 1
         /\ \A k \in 1..Len(ring') : ring'[k] = ring[k + 1]
<1>1. /\ ring \in Seq([pkt : Packets \cup {Crafted}, src : Lists, leg : Nat]) /\ ring # <<>>
      /\ \A k \in 1..Len(ring) : OnPath(ring[k].src, ring[k].leg)
      /\ ring' = Tail(ring) /\ client' = "poll" /\ layer' = layer /\ Len(ring) <= Slots
  BY DEF FlowInv, RingTyped, Drop, setupVars
<1>2. /\ ring' \in Seq([pkt : Packets \cup {Crafted}, src : Lists, leg : Nat])
      /\ Len(ring') = Len(ring) - 1 /\ Len(ring) \in Nat \ {0}
      /\ \A k \in 1..Len(ring') : ring'[k] = ring[k + 1]
  BY <1>1
<1>3. \A k \in 1..Len(ring') : OnPath(ring'[k].src, ring'[k].leg)
  BY <1>1, <1>2
<1>4. Len(ring') <= Slots
  BY <1>1, <1>2, BoundsAssumption
<1> QED
  BY <1>1, <1>2, <1>3, <1>4 DEF RingTyped, OnPath, Legs

(* What becomes of an NBL in a step of the stack. *)
Passes(i) ==
  /\ Onward(i) /\ UNCHANGED <<ring, client>>
  /\ nbl[i].st = "wire" \/ (nbl[i].st = "classify" /\ (~Replays \/ readOnly))
Processes(i) == HasBuffer(i) /\ UNCHANGED client /\ \E passes, copied \in BOOLEAN : Process(i, passes, copied)
Blocks(i) ==
  /\ nbl[i].st = "classify" /\ nbl[i].nb > Len(nbl[i].pkts)
  /\ nbl' = [nbl EXCEPT ![i].st = "blocked", ![i].nb = 0] /\ UNCHANGED <<ring, client>>

LEMMA StackFacts ==
  ASSUME NEW i \in Nbls, StackStep(i)
  PROVE  /\ UNCHANGED <<setupVars, sendVars>>
         /\ Passes(i) \/ (Classify(i) /\ UNCHANGED <<ring, client>>) \/ Processes(i) \/ Blocks(i)
<1>1. CASE NotOurs(i) \/ SelfInjected(i)
  BY <1>1 DEF NotOurs, SelfInjected, Passes
<1>2. CASE Classify(i)
  BY <1>2 DEF Classify
<1>3. CASE ProcessBuffer(i)
  <2>1. HasBuffer(i) /\ \E passes, copied \in BOOLEAN : Process(i, passes, copied)
    <3>1. FilterResults(i) \subseteq BOOLEAN
      <4>1. (nbl[i].pkts[nbl[i].nb] \in program) \in BOOLEAN
        OBVIOUS
      <4>2. CASE nbl[i].torn
        BY <4>2 DEF FilterResults
      <4>3. CASE ~nbl[i].torn
        <5>1. FilterResults(i) = {nbl[i].pkts[nbl[i].nb] \in program}
          BY <4>3, Zenon DEF FilterResults
        <5> QED
          BY <4>1, <5>1, Zenon
      <4> QED
        BY <4>2, <4>3
    <3> QED
      BY <1>3, <3>1 DEF ProcessBuffer, ProcessNetwork, ProcessTransport, ProcessStream, ProcessFlow,
                        ProcessSocket, TransportFilterResults, SocketFilterResults
  <2> QED
    BY <2>1 DEF Process, Processes
<1>4. CASE ClassifyReturns(i)
  <2>1. PICK blocks : Returns(i, blocks) /\ (layer \in PacketLayers => blocks = ~readOnly)
    BY <1>4 DEF ClassifyReturns, NetworkReturns, TransportReturns, StreamReturns, FlowReturns,
                SocketReturns, PacketLayers
  <2>2. CASE blocks
    BY <2>1, <2>2 DEF Returns, Blocks
  <2>3. CASE ~blocks
    BY <2>1, <2>3 DEF Returns, Passes, Replays
  <2> QED
    BY <2>1, <2>2, <2>3 DEF Returns
<1> QED
  BY <1>1, <1>2, <1>3, <1>4 DEF StackStep

(* A step of the stack, of the client or of a request, by what it does to   *)
(* the NBLs and the ring.                                                   *)
LEMMA StackFlow ==
  ASSUME FlowInv, Contents, NEW i \in Nbls, StackStep(i)
  PROVE  NblsTyped' /\ RingTyped' /\ Contents'
<1>1. UNCHANGED <<setupVars, sendVars>>
  BY StackFacts
<1>2. layer' = layer /\ rq' = rq
  BY <1>1 DEF setupVars, sendVars
<1>3. nbl[i].st # "none" => OnPath(nbl[i].src, nbl[i].leg)
  BY DEF FlowInv, NblsTyped
<1>4. \A r \in Reqs : rq[r] \in {"free", "begun", "inject"} => nbl[r].st = "none"
  BY DEF FlowInv, NblsTyped
<1>5. CASE Passes(i)
  <2>1. nbl[i].st # "none"
    BY <1>5 DEF Passes
  <2>2. /\ nbl' \in [Nbls -> NblRecords] /\ Other(i) /\ nbl'[i].pkts = nbl[i].pkts
        /\ nbl'[i].st # "classify" /\ OnPath(nbl'[i].src, nbl'[i].leg)
    BY <1>5, <2>1, OnwardFacts DEF Passes
  <2>3. NblsTyped' /\ Contents'
    BY <1>2, <1>4, <2>1, <2>2, NblStep
  <2>4. RingTyped'
    BY <1>2, <1>5 DEF Passes, FlowInv, RingTyped, OnPath, Legs
  <2> QED
    BY <2>3, <2>4
<1>6. CASE Classify(i) /\ UNCHANGED <<ring, client>>
  <2>1. nbl[i].st # "none"
    BY <1>6 DEF Classify
  <2>2. /\ nbl' \in [Nbls -> NblRecords] /\ Other(i) /\ nbl'[i].pkts = nbl[i].pkts
        /\ nbl'[i].src = nbl[i].src /\ nbl'[i].leg = nbl[i].leg
        /\ nbl'[i].nb = 1
    BY <1>6, ClassifyFacts
  <2>3. nbl'[i].nb \in 1..(Len(nbl[i].pkts) + 1)
    BY <2>2 DEF FlowInv, NblsTyped, NblRecords
  <2>4. NblsTyped' /\ Contents'
    BY <1>2, <1>3, <1>4, <2>1, <2>2, <2>3, NblStep
  <2>5. RingTyped'
    BY <1>2, <1>6 DEF FlowInv, RingTyped, OnPath, Legs
  <2> QED
    BY <2>4, <2>5
<1>7. CASE Processes(i)
  <2>1. PICK passes \in BOOLEAN, copied \in BOOLEAN : Process(i, passes, copied)
    BY <1>7 DEF Processes
  <2>2. HasBuffer(i) /\ client' = client
    BY <1>7 DEF Processes
  <2>3. /\ nbl' \in [Nbls -> NblRecords] /\ Other(i)
        /\ nbl'[i].pkts = nbl[i].pkts /\ nbl'[i].src = nbl[i].src /\ nbl'[i].leg = nbl[i].leg
        /\ nbl'[i].nb = nbl[i].nb + 1
        /\ ring' = ring \/ (Len(ring) < Slots /\ ring' = Append(ring, Record(i)))
    BY <2>1, <2>2, ProcessFacts
  <2>4. nbl[i].st # "none" /\ nbl[i].nb \in 1..Len(nbl[i].pkts)
    BY <2>2, RecordTyped DEF HasBuffer
  <2>5. nbl'[i].nb \in 1..(Len(nbl[i].pkts) + 1)
    BY <2>3, <2>4 DEF FlowInv, NblsTyped, NblRecords
  <2>6. NblsTyped' /\ Contents'
    BY <1>2, <1>3, <1>4, <2>3, <2>4, <2>5, NblStep
  <2>7. ASSUME ring' = ring PROVE RingTyped'
    BY <1>2, <2>2, <2>7 DEF FlowInv, RingTyped, OnPath, Legs
  <2>8. ASSUME Len(ring) < Slots, ring' = Append(ring, Record(i)) PROVE RingTyped'
    BY <1>2, <2>2, <2>8, RecordTyped, RingAppends
  <2> QED
    BY <2>3, <2>6, <2>7, <2>8
<1>8. CASE Blocks(i)
  <2>1. nbl[i].st = "classify" /\ nbl' = [nbl EXCEPT ![i].st = "blocked", ![i].nb = 0]
    BY <1>8 DEF Blocks
  <2>2. /\ nbl' \in [Nbls -> NblRecords] /\ Other(i) /\ nbl'[i].pkts = nbl[i].pkts
        /\ nbl'[i].src = nbl[i].src /\ nbl'[i].leg = nbl[i].leg /\ nbl'[i].st = "blocked"
    BY <2>1, BlockFacts
  <2>3. NblsTyped' /\ Contents'
    BY <1>2, <1>3, <1>4, <2>1, <2>2, NblStep
  <2>4. RingTyped'
    BY <1>2, <1>8 DEF Blocks, FlowInv, RingTyped, OnPath, Legs
  <2> QED
    BY <2>3, <2>4
<1> QED
  BY <1>5, <1>6, <1>7, <1>8, StackFacts

LEMMA BeginFlow ==
  ASSUME FlowInv, Contents, NEW r \in Reqs, NEW p \in Packets \cup {Crafted}, NEW src, NEW leg,
         OnPath(src, leg), Begin(r, p, src, leg),
         client' \in {"poll", "held", "sent"}, client' # "poll" => ring # <<>>
  PROVE  NblsTyped' /\ RingTyped' /\ Contents'
<1>1. /\ nbl' \in [Nbls -> NblRecords] /\ Other(r) /\ r \in Nbls
      /\ nbl'[r].pkts = <<p>> /\ nbl'[r].src = src /\ nbl'[r].leg = leg /\ nbl'[r].st = "none"
  BY BeginFacts
<1>2. layer' = layer /\ ring' = ring /\ \A q \in Reqs \ {r} : rq'[q] = rq[q]
  BY DEF Begin, setupVars, FlowInv, RequestInv
<1>3. Contents'
  <2>1. \A l \in Lists : nbl'[l].pkts = Seen(l)
    BY <1>1, Apart DEF Contents, Other, Nbls
  <2>2. \A q \in Reqs : Len(nbl'[q].pkts) <= 1
    <3>1. Len(nbl'[r].pkts) = 1
      BY <1>1
    <3>2. ASSUME NEW q \in Reqs PROVE Len(nbl'[q].pkts) <= 1
      <4>1. CASE q = r
        <5>1. Len(nbl'[q].pkts) = 1
          BY <3>1, <4>1, Zenon
        <5> QED
          BY <5>1
      <4>2. CASE q # r
        <5>1. nbl'[q] = nbl[q]
          BY <1>1, <4>2 DEF Other, Nbls
        <5> QED
          BY <5>1 DEF Contents
      <4> QED
        BY <4>1, <4>2
    <3> QED
      BY <3>2
  <2> QED
    BY <1>2, <2>1, <2>2 DEF Contents, Seen
<1>4. RingTyped'
  BY <1>2 DEF FlowInv, RingTyped, OnPath, Legs
<1>5. /\ \A j \in Nbls : nbl'[j].st # "none" => OnPath(nbl'[j].src, nbl'[j].leg)
      /\ \A j \in Nbls : nbl'[j].st = "classify" => nbl'[j].nb \in 1..(Len(nbl'[j].pkts) + 1)
      /\ \A q \in Reqs : rq'[q] # "free" => OnPath(nbl'[q].src, nbl'[q].leg)
      /\ \A q \in Reqs : rq'[q] \in {"free", "begun", "inject"} => nbl'[q].st = "none"
  BY <1>1, <1>2 DEF Other, FlowInv, NblsTyped, Nbls
<1>6. NblsTyped'
  BY <1>1, <1>2, <1>5 DEF NblsTyped, OnPath, Legs
<1> QED
  BY <1>3, <1>4, <1>6

LEMMA ClientFlow ==
  ASSUME FlowInv, Contents, NEW r \in Reqs, SendPacket(r) \/ SendCrafted(r)
  PROVE  NblsTyped' /\ RingTyped' /\ Contents'
<1>1. CASE SendPacket(r)
  <2>1. /\ ring # <<>> /\ client' = "sent" /\ client = "held"
        /\ Begin(r, Head(ring).pkt, Head(ring).src, Head(ring).leg)
    BY <1>1 DEF SendPacket, FlowInv, RingTyped
  <2>2. ring \in Seq([pkt : Packets \cup {Crafted}, src : Lists, leg : Nat])
    BY DEF FlowInv, RingTyped
  <2>3. Head(ring) = ring[1] /\ 1 \in 1..Len(ring)
    BY <2>1, <2>2
  <2>4. Head(ring).pkt \in Packets \cup {Crafted} /\ OnPath(Head(ring).src, Head(ring).leg)
    <3>1. ring[1] \in [pkt : Packets \cup {Crafted}, src : Lists, leg : Nat]
      <4> DEFINE Records == [pkt : Packets \cup {Crafted}, src : Lists, leg : Nat]
      <4>1. ring \in Seq(Records)
        BY <2>2
      <4> HIDE DEF Records
      <4>2. ring[1] \in Records
        BY <2>3, <4>1
      <4> QED
        BY <4>2 DEF Records
    <3>2. OnPath(ring[1].src, ring[1].leg)
      BY <2>3 DEF FlowInv, RingTyped
    <3> QED
      BY <2>3, <3>1, <3>2
  <2> QED
    BY <2>1, <2>4, BeginFlow
<1>2. CASE SendCrafted(r)
  <2>1. PICK l \in Lists : Begin(r, Crafted, l, 1)
    BY <1>2 DEF SendCrafted
  <2>2. client' = client /\ client = "poll"
    BY <1>2 DEF SendCrafted
  <2>3. OnPath(l, 1)
    BY LegsTyped DEF OnPath
  <2> QED
    BY <2>1, <2>2, <2>3, BeginFlow
<1> QED
  BY <1>1, <1>2

LEMMA SendFlow ==
  ASSUME FlowInv, Contents, NEW r \in Reqs, SendStep(r) \/ Discard(r) \/ Completion(r)
  PROVE  NblsTyped' /\ RingTyped' /\ Contents'
<1>1. /\ rq \in [Reqs -> Dispatched \cup {"free", "done", "lost"}]
      /\ client \in {"poll", "held", "sent"} /\ (client # "poll" => ring # <<>>)
  BY DEF FlowInv, RequestInv, RingTyped
<1>2. CASE Inject(r)
  <2>1. /\ nbl' \in [Nbls -> NblRecords] /\ Other(r) /\ r \in Nbls /\ nbl'[r].pkts = nbl[r].pkts
        /\ OnPath(nbl'[r].src, nbl'[r].leg) /\ nbl'[r].st # "classify"
    BY <1>2, InjectFacts
  <2>2. /\ rq[r] = "inject" /\ rq' = [rq EXCEPT ![r] = "return"]
        /\ layer' = layer /\ ring' = ring /\ client' = client
    BY <1>2 DEF Inject, setupVars
  <2>3. NblsTyped' /\ Contents'
    BY <1>1, <2>1, <2>2, NblStep
  <2>4. RingTyped'
    BY <2>2 DEF FlowInv, RingTyped, OnPath, Legs
  <2> QED
    BY <2>3, <2>4
<1>3. CASE Discard(r)
  <2>1. /\ nbl' \in [Nbls -> NblRecords] /\ Other(r) /\ r \in Nbls
        /\ nbl'[r].pkts = nbl[r].pkts /\ nbl'[r].src = nbl[r].src /\ nbl'[r].leg = nbl[r].leg
        /\ nbl'[r].st = "discarded" /\ nbl[r].st = "wire"
    BY <1>3, DiscardFacts
  <2>2. rq' = rq /\ layer' = layer /\ ring' = ring /\ client' = client
    BY <1>3 DEF Discard, setupVars, sendVars
  <2>3. OnPath(nbl[r].src, nbl[r].leg) /\ rq[r] \notin {"free", "begun", "inject"}
    BY <2>1 DEF FlowInv, NblsTyped
  <2>4. NblsTyped' /\ Contents'
    BY <2>1, <2>2, <2>3, NblStep
  <2>5. RingTyped'
    BY <2>2 DEF FlowInv, RingTyped, OnPath, Legs
  <2> QED
    BY <2>4, <2>5
<1>4. CASE \/ Prepare(r) \/ PrepareFails(r) \/ CannotInject(r) \/ StreamRefuses(r)
           \/ InjectFails(r) \/ SendReturns(r) \/ Completion(r)
  <2>1. /\ nbl' = nbl /\ ring' = ring /\ layer' = layer /\ client' = client
        /\ rq' = rq \/ (rq[r] # "free" /\ \E s \in {"inject", "return", "done", "lost"} :
                         /\ rq' = [rq EXCEPT ![r] = s]
                         /\ s = "inject" => rq[r] = "begun")
    BY <1>4 DEF Prepare, PrepareFails, CannotInject, StreamRefuses, InjectFails, SendReturns, Completion,
                setupVars
  <2>2. /\ \A q \in Reqs : rq[q] = "free" => rq'[q] = "free"
        /\ \A q \in Reqs : rq'[q] \in {"free", "begun", "inject"} => rq[q] \in {"free", "begun", "inject"}
    BY <1>1, <2>1
  <2> QED
    BY <1>1, <2>1, <2>2, RestStep
<1> QED
  BY <1>2, <1>3, <1>4 DEF SendStep

LEMMA FlowStep == FlowInv /\ Contents /\ [Next]_vars => FlowInv' /\ Contents'
<1> SUFFICES ASSUME FlowInv, Contents, [Next]_vars PROVE FlowInv' /\ Contents'
  OBVIOUS
<1>1. RequestInv'
  BY RequestStep DEF FlowInv
<1>2. SetupTyped /\ owed \in SUBSET Reqs /\ client \in {"poll", "held", "sent"} /\ (client # "poll" => ring # <<>>)
  BY DEF FlowInv, RingTyped
<1>3. SetupTyped' /\ owed' \subseteq Reqs
  <2>1. CASE UNCHANGED <<setupVars, owed>>
    BY <1>2, <2>1 DEF setupVars, SetupTyped
  <2>2. CASE InitWfp \/ Startup
    BY <1>2, <2>2 DEF InitWfp, Startup, SetupTyped, sendVars
  <2>3. ASSUME NEW p \in Programs, SetBpf(p) PROVE SetupTyped' /\ owed' \subseteq Reqs
    BY <1>2, <2>3 DEF SetBpf, SetupTyped, sendVars
  <2>4. ASSUME NEW i \in Nbls, StackStep(i) PROVE UNCHANGED <<setupVars, owed>>
    BY <2>4, StackFacts DEF sendVars
  <2>5. CASE Receive \/ Drop
    BY <2>1, <2>5 DEF Receive, Drop, sendVars
  <2>6. ASSUME NEW r \in Reqs, SendPacket(r) \/ SendCrafted(r) PROVE UNCHANGED <<setupVars, owed>>
    BY <2>6 DEF SendPacket, SendCrafted, Begin
  <2>7. ASSUME NEW r \in Reqs, SendStep(r) \/ Discard(r) \/ Completion(r)
        PROVE  UNCHANGED setupVars /\ owed' \subseteq Reqs
    BY <1>2, <2>7 DEF SendStep, Prepare, PrepareFails, CannotInject, StreamRefuses, InjectFails, Inject,
                      SendReturns, Discard, Completion, sendVars
  <2>8. ASSUME UNCHANGED setupVars PROVE SetupTyped'
    BY <1>2, <2>8 DEF setupVars, SetupTyped
  <2>9. CASE UNCHANGED vars
    BY <2>1, <2>9 DEF vars, sendVars
  <2> QED
    BY <2>1, <2>2, <2>3, <2>4, <2>5, <2>6, <2>7, <2>8, <2>9 DEF Next
<1>4. NblsTyped' /\ RingTyped' /\ Contents'
  <2>1. CASE InitWfp \/ Startup
    BY <1>2, <2>1, RestStep DEF InitWfp, Startup, sendVars
  <2>2. ASSUME NEW p \in Programs, SetBpf(p) PROVE NblsTyped' /\ RingTyped' /\ Contents'
    <3>1. /\ nbl' \in [Nbls -> NblRecords]
          /\ \A i \in Nbls :
               /\ nbl'[i].pkts = nbl[i].pkts /\ nbl'[i].src = nbl[i].src /\ nbl'[i].leg = nbl[i].leg
               /\ nbl'[i].st = nbl[i].st /\ nbl'[i].nb = nbl[i].nb
      BY <2>2, SetBpfFacts
    <3>2. layer' = layer /\ ring' = ring /\ client' = client /\ rq' = rq
      BY <2>2 DEF SetBpf, sendVars
    <3>3. NblsTyped'
      BY <3>1, <3>2 DEF FlowInv, NblsTyped, OnPath, Legs, Nbls
    <3>4. RingTyped'
      BY <3>2 DEF FlowInv, RingTyped, OnPath, Legs
    <3>5. Contents'
      BY <3>1, <3>2 DEF Contents, Seen, Nbls
    <3> QED
      BY <3>3, <3>4, <3>5
  <2>3. ASSUME NEW i \in Nbls, StackStep(i) PROVE NblsTyped' /\ RingTyped' /\ Contents'
    BY <2>3, StackFlow
  <2>4. CASE Receive
    BY <2>4, RestStep DEF Receive, setupVars, sendVars
  <2>5. CASE Drop
    <3>1. RingTyped'
      BY <2>5, RingTail
    <3>2. layer' = layer /\ nbl' = nbl /\ rq' = rq
      BY <2>5 DEF Drop, setupVars, sendVars
    <3>3. NblsTyped' /\ Contents'
      BY <3>2 DEF FlowInv, NblsTyped, OnPath, Legs, Contents, Seen
    <3> QED
      BY <3>1, <3>3
  <2>6. ASSUME NEW r \in Reqs, SendPacket(r) \/ SendCrafted(r) PROVE NblsTyped' /\ RingTyped' /\ Contents'
    BY <2>6, ClientFlow
  <2>7. ASSUME NEW r \in Reqs, SendStep(r) \/ Discard(r) \/ Completion(r)
        PROVE  NblsTyped' /\ RingTyped' /\ Contents'
    BY <2>7, SendFlow
  <2>8. CASE UNCHANGED vars
    BY <1>2, <2>8, RestStep DEF vars, setupVars, sendVars
  <2> QED
    BY <2>1, <2>2, <2>3, <2>4, <2>5, <2>6, <2>7, <2>8 DEF Next
<1> QED
  BY <1>1, <1>3, <1>4 DEF FlowInv

(* Type invariant.                                                          *)
THEOREM TypeCorrect == Spec => []TypeOK
<1>1. FlowInv => TypeOK
  BY DEF FlowInv, RequestInv, SetupTyped, NblsTyped, RingTyped, NblRecords, Marks, States, OnPath, TypeOK
<1> QED
  BY <1>1, InitFlow, FlowStep, PTL DEF Spec

-----------------------------------------------------------------------------
(* The place of a packet.                                                   *)

(* What NBL j may do while the others stay: it goes on to a later leg, or   *)
(* stays on its leg and is not caught there again.                          *)
GoesOn(j) ==
  /\ nbl'[j].pkts = nbl[j].pkts /\ nbl'[j].leg \in Nat /\ nbl[j].leg \in Nat /\ nbl[j].leg <= nbl'[j].leg
  /\ \A k \in Nat : Copy(j, k) => (Done(j, k)' <=> Done(j, k)) /\ (Done(j, k) => nbl'[j].leg = nbl[j].leg)
  /\ \/ nbl[j].st = "classify" \/ ~LetPast(j) \/ nbl'[j].leg > nbl[j].leg
     \/ nbl'[j].st # "classify" /\ LetPast(j)'

LEMMA Settled ==
  ASSUME Placed, ring' = ring, (client = "sent") => (client' = "sent"), \A j \in Nbls : GoesOn(j)
  PROVE  Placed'
<1>1. \A n \in Nat : Waits(n)' => Waits(n)
  BY DEF Waits
<1>2. \A j \in Nbls : \A k \in Nat : Copy(j, k)' => Copy(j, k)
  BY DEF GoesOn, Copy
<1>3. \A j \in Nbls : \A k \in Nat : Copy(j, k) => (Done(j, k)' <=> Done(j, k))
  BY DEF GoesOn
<1>4. \A j \in Nbls : nbl'[j].pkts = nbl[j].pkts
  BY DEF GoesOn
<1>5. OneCopy'
  BY <1>2, <1>3, <1>4 DEF Placed, OneCopy
<1>6. CopyOrRecord'
  BY <1>1, <1>2, <1>3, <1>4 DEF Placed, CopyOrRecord
<1>7. OneRecord'
  BY <1>1 DEF Placed, OneRecord
<1>8. BehindCopy'
  <2> SUFFICES ASSUME NEW i \in Nbls, NEW j \in Nbls, NEW k \in Nat, NEW m \in Nat,
                      Copy(i, k)', Copy(j, m)', Done(i, k)', ~Done(j, m)',
                      nbl'[i].pkts[k] = nbl'[j].pkts[m]
               PROVE  /\ nbl'[i].leg <= nbl'[j].leg
                      /\ nbl'[i].leg = nbl'[j].leg => nbl'[j].st # "classify" /\ LetPast(j)'
    BY DEF BehindCopy
  <2>1. Copy(i, k) /\ Copy(j, m) /\ Done(i, k) /\ ~Done(j, m) /\ nbl[i].pkts[k] = nbl[j].pkts[m]
    BY <1>2, <1>3, <1>4
  <2>2. /\ nbl[i].leg <= nbl[j].leg
        /\ nbl[i].leg = nbl[j].leg => nbl[j].st # "classify" /\ LetPast(j)
    BY <2>1 DEF Placed, BehindCopy
  <2>3. nbl'[i].leg = nbl[i].leg /\ nbl[j].leg <= nbl'[j].leg
        /\ nbl[i].leg \in Nat /\ nbl[j].leg \in Nat /\ nbl'[j].leg \in Nat
    BY <2>1 DEF GoesOn
  <2>4. \/ nbl[j].st = "classify" \/ ~LetPast(j) \/ nbl'[j].leg > nbl[j].leg
        \/ nbl'[j].st # "classify" /\ LetPast(j)'
    BY DEF GoesOn
  <2> QED
    BY <2>2, <2>3, <2>4
<1>9. BehindRecord'
  BY <1>1, <1>2, <1>3, <1>4 DEF Placed, BehindRecord, GoesOn
<1>10. OncePerLeg'
  BY <1>2, <1>3, <1>4 DEF Placed, OncePerLeg, GoesOn
<1> QED
  BY <1>5, <1>6, <1>7, <1>8, <1>9, <1>10 DEF Placed

LEMMA Stays ==
  ASSUME FlowInv, layer' = layer, NEW j \in Nbls, nbl'[j] = nbl[j]
  PROVE  GoesOn(j)
<1>1. nbl[j].leg \in Nat
  BY DEF FlowInv, NblsTyped, NblRecords
<1>2. \A k \in Nat : Done(j, k)' <=> Done(j, k)
  BY DEF Done
<1>3. LetPast(j)' <=> LetPast(j)
  BY DEF LetPast, IsSelfInjected, Handle, Direction, Legs, NetworkHandle, ForwardHandle, TransportHandle
<1> QED
  BY <1>1, <1>2, <1>3 DEF GoesOn

LEMMA OnlyOne ==
  ASSUME FlowInv, layer' = layer, NEW i \in Nbls, Other(i), GoesOn(i)
  PROVE  \A j \in Nbls : GoesOn(j)
BY Stays DEF Other

(* A step of the stack that intercepts nothing. *)
LEMMA StackSettles ==
  ASSUME FlowInv, Contents, Replays, ~readOnly, Placed, NEW i \in Nbls, StackStep(i), ~Processes(i)
  PROVE  Placed'
<1>1. UNCHANGED <<setupVars, sendVars>>
  BY StackFacts
<1>2. layer' = layer /\ layer \in PacketLayers
  BY <1>1 DEF setupVars, Replays
<1>3. nbl \in [Nbls -> NblRecords]
  BY DEF FlowInv, NblsTyped
<1>4. CASE Passes(i)
  <2>1. Onward(i) /\ nbl[i].st = "wire" /\ ring' = ring /\ client' = client
    BY <1>4 DEF Passes
  <2>2. /\ nbl' \in [Nbls -> NblRecords] /\ Other(i) /\ nbl'[i].pkts = nbl[i].pkts
        /\ \/ nbl'[i].leg = nbl[i].leg + 1 /\ nbl'[i].st = "wire"
           \/ nbl'[i].leg = nbl[i].leg /\ nbl'[i].st = "delivered"
    BY <2>1, OnwardFacts
  <2>3. nbl'[i].leg \in Nat /\ nbl[i].leg \in Nat
    BY <1>3, <2>2 DEF NblRecords
  <2>4. GoesOn(i)
    BY <2>1, <2>2, <2>3 DEF GoesOn, Done, LetPast
  <2> QED
    BY <1>2, <2>1, <2>2, <2>4, OnlyOne, Settled
<1>5. CASE Classify(i) /\ UNCHANGED <<ring, client>>
  <2>1. /\ nbl' \in [Nbls -> NblRecords] /\ Other(i) /\ nbl'[i].pkts = nbl[i].pkts
        /\ nbl'[i].leg = nbl[i].leg /\ nbl'[i].st = "classify" /\ nbl'[i].nb = 1
    BY <1>5, ClassifyFacts
  <2>2. nbl[i].st = "wire" /\ ~LetPast(i)
    BY <1>5 DEF Classify, LetPast
  <2>3. nbl'[i].leg \in Nat /\ nbl[i].leg \in Nat
    BY <1>3, <2>1 DEF NblRecords
  <2>4. GoesOn(i)
    BY <2>1, <2>2, <2>3 DEF GoesOn, Done, Copy
  <2> QED
    BY <1>2, <1>5, <2>1, <2>4, OnlyOne, Settled
<1>6. CASE Blocks(i)
  <2>1. nbl[i].st = "classify" /\ nbl[i].nb > Len(nbl[i].pkts) /\ ring' = ring /\ client' = client
    BY <1>6 DEF Blocks
  <2>2. /\ nbl' \in [Nbls -> NblRecords] /\ Other(i) /\ nbl'[i].pkts = nbl[i].pkts
        /\ nbl'[i].leg = nbl[i].leg /\ nbl'[i].st = "blocked"
    BY <1>6, BlockFacts DEF Blocks
  <2>3. nbl'[i].leg \in Nat /\ nbl[i].leg \in Nat /\ nbl[i].nb \in Nat /\ Len(nbl[i].pkts) \in Nat
    BY <1>3, <2>2 DEF NblRecords
  <2>4. GoesOn(i)
    BY <2>1, <2>2, <2>3 DEF GoesOn, Done, Copy
  <2> QED
    BY <1>2, <2>1, <2>2, <2>4, OnlyOne, Settled
<1> QED
  BY <1>4, <1>5, <1>6, StackFacts

LEMMA InjectSettles ==
  ASSUME FlowInv, Replays, Placed, NEW r \in Reqs, Inject(r)
  PROVE  Placed'
<1>1. layer' = layer /\ ring' = ring /\ client' = client /\ layer \in PacketLayers /\ layer # "stream"
  BY DEF Inject, setupVars, Replays, PacketLayers
<1>2. /\ nbl' \in [Nbls -> NblRecords] /\ Other(r) /\ r \in Nbls
      /\ nbl'[r].pkts = nbl[r].pkts /\ nbl'[r].src = nbl[r].src /\ nbl'[r].leg = nbl[r].leg
      /\ nbl'[r].mark = Handle(Legs(nbl[r].src)[nbl[r].leg])
      /\ nbl'[r].st = "wire" /\ nbl[r].st = "none"
  BY <1>1, InjectFacts
<1>3. LetPast(r)'
  BY <1>1, <1>2 DEF LetPast, IsSelfInjected, Handle, Direction, Legs, NetworkHandle, ForwardHandle,
                    TransportHandle
<1>4. nbl[r].leg \in Nat
  BY <1>2 DEF FlowInv, NblsTyped, NblRecords
<1>5. GoesOn(r)
  BY <1>2, <1>3, <1>4 DEF GoesOn, Done
<1> QED
  BY <1>1, <1>2, <1>5, OnlyOne, Settled

LEMMA DiscardSettles ==
  ASSUME FlowInv, Placed, NEW r \in Reqs, Discard(r)
  PROVE  Placed'
<1>1. layer' = layer /\ ring' = ring /\ client' = client
  BY DEF Discard, setupVars
<1>2. /\ nbl' \in [Nbls -> NblRecords] /\ Other(r) /\ r \in Nbls /\ nbl'[r].pkts = nbl[r].pkts
      /\ nbl'[r].leg = nbl[r].leg /\ nbl'[r].st = "discarded" /\ nbl[r].st = "wire"
  BY DiscardFacts
<1>3. nbl[r].leg \in Nat
  BY <1>2 DEF FlowInv, NblsTyped, NblRecords
<1>4. GoesOn(r)
  BY <1>2, <1>3 DEF GoesOn, Done, LetPast
<1> QED
  BY <1>1, <1>2, <1>4, OnlyOne, Settled

LEMMA SetBpfSettles ==
  ASSUME FlowInv, Placed, NEW p, SetBpf(p)
  PROVE  Placed'
<1>1. layer' = layer /\ ring' = ring /\ client' = client
  BY DEF SetBpf
<1>2. \A i \in Nbls :
        /\ nbl'[i].pkts = nbl[i].pkts /\ nbl'[i].src = nbl[i].src /\ nbl'[i].leg = nbl[i].leg
        /\ nbl'[i].mark = nbl[i].mark /\ nbl'[i].st = nbl[i].st /\ nbl'[i].nb = nbl[i].nb
  BY SetBpfFacts
<1>3. ASSUME NEW j \in Nbls PROVE GoesOn(j)
  <2>1. nbl[j].leg \in Nat
    BY DEF FlowInv, NblsTyped, NblRecords
  <2>2. LetPast(j)' <=> LetPast(j)
    BY <1>1, <1>2 DEF LetPast, IsSelfInjected, Handle, Direction, Legs, NetworkHandle, ForwardHandle,
                      TransportHandle
  <2> QED
    BY <1>2, <2>1, <2>2 DEF GoesOn, Done
<1> QED
  BY <1>1, <1>3, Settled

(* The classify function is done with a packet: what was an undone copy is  *)
(* a record, or gone.                                                       *)
LEMMA ProcessSettles ==
  ASSUME FlowInv, Placed, NEW i \in Nbls, Processes(i)
  PROVE  Placed'
<1>1. PICK passes \in BOOLEAN, copied \in BOOLEAN : Process(i, passes, copied)
  BY DEF Processes
<1>2. HasBuffer(i) /\ client' = client /\ layer' = layer
  BY <1>1 DEF Processes, Process, setupVars
<1>3. /\ Other(i) /\ nbl'[i].pkts = nbl[i].pkts /\ nbl'[i].src = nbl[i].src
      /\ nbl'[i].leg = nbl[i].leg /\ nbl'[i].st = nbl[i].st /\ nbl'[i].nb = nbl[i].nb + 1
      /\ ring' = ring \/ (Len(ring) < Slots /\ ring' = Append(ring, Record(i)))
  BY <1>1, <1>2, ProcessFacts
<1> DEFINE b == nbl[i].nb
           p == nbl[i].pkts[b]
<1>4. /\ nbl[i].st = "classify" /\ b \in Nat /\ b \in 1..Len(nbl[i].pkts) /\ ~Done(i, b)
      /\ p \in Packets => Copy(i, b)
  BY <1>2, RecordTyped DEF HasBuffer, Done, Copy
<1>5. /\ \A j \in Nbls : nbl'[j].pkts = nbl[j].pkts /\ nbl'[j].leg = nbl[j].leg /\ nbl'[j].st = nbl[j].st
      /\ \A j \in Nbls : \A k \in Nat : Copy(j, k)' <=> Copy(j, k)
  <2>1. \A j \in Nbls : nbl'[j].pkts = nbl[j].pkts /\ nbl'[j].leg = nbl[j].leg /\ nbl'[j].st = nbl[j].st
    BY <1>3 DEF Other
  <2> QED
    BY <2>1 DEF Copy
<1>6. \A j \in Nbls : \A k \in Nat : Done(j, k)' <=> (Done(j, k) \/ (j = i /\ k = b))
  BY <1>3, <1>4 DEF Other, Done
<1>7. \A j \in Nbls : LetPast(j)' <=> LetPast(j)
  <2>1. LetPast(i)' /\ LetPast(i)
    BY <1>3, <1>4 DEF LetPast
  <2>2. ASSUME NEW j \in Nbls, j # i PROVE LetPast(j)' <=> LetPast(j)
    <3>1. nbl'[j] = nbl[j]
      BY <1>3, <2>2 DEF Other
    <3> QED
      BY <1>2, <3>1 DEF LetPast, IsSelfInjected, Handle, Direction, Legs, NetworkHandle, ForwardHandle,
                        TransportHandle
  <2> QED
    BY <2>1, <2>2
<1>8. \A n \in Nat : Waits(n)' =>
        \/ Waits(n) /\ ring'[n] = ring[n]
        \/ ring'[n].pkt = p /\ ring'[n].leg = nbl[i].leg /\ n = Len(ring) + 1 /\ Len(ring) \in Nat
  <2>1. ring \in Seq([pkt : Packets \cup {Crafted}, src : Lists, leg : Nat])
    BY DEF FlowInv, RingTyped
  <2>2. CASE ring' = ring
    BY <1>2, <2>2 DEF Waits
  <2>3. CASE ring' = Append(ring, Record(i))
    <3>1. /\ Len(ring') = Len(ring) + 1 /\ Len(ring) \in Nat /\ ring'[Len(ring) + 1] = Record(i)
          /\ \A n \in 1..Len(ring) : ring'[n] = ring[n]
      BY <2>1, <2>3
    <3>2. Record(i).pkt = p /\ Record(i).leg = nbl[i].leg
      BY DEF Record
    <3> QED
      BY <1>2, <3>1, <3>2 DEF Waits
  <2> QED
    BY <1>3, <2>2, <2>3
<1> HIDE DEF b
<1>9. OneCopy'
  BY <1>5, <1>6 DEF Placed, OneCopy
<1>10. CopyOrRecord'
  <2> SUFFICES ASSUME NEW j \in Nbls, NEW k \in Nat, NEW n \in Nat, Copy(j, k)', ~Done(j, k)', Waits(n)'
               PROVE  ring'[n].pkt # nbl'[j].pkts[k]
    BY DEF CopyOrRecord
  <2>1. Copy(j, k) /\ ~Done(j, k) /\ ~(j = i /\ k = b) /\ nbl'[j].pkts[k] = nbl[j].pkts[k]
    BY <1>5, <1>6
  <2>2. CASE Waits(n) /\ ring'[n] = ring[n]
    BY <2>1, <2>2 DEF Placed, CopyOrRecord
  <2>3. CASE ring'[n].pkt = p
    <3>1. nbl[j].pkts[k] = p => Copy(i, b)
      BY <1>4, <2>1 DEF Copy
    <3> QED
      BY <1>4, <2>1, <2>3, <3>1 DEF Placed, OneCopy
  <2> QED
    BY <1>8, <2>2, <2>3
<1>11. OneRecord'
  <2> SUFFICES ASSUME NEW m \in Nat, NEW n \in Nat, Waits(m)', Waits(n)', ring'[m].pkt = ring'[n].pkt,
                      ring'[m].pkt \in Packets
               PROVE  m = n
    BY DEF OneRecord
  <2>1. ASSUME NEW w \in Nat, Waits(w), ring'[w] = ring[w], ring[w].pkt = p PROVE p \notin Packets
    BY <1>4, <2>1 DEF Placed, CopyOrRecord
  <2> QED
    BY <1>8, <2>1 DEF Placed, OneRecord
<1>12. BehindCopy'
  <2> SUFFICES ASSUME NEW a \in Nbls, NEW j \in Nbls, NEW k \in Nat, NEW m \in Nat,
                      Copy(a, k)', Copy(j, m)', Done(a, k)', ~Done(j, m)',
                      nbl'[a].pkts[k] = nbl'[j].pkts[m]
               PROVE  /\ nbl'[a].leg <= nbl'[j].leg
                      /\ nbl'[a].leg = nbl'[j].leg => nbl'[j].st # "classify" /\ LetPast(j)'
    BY DEF BehindCopy
  <2>1. /\ Copy(a, k) /\ Copy(j, m) /\ ~Done(j, m) /\ nbl[a].pkts[k] = nbl[j].pkts[m]
        /\ Done(a, k) \/ (a = i /\ k = b)
        /\ ~(j = i /\ m = b)
    BY <1>5, <1>6
  <2>2. Done(a, k)
    BY <1>4, <2>1 DEF Placed, OneCopy
  <2>3. /\ nbl[a].leg <= nbl[j].leg
        /\ nbl[a].leg = nbl[j].leg => nbl[j].st # "classify" /\ LetPast(j)
    BY <2>1, <2>2 DEF Placed, BehindCopy
  <2> QED
    BY <1>5, <1>7, <2>3
<1>13. BehindRecord'
  <2> SUFFICES ASSUME NEW j \in Nbls, NEW k \in Nat, NEW n \in Nat, Copy(j, k)', Done(j, k)', Waits(n)',
                      ring'[n].pkt = nbl'[j].pkts[k]
               PROVE  nbl'[j].leg <= ring'[n].leg
    BY DEF BehindRecord
  <2>1. Copy(j, k) /\ (Done(j, k) \/ (j = i /\ k = b)) /\ nbl'[j].pkts = nbl[j].pkts /\ nbl'[j].leg = nbl[j].leg
    BY <1>5, <1>6
  <2>2. CASE Waits(n) /\ ring'[n] = ring[n]
    <3>1. Done(j, k)
      BY <1>4, <2>1, <2>2 DEF Placed, CopyOrRecord
    <3> QED
      BY <2>1, <2>2, <3>1 DEF Placed, BehindRecord
  <2>3. CASE ring'[n].pkt = p /\ ring'[n].leg = nbl[i].leg
    <3>1. Copy(i, b)
      BY <1>4, <2>1, <2>3 DEF Copy
    <3>2. CASE Done(j, k)
      BY <1>4, <2>1, <2>3, <3>1, <3>2 DEF Placed, BehindCopy
    <3>3. CASE j = i
      <4>1. nbl[i].leg \in Nat
        BY DEF FlowInv, NblsTyped, NblRecords
      <4> QED
        BY <2>1, <2>3, <3>3, <4>1
    <3> QED
      BY <2>1, <3>2, <3>3
  <2> QED
    BY <1>8, <2>2, <2>3
<1>14. OncePerLeg'
  <2> SUFFICES ASSUME NEW a \in Nbls, NEW j \in Nbls, NEW k \in Nat, NEW m \in Nat,
                      Copy(a, k)', Copy(j, m)', Done(a, k)', Done(j, m)',
                      nbl'[a].pkts[k] = nbl'[j].pkts[m], nbl'[a].leg = nbl'[j].leg
               PROVE  a = j
    BY DEF OncePerLeg
  <2>1. /\ Copy(a, k) /\ Copy(j, m) /\ nbl[a].pkts[k] = nbl[j].pkts[m] /\ nbl[a].leg = nbl[j].leg
        /\ Done(a, k) \/ (a = i /\ k = b)
        /\ Done(j, m) \/ (j = i /\ m = b)
    BY <1>5, <1>6
  <2>2. CASE Done(a, k) /\ Done(j, m)
    BY <2>1, <2>2 DEF Placed, OncePerLeg
  <2>3. CASE Done(a, k) /\ j = i /\ m = b
    BY <1>4, <2>1, <2>3 DEF Placed, BehindCopy
  <2>4. CASE Done(j, m) /\ a = i /\ k = b
    BY <1>4, <2>1, <2>4 DEF Placed, BehindCopy
  <2> QED
    BY <2>1, <2>2, <2>3, <2>4
<1> QED
  BY <1>9, <1>10, <1>11, <1>12, <1>13, <1>14 DEF Placed

(* The record the client holds becomes the packet of a request. *)
LEMMA SendPacketSettles ==
  ASSUME FlowInv, Placed, NEW r \in Reqs, SendPacket(r)
  PROVE  Placed'
<1> DEFINE rec == ring[1]
<1>1. /\ ring # <<>> /\ client' = "sent" /\ client = "held" /\ layer' = layer /\ ring' = ring
      /\ Begin(r, Head(ring).pkt, Head(ring).src, Head(ring).leg)
  BY DEF SendPacket, Begin, FlowInv, RingTyped, setupVars
<1>2. Head(ring) = rec /\ Waits(1) /\ OnPath(rec.src, rec.leg) /\ rec.pkt \in Packets \cup {Crafted}
  <2> DEFINE Records == [pkt : Packets \cup {Crafted}, src : Lists, leg : Nat]
  <2>1. ring \in Seq(Records) /\ \A k \in 1..Len(ring) : OnPath(ring[k].src, ring[k].leg)
    BY DEF FlowInv, RingTyped
  <2> HIDE DEF Records
  <2>2. Head(ring) = rec /\ 1 \in 1..Len(ring) /\ rec \in Records
    BY <1>1, <2>1
  <2> QED
    BY <1>1, <2>1, <2>2 DEF Records, Waits
<1>3. /\ Other(r) /\ r \in Nbls /\ nbl'[r].pkts = <<rec.pkt>> /\ nbl'[r].leg = rec.leg
      /\ nbl'[r].st = "none"
  BY <1>1, <1>2, BeginFacts
<1> HIDE DEF rec
<1>4. /\ \A n \in Nat : Waits(n)' => Waits(n) /\ n # 1
      /\ Waits(1) /\ rec = ring[1]
  BY <1>1, <1>2 DEF Waits, rec
<1>5. ASSUME NEW j \in Nbls, j # r
      PROVE  /\ nbl'[j] = nbl[j] /\ LetPast(j)' = LetPast(j)
             /\ \A k \in Nat : (Copy(j, k)' <=> Copy(j, k)) /\ (Done(j, k)' <=> Done(j, k))
  <2>1. nbl'[j] = nbl[j]
    BY <1>3, <1>5 DEF Other
  <2> QED
    BY <1>1, <2>1 DEF Copy, Done, LetPast, IsSelfInjected, Handle, Direction, Legs, NetworkHandle,
                      ForwardHandle, TransportHandle
<1>6. ASSUME NEW k \in Nat
      PROVE  ~Done(r, k)' /\ (Copy(r, k)' => k = 1 /\ nbl'[r].pkts[k] = rec.pkt /\ rec.pkt \in Packets)
  BY <1>3 DEF Copy, Done
<1>7. OneCopy'
  <2> SUFFICES ASSUME NEW i \in Nbls, NEW j \in Nbls, NEW k \in Nat, NEW m \in Nat,
                      Copy(i, k)', Copy(j, m)', ~Done(i, k)', ~Done(j, m)',
                      nbl'[i].pkts[k] = nbl'[j].pkts[m]
               PROVE  i = j /\ k = m
    BY DEF OneCopy
  <2>1. CASE i # r /\ j # r
    BY <1>5, <2>1 DEF Placed, OneCopy
  <2>2. CASE i = r /\ j # r
    BY <1>4, <1>5, <1>6, <2>2 DEF Placed, CopyOrRecord
  <2>3. CASE i # r /\ j = r
    BY <1>4, <1>5, <1>6, <2>3 DEF Placed, CopyOrRecord
  <2>4. CASE i = r /\ j = r
    BY <1>6, <2>4
  <2> QED
    BY <2>1, <2>2, <2>3, <2>4
<1>8. CopyOrRecord'
  <2> SUFFICES ASSUME NEW i \in Nbls, NEW k \in Nat, NEW n \in Nat, Copy(i, k)', ~Done(i, k)', Waits(n)'
               PROVE  ring'[n].pkt # nbl'[i].pkts[k]
    BY DEF CopyOrRecord
  <2>1. CASE i = r
    BY <1>1, <1>4, <1>6, <2>1 DEF Placed, OneRecord
  <2>2. CASE i # r
    BY <1>1, <1>4, <1>5, <2>2 DEF Placed, CopyOrRecord
  <2> QED
    BY <2>1, <2>2
<1>9. OneRecord'
  BY <1>1, <1>4 DEF Placed, OneRecord
<1>10. BehindCopy'
  <2> SUFFICES ASSUME NEW i \in Nbls, NEW j \in Nbls, NEW k \in Nat, NEW m \in Nat,
                      Copy(i, k)', Copy(j, m)', Done(i, k)', ~Done(j, m)',
                      nbl'[i].pkts[k] = nbl'[j].pkts[m]
               PROVE  /\ nbl'[i].leg <= nbl'[j].leg
                      /\ nbl'[i].leg = nbl'[j].leg => nbl'[j].st # "classify" /\ LetPast(j)'
    BY DEF BehindCopy
  <2>1. i # r
    BY <1>6
  <2>2. CASE j # r
    BY <1>5, <2>1, <2>2 DEF Placed, BehindCopy
  <2>3. CASE j = r
    <3>1. nbl'[i].leg <= rec.leg
      BY <1>4, <1>5, <1>6, <2>1, <2>3 DEF Placed, BehindRecord
    <3> QED
      BY <1>3, <2>3, <3>1 DEF LetPast
  <2> QED
    BY <2>2, <2>3
<1>11. BehindRecord'
  BY <1>1, <1>4, <1>5, <1>6 DEF Placed, BehindRecord
<1>12. OncePerLeg'
  BY <1>5, <1>6 DEF Placed, OncePerLeg
<1> QED
  BY <1>7, <1>8, <1>9, <1>10, <1>11, <1>12 DEF Placed

LEMMA SendCraftedSettles ==
  ASSUME FlowInv, Placed, NEW r \in Reqs, SendCrafted(r)
  PROVE  Placed'
<1>1. PICK l \in Lists : Begin(r, Crafted, l, 1)
  BY DEF SendCrafted
<1>2. client' = client /\ layer' = layer /\ ring' = ring
  BY <1>1 DEF SendCrafted, Begin, setupVars
<1>3. OnPath(l, 1)
  BY LegsTyped DEF OnPath
<1>4. Other(r) /\ r \in Nbls /\ nbl'[r].pkts = <<Crafted>>
  BY <1>1, <1>3, BeginFacts
<1>5. \A k \in Nat : ~Copy(r, k)'
  BY <1>4, TrafficAssumption DEF Copy
<1>6. ASSUME NEW j \in Nbls, j # r
      PROVE  /\ nbl'[j] = nbl[j] /\ LetPast(j)' = LetPast(j)
             /\ \A k \in Nat : (Copy(j, k)' <=> Copy(j, k)) /\ (Done(j, k)' <=> Done(j, k))
  <2>1. nbl'[j] = nbl[j]
    BY <1>4, <1>6 DEF Other
  <2> QED
    BY <1>2, <2>1 DEF Copy, Done, LetPast, IsSelfInjected, Handle, Direction, Legs, NetworkHandle,
                      ForwardHandle, TransportHandle
<1>7. \A n \in Nat : Waits(n)' <=> Waits(n)
  BY <1>2 DEF Waits
<1>8. OneCopy'
  BY <1>5, <1>6 DEF Placed, OneCopy
<1>9. CopyOrRecord'
  BY <1>2, <1>5, <1>6, <1>7 DEF Placed, CopyOrRecord
<1>10. OneRecord'
  BY <1>2, <1>7 DEF Placed, OneRecord
<1>11. BehindCopy'
  BY <1>5, <1>6 DEF Placed, BehindCopy
<1>12. BehindRecord'
  BY <1>2, <1>5, <1>6, <1>7 DEF Placed, BehindRecord
<1>13. OncePerLeg'
  BY <1>5, <1>6 DEF Placed, OncePerLeg
<1> QED
  BY <1>8, <1>9, <1>10, <1>11, <1>12, <1>13 DEF Placed

LEMMA DropSettles ==
  ASSUME FlowInv, Placed, Drop
  PROVE  Placed'
<1>1. nbl' = nbl /\ layer' = layer /\ client' = "poll" /\ ring # <<>>
  BY DEF Drop, setupVars, FlowInv, RingTyped
<1>2. ring \in Seq([pkt : Packets \cup {Crafted}, src : Lists, leg : Nat])
  BY DEF FlowInv, RingTyped
<1>3. Len(ring) \in Nat \ {0}
  BY <1>1, <1>2
<1>4. \A n \in Nat : Waits(n)' => (n + 1) \in Nat /\ Waits(n + 1) /\ ring'[n] = ring[n + 1]
  BY <1>3, RingTail DEF Waits
<1>5. \A j \in Nbls : LetPast(j)' <=> LetPast(j)
  BY <1>1 DEF LetPast, IsSelfInjected, Handle, Direction, Legs, NetworkHandle, ForwardHandle,
              TransportHandle
<1>6. OneCopy'
  BY <1>1 DEF Placed, OneCopy, Copy, Done
<1>7. CopyOrRecord'
  BY <1>1, <1>4 DEF Placed, CopyOrRecord, Copy, Done
<1>8. OneRecord'
  BY <1>4 DEF Placed, OneRecord
<1>9. BehindCopy'
  BY <1>1, <1>5 DEF Placed, BehindCopy, Copy, Done
<1>10. BehindRecord'
  BY <1>1, <1>4 DEF Placed, BehindRecord, Copy, Done
<1>11. OncePerLeg'
  BY <1>1 DEF Placed, OncePerLeg, Copy, Done
<1> QED
  BY <1>6, <1>7, <1>8, <1>9, <1>10, <1>11 DEF Placed

(* No packet is in two lists. *)
LEMMA Distinct ==
  ASSUME Contents, NEW l \in Lists, NEW q \in Lists, NEW k \in 1..Len(nbl[l].pkts), NEW m \in 1..Len(nbl[q].pkts),
         nbl[l].pkts[k] = nbl[q].pkts[m]
  PROVE  l = q /\ k = m
<1>1. nbl[l].pkts = Seen(l) /\ nbl[q].pkts = Seen(q)
  BY DEF Contents
<1>2. /\ Content[l] \in Seq(Packets) /\ Content[q] \in Seq(Packets)
      /\ Content[l] # <<>> /\ Content[q] # <<>>
  BY TrafficAssumption
<1>3. CASE layer \in PacketLayers
  <2>1. nbl[l].pkts = Content[l] /\ nbl[q].pkts = Content[q]
    BY <1>1, <1>3 DEF Seen
  <2> QED
    BY <2>1, TrafficAssumption
<1>4. CASE layer \notin PacketLayers
  <2>1. nbl[l].pkts = <<Content[l][1]>> /\ nbl[q].pkts = <<Content[q][1]>>
    BY <1>1, <1>4 DEF Seen
  <2>2. k = 1 /\ m = 1 /\ Content[l][1] = Content[q][1]
    BY <2>1
  <2>3. 1 \in 1..Len(Content[l]) /\ 1 \in 1..Len(Content[q])
    BY <1>2
  <2> QED
    BY <2>2, <2>3, TrafficAssumption
<1> QED
  BY <1>3, <1>4

LEMMA InitPlace == Init => PlaceInv
<1> SUFFICES ASSUME Init PROVE PlaceInv
  OBVIOUS
<1>1. FlowInv /\ Contents /\ ~readOnly /\ ring = <<>>
  BY InitFlow DEF Init
<1>2. \A r \in Reqs : nbl[r].pkts = <<>>
  BY Apart DEF Init, Nbls, Unsent
<1>3. \A r \in Reqs : \A k \in Nat : ~Copy(r, k)
  BY <1>2 DEF Copy
<1>4. \A i \in Nbls : nbl[i].st \in {"wire", "none"}
  BY DEF Init, Nbls, Unsent
<1>5. \A i \in Nbls : \A k \in Nat : ~Done(i, k)
  BY <1>4 DEF Done
<1>6. \A n \in Nat : ~Waits(n)
  BY <1>1 DEF Waits
<1>7. OneCopy
  <2> SUFFICES ASSUME NEW i \in Nbls, NEW j \in Nbls, NEW k \in Nat, NEW m \in Nat,
                      Copy(i, k), Copy(j, m), nbl[i].pkts[k] = nbl[j].pkts[m]
               PROVE  i = j /\ k = m
    BY DEF OneCopy
  <2>1. i \in Lists /\ j \in Lists
    BY <1>3 DEF Nbls
  <2>2. k \in 1..Len(nbl[i].pkts) /\ m \in 1..Len(nbl[j].pkts)
    BY DEF Copy
  <2> QED
    BY <1>1, <2>1, <2>2, Distinct
<1>8. Placed
  BY <1>5, <1>6, <1>7 DEF Placed, CopyOrRecord, OneRecord, BehindCopy, BehindRecord, OncePerLeg
<1> QED
  BY <1>1, <1>3, <1>8 DEF PlaceInv

(* Only the client gives a request its packet. *)
LEMMA PktsKept ==
  ASSUME FlowInv, Contents, [Next]_vars, \A r \in Reqs : ~SendPacket(r) /\ ~SendCrafted(r), NEW j \in Nbls
  PROVE  nbl'[j].pkts = nbl[j].pkts
<1>1. CASE nbl' = nbl
  BY <1>1
<1>2. ASSUME NEW p \in Programs, SetBpf(p) PROVE nbl'[j].pkts = nbl[j].pkts
  BY <1>2, SetBpfFacts
<1>3. ASSUME NEW i \in Nbls, StackStep(i) PROVE nbl'[j].pkts = nbl[j].pkts
  <2>1. CASE Passes(i)
    BY <2>1, OnwardFacts DEF Passes, Other
  <2>2. CASE Classify(i)
    BY <2>2, ClassifyFacts DEF Other
  <2>3. CASE Processes(i)
    BY <2>3, ProcessFacts DEF Processes, Other
  <2>4. CASE Blocks(i)
    BY <2>4, BlockFacts DEF Blocks, Other
  <2> QED
    BY <1>3, <2>1, <2>2, <2>3, <2>4, StackFacts
<1>4. ASSUME NEW r \in Reqs, SendStep(r) \/ Discard(r) \/ Completion(r) PROVE nbl'[j].pkts = nbl[j].pkts
  <2>1. CASE Inject(r)
    BY <2>1, InjectFacts DEF Other
  <2>2. CASE Discard(r)
    BY <2>2, DiscardFacts DEF Other
  <2>3. CASE ~Inject(r) /\ ~Discard(r)
    BY <1>1, <1>4, <2>3 DEF SendStep, Prepare, PrepareFails, CannotInject, StreamRefuses, InjectFails,
                            SendReturns, Completion
  <2> QED
    BY <2>1, <2>2, <2>3
<1> QED
  BY <1>1, <1>2, <1>3, <1>4 DEF Next, vars, InitWfp, Startup, Receive, Drop

LEMMA SetupKept ==
  ASSUME [Next]_vars
  PROVE  layer' = layer /\ (recvOnly' <=> recvOnly) /\ (readOnly' => readOnly \/ recvOnly)
<1>1. CASE InitWfp \/ Startup \/ Receive \/ Drop \/ \E p \in Programs : SetBpf(p)
  BY <1>1 DEF InitWfp, Startup, Receive, Drop, SetBpf, setupVars
<1>2. ASSUME NEW i \in Nbls, StackStep(i) PROVE UNCHANGED setupVars
  BY <1>2, StackFacts
<1>3. ASSUME NEW r \in Reqs, SendPacket(r) \/ SendCrafted(r) \/ SendStep(r) \/ Discard(r) \/ Completion(r)
      PROVE  UNCHANGED setupVars
  BY <1>3 DEF SendPacket, SendCrafted, Begin, SendStep, Prepare, PrepareFails, CannotInject, StreamRefuses,
              InjectFails, Inject, SendReturns, Discard, Completion
<1> QED
  BY <1>1, <1>2, <1>3 DEF Next, vars, setupVars

LEMMA PlacedStep ==
  ASSUME FlowInv, Contents, Replays, ~readOnly, Placed, [Next]_vars
  PROVE  Placed'
<1>1. ASSUME UNCHANGED <<layer, nbl, ring>>, client = "sent" => client' = "sent" PROVE Placed'
  BY <1>1, Stays, Settled
<1>2. CASE InitWfp \/ Startup \/ Receive \/ UNCHANGED vars
  BY <1>1, <1>2 DEF InitWfp, Startup, Receive, vars, setupVars
<1>3. ASSUME NEW i \in Nbls, StackStep(i) PROVE Placed'
  BY <1>3, StackSettles, ProcessSettles
<1>4. ASSUME NEW r \in Reqs, SendStep(r) \/ Completion(r) PROVE Placed'
  <2>1. CASE Inject(r)
    BY <2>1, InjectSettles
  <2>2. CASE ~Inject(r)
    BY <1>1, <1>4, <2>2 DEF SendStep, Prepare, PrepareFails, CannotInject, StreamRefuses, InjectFails,
                            SendReturns, Completion, setupVars
  <2> QED
    BY <2>1, <2>2
<1> QED
  BY <1>2, <1>3, <1>4, SetBpfSettles, DropSettles, SendPacketSettles, SendCraftedSettles, DiscardSettles
   DEF Next

LEMMA PlaceStep == PlaceInv /\ [Next]_vars => PlaceInv'
<1> SUFFICES ASSUME PlaceInv, [Next]_vars PROVE PlaceInv'
  OBVIOUS
<1>1. FlowInv /\ Contents /\ FlowInv' /\ Contents'
  BY FlowStep DEF PlaceInv
<1>2. /\ Replays' <=> Replays
      /\ Replays /\ readOnly' => readOnly
  BY SetupKept DEF Replays
<1>3. CASE Replays
  BY <1>1, <1>2, <1>3, PlacedStep DEF PlaceInv
<1>4. CASE ~Replays
  <2>1. \A r \in Reqs : \A k \in Nat : ~Copy(r, k)
    BY <1>4 DEF PlaceInv
  <2>2. \A r \in Reqs : ~SendPacket(r)
    BY <1>4 DEF SendPacket, Replays
  <2>3. ASSUME NEW q \in Reqs, SendCrafted(q) PROVE \A r \in Reqs : \A k \in Nat : ~Copy(r, k)'
    <3>1. PICK l \in Lists : Begin(q, Crafted, l, 1)
      BY <2>3 DEF SendCrafted
    <3>2. OnPath(l, 1)
      BY LegsTyped DEF OnPath
    <3>3. Other(q) /\ nbl'[q].pkts = <<Crafted>>
      BY <1>1, <3>1, <3>2, BeginFacts
    <3>4. \A k \in Nat : ~Copy(q, k)'
      BY <3>3, TrafficAssumption DEF Copy
    <3>5. ASSUME NEW r \in Reqs, r # q PROVE \A k \in Nat : ~Copy(r, k)'
      <4>1. nbl'[r] = nbl[r]
        BY <3>3, <3>5 DEF Other, Nbls
      <4> QED
        BY <2>1, <4>1 DEF Copy
    <3> QED
      BY <3>4, <3>5
  <2>4. ASSUME \A r \in Reqs : ~SendCrafted(r) PROVE \A r \in Reqs : \A k \in Nat : ~Copy(r, k)'
    <3>1. \A j \in Nbls : nbl'[j].pkts = nbl[j].pkts
      BY <1>1, <2>2, <2>4, PktsKept
    <3> QED
      BY <2>1, <3>1 DEF Copy
  <2>5. \A r \in Reqs : \A k \in Nat : ~Copy(r, k)'
    BY <2>3, <2>4
  <2> QED
    BY <1>1, <1>2, <1>4, <2>5 DEF PlaceInv
<1> QED
  BY <1>3, <1>4

(* A packet that no request carries is in one list only. *)
LEMMA InOneList ==
  ASSUME PlaceInv, ~Replays, NEW i \in Nbls, NEW j \in Nbls, NEW k \in Nat, NEW m \in Nat,
         Copy(i, k), Copy(j, m), nbl[i].pkts[k] = nbl[j].pkts[m]
  PROVE  i = j
<1>1. i \in Lists /\ j \in Lists
  BY DEF PlaceInv, Nbls
<1>2. k \in 1..Len(nbl[i].pkts) /\ m \in 1..Len(nbl[j].pkts)
  BY DEF Copy
<1> QED
  BY <1>1, <1>2, Distinct DEF PlaceInv

LEMMA CarriedCopy ==
  ASSUME FlowInv, NEW i \in Nbls, NEW p \in Packets, Carries(i, p)
  PROVE  \E k \in Nat : Copy(i, k) /\ nbl[i].pkts[k] = p
<1>1. PICK k \in 1..Len(nbl[i].pkts) : nbl[i].pkts[k] = p
  BY DEF Carries
<1>2. Len(nbl[i].pkts) \in Nat
  BY DEF FlowInv, NblsTyped, NblRecords
<1>3. k \in Nat
  BY <1>1, <1>2
<1> QED
  BY <1>1, <1>3 DEF Copy

(* callout_network.rs:83-112, 578.  For any traffic, however its packets    *)
(* are put into lists and whatever their paths, and any number of sends, a  *)
(* packet is intercepted at most once on a leg: what the client sends back  *)
(* is recognised.                                                           *)
THEOREM SentBackIsRecognised == Spec => []InterceptedOnce
<1>1. PlaceInv => InterceptedOnce
  <2> SUFFICES ASSUME PlaceInv, NEW i \in Nbls, NEW j \in Nbls, NEW p \in Packets,
                      nbl[i].st = "blocked", Carries(i, p), nbl[j].st = "blocked", Carries(j, p),
                      nbl[i].leg = nbl[j].leg
               PROVE  i = j
    BY DEF InterceptedOnce
  <2>1. PICK k \in Nat : Copy(i, k) /\ nbl[i].pkts[k] = p
    BY CarriedCopy DEF PlaceInv
  <2>2. PICK m \in Nat : Copy(j, m) /\ nbl[j].pkts[m] = p
    BY CarriedCopy DEF PlaceInv
  <2>3. Done(i, k) /\ Done(j, m)
    BY DEF Done
  <2>4. CASE Replays
    BY <2>1, <2>2, <2>3, <2>4 DEF PlaceInv, Placed, OncePerLeg
  <2>5. CASE ~Replays
    BY <2>1, <2>2, <2>5, InOneList
  <2> QED
    BY <2>4, <2>5
<1> QED
  BY <1>1, InitPlace, PlaceStep, PTL DEF Spec

(* callout_network.rs:595-604.  Of a packet and what the client sends in    *)
(* its place, at most one reaches the destination.                          *)
THEOREM NeverBoth == Spec => []DeliveredOnce
<1>1. PlaceInv => DeliveredOnce
  <2> SUFFICES ASSUME PlaceInv, NEW i \in Nbls, NEW j \in Nbls, NEW p \in Packets,
                      nbl[i].st = "delivered", Carries(i, p), nbl[j].st = "delivered", Carries(j, p)
               PROVE  i = j
    BY DEF DeliveredOnce
  <2>1. PICK k \in Nat : Copy(i, k) /\ nbl[i].pkts[k] = p
    BY CarriedCopy DEF PlaceInv
  <2>2. PICK m \in Nat : Copy(j, m) /\ nbl[j].pkts[m] = p
    BY CarriedCopy DEF PlaceInv
  <2>3. ~Done(i, k) /\ ~Done(j, m)
    BY DEF Done
  <2>4. CASE Replays
    BY <2>1, <2>2, <2>3, <2>4 DEF PlaceInv, Placed, OneCopy
  <2>5. CASE ~Replays
    BY <2>1, <2>2, <2>5, InOneList
  <2> QED
    BY <2>4, <2>5
<1> QED
  BY <1>1, InitPlace, PlaceStep, PTL DEF Spec
=============================================================================
