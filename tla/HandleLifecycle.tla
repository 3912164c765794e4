--------------------------- MODULE HandleLifecycle ---------------------------
(***************************************************************************)
(* The life of a driver handle: created, given its module by               *)
(* IOCTL_INITIALIZE, started by IOCTL_STARTUP, closed while receive        *)
(* requests are parked and callouts or pre-operations are running in the   *)
(* module, and destroyed (src/src/file.rs, ioctl_handler.rs,               *)
(* network/wfp_init.rs, network/module.rs, file_monitor/file_module.rs).   *)
(*                                                                         *)
(* The control requests of a handle come one after the other, as the       *)
(* library sends them; its receive requests run beside them, dispatched in *)
(* parallel, and so do the kernel's calls into callouts and pre-operations.*)
(* What the records carry, the reservation protocol and the verdicts are   *)
(* in RingBufferData, RecvNotify, PacketPath and FileTx.                   *)
(*                                                                         *)
(* External: the engine and the filter manager stop calling and wait for   *)
(* the calls in progress before they return from a tear-down; the          *)
(* framework cancels what is parked after file_cleanup and destroys the    *)
(* file object when none of its requests is outstanding.                   *)
(***************************************************************************)
EXTENDS Naturals, FiniteSets

CONSTANTS
    Handles,        \* file objects of the device
    Reqs,           \* IOCTL_RECV requests
    Calls,          \* threads inside a callout or a pre-operation
    NoHandle,       \* the null pointer
    EngineWaits,    \* FwpmEngineClose0 returns after the calls in progress
    SingleMonitor   \* at most one handle of the file layer at a time

ASSUME LifecycleAssumption ==
    /\ NoHandle \notin Handles
    /\ EngineWaits \in BOOLEAN
    /\ SingleMonitor \in BOOLEAN

VARIABLES
    pc,         \* where a handle's control requests, then its clean-up, are
    layer,      \* ctx.layer
    module,     \* ctx.module: none, held, taken by clean-up, freed
    engine,     \* the session of fwpm_engine_handle; "none" is a null handle
    closes,     \* calls of FwpmEngineClose0 for the session
    beganNot,   \* FwpmTransactionBegin0 has failed for the session
    live,       \* the session's filters are committed
    flt,        \* the registration behind filter_handle; "none" is null
    active,     \* ACTIVE_FILE_MODULE
    notify,     \* the ring's notify callback is set, with this context
    watching,   \* the ring's is_watching
    parked,     \* requests in ctx.recv_queue
    rpc,        \* where the thread of a receive request is
    rh,         \* the handle it was sent to
    answers,    \* how often a request was completed
    refused,    \* handle_recv returned an error after forwarding it
    cpc,        \* where a call is
    ch,         \* the handle whose filter made the call
    cm          \* the module the call works on

handleVars == <<pc, layer, module, engine, closes, beganNot, live, flt>>
ringVars == <<notify, watching>>
reqVars == <<rpc, rh, refused>>
queueVars == <<parked, answers>>
callVars == <<cpc, ch, cm>>
vars == <<pc, layer, module, engine, closes, beganNot, live, flt, active,
          notify, watching, parked, rpc, rh, answers, refused, cpc, ch, cm>>

Layers == {"none", "packet", "file"}
Modules == {"none", "held", "taken", "freed"}

\* The steps of IOCTL_STARTUP, and those of file_cleanup and after.
Starting == {"begin", "add", "commit", "publish", "register", "start"}
Closing == {"teardown", "drain", "quiet", "free", "flush", "closed"}
Phases == {"none", "made", "ready", "running", "failed", "gone"}
              \cup Starting \cup Closing

TypeOK ==
    /\ pc \in [Handles -> Phases]
    /\ layer \in [Handles -> Layers]
    /\ module \in [Handles -> Modules]
    /\ engine \in [Handles -> {"none", "open", "closed"}]
    /\ closes \in [Handles -> 0..2]
    /\ beganNot \in [Handles -> BOOLEAN]
    /\ live \in [Handles -> BOOLEAN]
    /\ flt \in [Handles -> {"none", "registered", "started", "draining"}]
    /\ active \in Handles \cup {NoHandle}
    /\ notify \in [Handles -> BOOLEAN]
    /\ watching \in [Handles -> BOOLEAN]
    /\ parked \in [Handles -> SUBSET Reqs]
    /\ rpc \in [Reqs -> {"idle", "forward", "look", "arm", "done"}]
    /\ rh \in [Reqs -> Handles \cup {NoHandle}]
    /\ answers \in [Reqs -> 0..2]
    /\ refused \in [Reqs -> BOOLEAN]
    /\ cpc \in [Calls -> {"idle", "look", "copy", "notify", "wait", "verdict"}]
    /\ ch \in [Calls -> Handles \cup {NoHandle}]
    /\ cm \in [Calls -> Handles \cup {NoHandle}]

Init ==
    /\ pc = [h \in Handles |-> "none"]
    /\ layer = [h \in Handles |-> "none"]
    /\ module = [h \in Handles |-> "none"]
    /\ engine = [h \in Handles |-> "none"]
    /\ closes = [h \in Handles |-> 0]
    /\ beganNot = [h \in Handles |-> FALSE]
    /\ live = [h \in Handles |-> FALSE]
    /\ flt = [h \in Handles |-> "none"]
    /\ active = NoHandle
    /\ notify = [h \in Handles |-> FALSE]
    /\ watching = [h \in Handles |-> FALSE]
    /\ parked = [h \in Handles |-> {}]
    /\ rpc = [q \in Reqs |-> "idle"]
    /\ rh = [q \in Reqs |-> NoHandle]
    /\ answers = [q \in Reqs |-> 0]
    /\ refused = [q \in Reqs |-> FALSE]
    /\ cpc = [c \in Calls |-> "idle"]
    /\ ch = [c \in Calls |-> NoHandle]
    /\ cm = [c \in Calls |-> NoHandle]

Goto(h, phase) == pc' = [pc EXCEPT ![h] = phase]

\* The calls the filters of a handle have made and that have not returned.
CallsOf(h) == {c \in Calls : cpc[c] # "idle" /\ ch[c] = h}

-----------------------------------------------------------------------------
(* IRP_MJ_CREATE and IOCTL_INITIALIZE.                                     *)

Create(h) ==
    /\ pc[h] = "none"
    /\ Goto(h, "made")
    /\ UNCHANGED <<layer, module, engine, closes, beganNot, live, flt, active,
                   ringVars, reqVars, queueVars, callVars>>

MayMonitor(h) ==
    SingleMonitor =>
        \A g \in Handles \ {h} : layer[g] = "file" => pc[g] \in {"closed", "gone"}

\* The layer is stored first; when the rings cannot be allocated there is no
\* module and open_handle gives the handle up.
Initialize(h, l) ==
    /\ pc[h] = "made"
    /\ l = "file" => MayMonitor(h)
    /\ layer' = [layer EXCEPT ![h] = l]
    /\ \/ module' = [module EXCEPT ![h] = "held"] /\ Goto(h, "ready")
       \/ UNCHANGED module /\ Goto(h, "failed")
    /\ UNCHANGED <<engine, closes, beganNot, live, flt, active,
                   ringVars, reqVars, queueVars, callVars>>

-----------------------------------------------------------------------------
(* IOCTL_STARTUP of a packet layer: init_wfp.                              *)

\* The handle is stored in the module as soon as the engine is open.
OpenEngine(h) ==
    /\ pc[h] = "ready" /\ layer[h] = "packet"
    /\ \/ engine' = [engine EXCEPT ![h] = "open"] /\ Goto(h, "begin")
       \/ UNCHANGED engine /\ Goto(h, "failed")
    /\ UNCHANGED <<layer, module, closes, beganNot, live, flt, active,
                   ringVars, reqVars, queueVars, callVars>>

\* The one failure that closes the session, and it leaves the handle behind.
BeginTransaction(h) ==
    /\ pc[h] = "begin"
    /\ \/ Goto(h, "add") /\ UNCHANGED <<engine, closes, beganNot>>
       \/ /\ engine' = [engine EXCEPT ![h] = "closed"]
          /\ closes' = [closes EXCEPT ![h] = @ + 1]
          /\ beganNot' = [beganNot EXCEPT ![h] = TRUE]
          /\ Goto(h, "failed")
    /\ UNCHANGED <<layer, module, live, flt, active,
                   ringVars, reqVars, queueVars, callVars>>

\* Variant: the aborted transaction's session is closed at once as well.
AddObjectsCloses(h) ==
    /\ pc[h] = "add"
    /\ \/ Goto(h, "commit") /\ UNCHANGED closes
       \/ Goto(h, "failed") /\ closes' = [closes EXCEPT ![h] = @ + 1]
    /\ UNCHANGED <<layer, module, engine, beganNot, live, flt, active,
                   ringVars, reqVars, queueVars, callVars>>

\* Provider, sublayer, callouts and filters; a failure aborts the transaction
\* and leaves the session to the clean-up.
AddObjects(h) ==
    /\ pc[h] = "add"
    /\ Goto(h, "commit") \/ Goto(h, "failed")
    /\ UNCHANGED <<layer, module, engine, closes, beganNot, live, flt, active,
                   ringVars, reqVars, queueVars, callVars>>

Commit(h) ==
    /\ pc[h] = "commit"
    /\ \/ live' = [live EXCEPT ![h] = TRUE] /\ Goto(h, "running")
       \/ UNCHANGED live /\ Goto(h, "failed")
    /\ UNCHANGED <<layer, module, engine, closes, beganNot, flt, active,
                   ringVars, reqVars, queueVars, callVars>>

-----------------------------------------------------------------------------
(* IOCTL_STARTUP of the file layer: FileModule::startup.                   *)

ProvisionKeys(h) ==
    /\ pc[h] = "ready" /\ layer[h] = "file"
    /\ Goto(h, "publish") \/ Goto(h, "failed")
    /\ UNCHANGED <<layer, module, engine, closes, beganNot, live, flt, active,
                   ringVars, reqVars, queueVars, callVars>>

Publish(h) ==
    /\ pc[h] = "publish"
    /\ active' = h
    /\ Goto(h, "register")
    /\ UNCHANGED <<layer, module, engine, closes, beganNot, live, flt,
                   ringVars, reqVars, queueVars, callVars>>

RegisterFilter(h) ==
    /\ pc[h] = "register"
    /\ \/ /\ flt' = [flt EXCEPT ![h] = "registered"]
          /\ Goto(h, "start")
          /\ UNCHANGED active
       \/ active' = NoHandle /\ Goto(h, "failed") /\ UNCHANGED flt
    /\ UNCHANGED <<layer, module, engine, closes, beganNot, live,
                   ringVars, reqVars, queueVars, callVars>>

\* When filtering cannot start nobody has been called yet: the registration
\* goes at once, and with it both pointers.
StartFiltering(h) ==
    /\ pc[h] = "start"
    /\ \/ /\ flt' = [flt EXCEPT ![h] = "started"]
          /\ Goto(h, "running")
          /\ UNCHANGED active
       \/ /\ flt' = [flt EXCEPT ![h] = "none"]
          /\ active' = NoHandle
          /\ Goto(h, "failed")
    /\ UNCHANGED <<layer, module, engine, closes, beganNot, live,
                   ringVars, reqVars, queueVars, callVars>>

-----------------------------------------------------------------------------
(* IRP_MJ_CLEANUP: file_cleanup, at any moment between two control         *)
(* requests, whatever receive requests and calls are doing.                *)

\* Variant: the module is dropped as it is taken, before the tear-down.
TakeModuleFrees(h) ==
    /\ pc[h] \in {"made", "ready", "running", "failed"}
    /\ IF module[h] = "held"
         THEN module' = [module EXCEPT ![h] = "freed"] /\ Goto(h, "teardown")
         ELSE UNCHANGED module /\ Goto(h, "flush")
    /\ UNCHANGED <<layer, engine, closes, beganNot, live, flt, active,
                   ringVars, reqVars, queueVars, callVars>>

\* ctx.module.take(): from here on the context has no module.
TakeModule(h) ==
    /\ pc[h] \in {"made", "ready", "running", "failed"}
    /\ IF module[h] = "held"
         THEN module' = [module EXCEPT ![h] = "taken"] /\ Goto(h, "teardown")
         ELSE UNCHANGED module /\ Goto(h, "flush")
    /\ UNCHANGED <<layer, engine, closes, beganNot, live, flt, active,
                   ringVars, reqVars, queueVars, callVars>>

\* Variant: init_wfp stores the engine handle only when everything succeeded.
CloseEngineIfLive(h) ==
    /\ pc[h] = "teardown" /\ layer[h] = "packet"
    /\ IF live[h]
         THEN /\ engine' = [engine EXCEPT ![h] = "closed"]
              /\ closes' = [closes EXCEPT ![h] = @ + 1]
              /\ live' = [live EXCEPT ![h] = FALSE]
              /\ Goto(h, "drain")
         ELSE Goto(h, "quiet") /\ UNCHANGED <<engine, closes, live>>
    /\ UNCHANGED <<layer, module, beganNot, flt, active,
                   ringVars, reqVars, queueVars, callVars>>

\* uninit_wfp: the context has no module any more, so no filter is deleted by
\* its id; closing the dynamic session removes them all.
CloseEngine(h) ==
    /\ pc[h] = "teardown" /\ layer[h] = "packet"
    /\ IF engine[h] # "none"
         THEN /\ engine' = [engine EXCEPT ![h] = "closed"]
              /\ closes' = [closes EXCEPT ![h] = @ + 1]
              /\ live' = [live EXCEPT ![h] = FALSE]
              /\ Goto(h, "drain")
         ELSE Goto(h, "quiet") /\ UNCHANGED <<engine, closes, live>>
    /\ UNCHANGED <<layer, module, beganNot, flt, active,
                   ringVars, reqVars, queueVars, callVars>>

EngineClosed(h) ==
    /\ pc[h] = "drain" /\ layer[h] = "packet"
    /\ EngineWaits => CallsOf(h) = {}
    /\ Goto(h, "quiet")
    /\ UNCHANGED <<layer, module, engine, closes, beganNot, live, flt, active,
                   ringVars, reqVars, queueVars, callVars>>

\* Variant: the global pointer is cleared before the registration.
UnpublishFirst(h) ==
    /\ pc[h] = "teardown" /\ layer[h] = "file"
    /\ flt' = [flt EXCEPT ![h] = IF @ = "none" THEN @ ELSE "draining"]
    /\ active' = NoHandle
    /\ Goto(h, "drain")
    /\ UNCHANGED <<layer, module, engine, closes, beganNot, live,
                   ringVars, reqVars, queueVars, callVars>>

\* FltUnregisterFilter stops new calls and waits for those in progress.
UnregisterFilter(h) ==
    /\ pc[h] = "teardown" /\ layer[h] = "file"
    /\ flt' = [flt EXCEPT ![h] = IF @ = "none" THEN @ ELSE "draining"]
    /\ Goto(h, "drain")
    /\ UNCHANGED <<layer, module, engine, closes, beganNot, live, active,
                   ringVars, reqVars, queueVars, callVars>>

\* FltUnregisterFilter has returned; then the global pointer is cleared,
\* whoever it points to.
Unpublish(h) ==
    /\ pc[h] = "drain" /\ layer[h] = "file"
    /\ flt[h] = "draining" => CallsOf(h) = {}
    /\ flt' = [flt EXCEPT ![h] = "none"]
    /\ active' = NoHandle
    /\ Goto(h, "quiet")
    /\ UNCHANGED <<layer, module, engine, closes, beganNot, live,
                   ringVars, reqVars, queueVars, callVars>>

ClearCallback(h) ==
    /\ pc[h] = "quiet"
    /\ notify' = [notify EXCEPT ![h] = FALSE]
    /\ watching' = [watching EXCEPT ![h] = FALSE]
    /\ Goto(h, "free")
    /\ UNCHANGED <<layer, module, engine, closes, beganNot, live, flt, active,
                   reqVars, queueVars, callVars>>

\* The boxed module goes out of scope, and with it the ring.
FreeModule(h) ==
    /\ pc[h] = "free"
    /\ module' = [module EXCEPT ![h] = "freed"]
    /\ Goto(h, "flush")
    /\ UNCHANGED <<layer, engine, closes, beganNot, live, flt, active,
                   ringVars, reqVars, queueVars, callVars>>

\* Variant: the requests are completed and left in the queue.
CompletePeeked(h) ==
    /\ parked' = parked
    /\ answers' = [q \in Reqs |->
                     IF q \in parked[h] THEN answers[q] + 1 ELSE answers[q]]

\* packet_arrived_callback, the double check and the framework's cancelling
\* all take what is in the queue and complete it.
CompleteParked(h) ==
    /\ parked' = [parked EXCEPT ![h] = {}]
    /\ answers' = [q \in Reqs |->
                     IF q \in parked[h] THEN answers[q] + 1 ELSE answers[q]]

\* The framework, after file_cleanup has returned.
FlushQueue(h) ==
    /\ pc[h] = "flush"
    /\ CompleteParked(h)
    /\ Goto(h, "closed")
    /\ UNCHANGED <<layer, module, engine, closes, beganNot, live, flt, active,
                   ringVars, reqVars, callVars>>

\* A request the I/O manager still counts against the file object.
Outstanding(q, h) ==
    rh[q] = h /\ (rpc[q] \in {"forward", "look", "arm"} \/ answers[q] = 0)

\* file_close and file_destroy; the context is freed.
Destroy(h) ==
    /\ pc[h] = "closed"
    /\ \A q \in Reqs : ~Outstanding(q, h)
    /\ Goto(h, "gone")
    /\ UNCHANGED <<layer, module, engine, closes, beganNot, live, flt, active,
                   ringVars, reqVars, queueVars, callVars>>

-----------------------------------------------------------------------------
(* IOCTL_RECV.                                                             *)

Recv(q, h) ==
    /\ rpc[q] = "idle" /\ pc[h] = "running"
    /\ rpc' = [rpc EXCEPT ![q] = "forward"]
    /\ rh' = [rh EXCEPT ![q] = h]
    /\ UNCHANGED <<handleVars, active, ringVars, queueVars, callVars, refused>>

Answer(q) == answers' = [answers EXCEPT ![q] = @ + 1]

\* handle_recv puts the request into the queue before it looks at the module.
Forward(q) ==
    /\ rpc[q] = "forward"
    /\ \/ /\ parked' = [parked EXCEPT ![rh[q]] = @ \cup {q}]
          /\ rpc' = [rpc EXCEPT ![q] = "look"]
          /\ UNCHANGED answers
       \/ Answer(q) /\ rpc' = [rpc EXCEPT ![q] = "done"] /\ UNCHANGED parked
    /\ UNCHANGED <<handleVars, active, ringVars, callVars, rh, refused>>

\* An error after the request was forwarded: handle_recv_request completes a
\* request that is in the queue, or that somebody has completed from there.
Refuse(q) ==
    /\ Answer(q)
    /\ refused' = [refused EXCEPT ![q] = TRUE]
    /\ rpc' = [rpc EXCEPT ![q] = "done"]
    /\ UNCHANGED parked

\* Variant: a request that finds no module is left to the queue.
LookAndLeave(q) ==
    /\ rpc[q] = "look"
    /\ rpc' = [rpc EXCEPT ![q] = IF module[rh[q]] = "held" THEN "arm" ELSE "done"]
    /\ UNCHANGED <<handleVars, active, ringVars, queueVars, callVars, rh, refused>>

LookForModule(q) ==
    /\ rpc[q] = "look"
    /\ IF module[rh[q]] = "held"
         THEN /\ rpc' = [rpc EXCEPT ![q] = "arm"]
              /\ UNCHANGED <<queueVars, refused>>
         ELSE Refuse(q)
    /\ UNCHANGED <<handleVars, active, ringVars, callVars, rh>>

\* arm_recv on the module found before. The packet layers look at the ring
\* again; what they find is either.
Arm(q) ==
    LET h == rh[q] IN
    /\ rpc[q] = "arm" /\ module[h] # "freed"
    /\ notify' = [notify EXCEPT ![h] = TRUE]
    /\ rpc' = [rpc EXCEPT ![q] = "done"]
    /\ \/ watching' = [watching EXCEPT ![h] = TRUE] /\ UNCHANGED queueVars
       \/ /\ layer[h] = "packet"
          /\ watching' = [watching EXCEPT ![h] = FALSE]
          /\ CompleteParked(h)
    /\ UNCHANGED <<handleVars, active, callVars, rh, refused>>

\* Clean-up has freed the module under the handler: what it reads there is
\* undefined, so it may take the ring for missing or write into freed memory.
ArmFreed(q) ==
    /\ rpc[q] = "arm" /\ module[rh[q]] = "freed"
    /\ \/ rpc' = [rpc EXCEPT ![q] = "done"] /\ UNCHANGED <<queueVars, refused>>
       \/ Refuse(q)
    /\ UNCHANGED <<handleVars, active, ringVars, callVars, rh>>

-----------------------------------------------------------------------------
(* The kernel's calls: classify callouts and the pre-operation callback.   *)

CallStep(c, step) == cpc' = [cpc EXCEPT ![c] = step]

Return(c) ==
    /\ CallStep(c, "idle")
    /\ ch' = [ch EXCEPT ![c] = NoHandle]
    /\ cm' = [cm EXCEPT ![c] = NoHandle]

Enter(c, h) ==
    /\ cpc[c] = "idle"
    /\ live[h] \/ flt[h] = "started"
    /\ CallStep(c, "look")
    /\ ch' = [ch EXCEPT ![c] = h]
    /\ UNCHANGED <<handleVars, active, ringVars, reqVars, queueVars, cm>>

Found(c) ==
    CASE layer[ch[c]] = "packet" ->
           IF module[ch[c]] = "held" THEN ch[c] ELSE NoHandle
      [] OTHER -> active

\* A callout asks its context for the module, a pre-operation reads the global
\* pointer; both go back when there is none or the call does not concern them.
LookUp(c) ==
    /\ cpc[c] = "look"
    /\ \/ Return(c)
       \/ /\ Found(c) # NoHandle
          /\ cm' = [cm EXCEPT ![c] = Found(c)]
          /\ CallStep(c, "copy")
          /\ UNCHANGED ch
    /\ UNCHANGED <<handleVars, active, ringVars, reqVars, queueVars>>

AfterRing(c) == IF layer[ch[c]] = "packet" THEN "verdict" ELSE "wait"

\* A record is committed; if the client watches, the callback and its context
\* are copied under the lock. A callout asks its context for the module once
\* more before it writes, and writes nothing when clean-up has taken it.
CommitRecord(c) ==
    LET m == cm[c] IN
    /\ cpc[c] = "copy"
    /\ layer[ch[c]] = "packet" => module[m] = "held"
    /\ watching' = [watching EXCEPT ![m] = FALSE]
    /\ CallStep(c, IF watching[m] /\ notify[m] THEN "notify" ELSE AfterRing(c))
    /\ UNCHANGED <<handleVars, active, notify, reqVars, queueVars, ch, cm>>

\* No record: the ring is full, the filter lets the packet pass, or the module
\* is gone. A callout goes on to its verdict, a pre-operation returns.
CommitNothing(c) ==
    /\ cpc[c] = "copy"
    /\ IF layer[ch[c]] = "packet"
         THEN CallStep(c, "verdict") /\ UNCHANGED <<ch, cm>>
         ELSE Return(c)
    /\ UNCHANGED <<handleVars, active, ringVars, reqVars, queueVars>>

\* packet_arrived_callback with the copied context.
Notify(c) ==
    /\ cpc[c] = "notify"
    /\ CompleteParked(cm[c])
    /\ CallStep(c, AfterRing(c))
    /\ UNCHANGED <<handleVars, active, ringVars, reqVars, ch, cm>>

\* The decision has come or timeout_ms is over.
EndWait(c) ==
    /\ cpc[c] = "wait"
    /\ CallStep(c, "verdict")
    /\ UNCHANGED <<handleVars, active, ringVars, reqVars, queueVars, ch, cm>>

\* The module found at the start is read once more: packet_read_only, or the
\* record in the ring and the default action.
Verdict(c) ==
    /\ cpc[c] = "verdict"
    /\ Return(c)
    /\ UNCHANGED <<handleVars, active, ringVars, reqVars, queueVars>>

-----------------------------------------------------------------------------
Startup(h) ==
    \/ OpenEngine(h) \/ BeginTransaction(h) \/ AddObjects(h) \/ Commit(h)
    \/ ProvisionKeys(h) \/ Publish(h) \/ RegisterFilter(h) \/ StartFiltering(h)

CleanUp(h) ==
    \/ CloseEngine(h) \/ EngineClosed(h) \/ UnregisterFilter(h) \/ Unpublish(h)
    \/ ClearCallback(h) \/ FreeModule(h) \/ FlushQueue(h) \/ Destroy(h)

HandleRecv(q) == Forward(q) \/ LookForModule(q) \/ Arm(q) \/ ArmFreed(q)

Call(c) ==
    \/ LookUp(c) \/ CommitRecord(c) \/ CommitNothing(c)
    \/ Notify(c) \/ EndWait(c) \/ Verdict(c)

\* Every handle has been closed and destroyed.
Finished == (\A h \in Handles : pc[h] = "gone") /\ UNCHANGED vars

Next ==
    \/ \E h \in Handles :
          \/ Create(h)
          \/ \E l \in {"packet", "file"} : Initialize(h, l)
          \/ Startup(h)
          \/ TakeModule(h)
          \/ CleanUp(h)
    \/ \E q \in Reqs : HandleRecv(q) \/ \E h \in Handles : Recv(q, h)
    \/ \E c \in Calls : Call(c) \/ \E h \in Handles : Enter(c, h)
    \/ Finished

\* Running kernel code goes on; nobody has to open, send, call or close. A wait
\* of a pre-operation ends because it has a time-out.
Fairness ==
    /\ \A h \in Handles : WF_vars(CleanUp(h))
    /\ \A q \in Reqs : WF_vars(HandleRecv(q))
    /\ \A c \in Calls : WF_vars(Call(c))

Spec == Init /\ [][Next]_vars
FairSpec == Spec /\ Fairness

-----------------------------------------------------------------------------
\* No callout, pre-operation or notification works on a module that clean-up
\* has freed, or notifies through a context that is destroyed, although
\* clean-up takes the module away while they run (file.rs:136,
\* per_cpu_ring.rs:344, minifilter.rs:230).
CallsSeeLiveModule ==
    \A c \in Calls :
        cpc[c] \in {"copy", "notify", "wait", "verdict"} =>
            /\ module[cm[c]] \in {"held", "taken"}
            /\ pc[cm[c]] # "gone"

\* A receive request is completed once, by a notification, the double check,
\* the framework or the dispatch; the exception is a handle_recv that fails
\* after it has forwarded the request (ioctl_handler.rs:220-238).
AnsweredOnce == \A q \in Reqs : answers[q] <= 1 \/ refused[q]

\* Once the handle is closed nothing of it is left in the system, whichever
\* step of the start-up had failed: no open session, no committed filter, no
\* minifilter, no global pointer to a freed module.
NothingLeftBehind ==
    \A h \in Handles :
        pc[h] \in {"flush", "closed", "gone"} =>
            /\ module[h] \in {"none", "freed"}
            /\ engine[h] # "open" /\ ~live[h]
            /\ flt[h] = "none" /\ active # h

\* The session is closed once over all paths of init_wfp and uninit_wfp, save
\* that a failed FwpmTransactionBegin0 has closed it before (wfp_init.rs:63).
SessionClosedOnce ==
    \A h \in Handles : closes[h] <= IF beganNot[h] THEN 2 ELSE 1

\* A minifilter that is called finds the module of the handle that registered
\* it: the pointer is there before the first call and until after the last
\* (file_module.rs:337, 464).
FilterFindsItsModule ==
    \A h \in Handles :
        flt[h] = "started" \/ (flt[h] = "draining" /\ CallsOf(h) # {}) =>
            active = h /\ module[h] \in {"held", "taken"}

\* Closing a handle ends: the calls in its filters come back, every receive
\* request sent to it is completed, and the file object is destroyed
\* (file.rs:141-145).
CloseEnds == \A h \in Handles : pc[h] \in Closing ~> pc[h] = "gone"
=============================================================================
