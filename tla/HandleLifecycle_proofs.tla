------------------------ MODULE HandleLifecycle_proofs ------------------------
(***************************************************************************)
(* Theorems about HandleLifecycle, for any number of handles, receive      *)
(* requests and calls. The tear-downs wait for the calls in progress and   *)
(* there is one file monitor at a time.                                    *)
(***************************************************************************)
EXTENDS HandleLifecycle, TLAPS

(***************************************************************************)
(* The inductive invariant.                                                *)
(***************************************************************************)

Served == {"running", "teardown", "drain"}

\* What the phase of a handle says of its module, and where each resource may
\* be held.
ModuleByPhase ==
    \A h \in Handles :
        /\ pc[h] \in {"none", "made"} => module[h] = "none" /\ layer[h] = "none"
        /\ pc[h] \in {"ready", "running"} \cup Starting => module[h] = "held"
        /\ pc[h] = "failed" => module[h] \in {"none", "held"}
        /\ pc[h] \in {"teardown", "drain", "quiet", "free"} => module[h] = "taken"
        /\ pc[h] \in {"flush", "closed", "gone"} => module[h] \in {"none", "freed"}

SessionByPhase ==
    \A h \in Handles :
        /\ pc[h] \in {"none", "made", "ready"} => engine[h] = "none"
        /\ engine[h] = "open" =>
              /\ layer[h] = "packet"
              /\ pc[h] \in {"begin", "add", "commit", "running", "failed", "teardown"}
              /\ pc[h] = "failed" => module[h] = "held"
        /\ engine[h] = "closed" =>
              layer[h] = "packet" /\ pc[h] \in {"failed", "gone"} \cup Closing
        /\ engine[h] = "closed" /\ pc[h] = "failed" => module[h] = "held"
        /\ pc[h] \in {"begin", "add", "commit"} => engine[h] = "open"
        /\ live[h] => engine[h] = "open" /\ pc[h] \in {"running", "teardown"}
        /\ engine[h] # "closed" => closes[h] = 0 /\ ~beganNot[h]
        /\ engine[h] = "closed" /\ pc[h] \in {"failed", "teardown"} =>
              beganNot[h] /\ closes[h] = 1
        /\ closes[h] <= IF beganNot[h] THEN 2 ELSE 1

MonitorByPhase ==
    \A h \in Handles :
        /\ pc[h] \in {"publish", "register", "start"} => layer[h] = "file"
        /\ pc[h] \in {"register", "start"} => active = h
        /\ flt[h] # "none" =>
              /\ layer[h] = "file" /\ active = h
              /\ pc[h] \in {"start"} \cup Served
        /\ active = h =>
              /\ layer[h] = "file"
              /\ pc[h] \in {"register", "start"} \cup Served
        /\ flt[h] = "draining" => pc[h] = "drain"
        /\ flt[h] = "started" => pc[h] \in {"running", "teardown"}

\* Of two handles of the file layer one is closed.
Sole ==
    \A g, h \in Handles :
        g # h /\ layer[g] = "file" /\ layer[h] = "file" =>
            pc[g] \in {"closed", "gone"} \/ pc[h] \in {"closed", "gone"}

\* A handle's filters may have calls in progress.
Callable(h) ==
    /\ h \in Handles /\ pc[h] \in Served
    /\ \/ layer[h] = "packet" /\ engine[h] # "none"
       \/ layer[h] = "file" /\ flt[h] \in {"started", "draining"}

CallsInPlace ==
    \A c \in Calls :
        /\ cpc[c] # "idle" => Callable(ch[c])
        /\ cpc[c] \notin {"idle", "look"} => cm[c] = ch[c]

\* Where a request is says how often it can have been completed.
RequestsCounted ==
    \A q \in Reqs :
        /\ \A h \in Handles : q \in parked[h] => rh[q] = h
        /\ rpc[q] # "idle" => rh[q] \in Handles
        /\ rpc[q] \in {"idle", "forward"} =>
              answers[q] = 0 /\ \A h \in Handles : q \notin parked[h]
        /\ refused[q] => rpc[q] = "done"
        /\ answers[q] <= IF refused[q] THEN 2 ELSE 1
        /\ \A h \in Handles : q \in parked[h] =>
              answers[q] <= IF refused[q] THEN 1 ELSE 0

LifeInv ==
    /\ TypeOK /\ ModuleByPhase /\ SessionByPhase /\ MonitorByPhase /\ Sole
    /\ CallsInPlace /\ RequestsCounted

LEMMA InitLife == Init => LifeInv
  BY LifecycleAssumption DEF Init, LifeInv, TypeOK, ModuleByPhase,
       SessionByPhase, MonitorByPhase, Sole, CallsInPlace,
     RequestsCounted, Callable, Served, Starting, Phases, Closing, Layers, Modules

LEMMA FlagSet ==
  ASSUME NEW S, NEW f \in [S -> BOOLEAN], NEW x, NEW b \in BOOLEAN
  PROVE  [f EXCEPT ![x] = b] \in [S -> BOOLEAN]
  BY Zenon

(* A request completed from the queue had been completed at most once, and    *)
(* only if it was refused.                                                    *)
LEMMA CompletionCounts ==
  ASSUME TypeOK, RequestsCounted, NEW h \in Handles, CompleteParked(h)
  PROVE  /\ parked' \in [Handles -> SUBSET Reqs]
         /\ answers' \in [Reqs -> 0..2]
<1>1. parked' \in [Handles -> SUBSET Reqs]
  BY DEF TypeOK, CompleteParked
<1>2. ASSUME NEW q \in Reqs
      PROVE  (IF q \in parked[h] THEN answers[q] + 1 ELSE answers[q]) \in 0..2
  <2>1. answers[q] \in 0..2 /\ (q \in parked[h] => answers[q] <= 1)
    BY DEF TypeOK, RequestsCounted
  <2> QED BY <2>1
<1> QED BY <1>1, <1>2 DEF CompleteParked

LEMMA AnswerCounts ==
  ASSUME TypeOK, NEW q \in Reqs, answers[q] <= 1, Answer(q)
  PROVE  answers' \in [Reqs -> 0..2]
<1>1. answers[q] + 1 \in 0..2
  BY DEF TypeOK
<1> QED BY <1>1 DEF TypeOK, Answer

(* Completing what is parked at a handle takes those requests out of the      *)
(* queue and touches no other.                                                *)
LEMMA CompletionTakes ==
  ASSUME TypeOK, RequestsCounted, NEW h \in Handles, CompleteParked(h), NEW p \in Reqs
  PROVE  /\ \A g \in Handles : p \in parked'[g] => p \in parked[g] /\ answers'[p] = answers[p]
         /\ answers'[p] <= IF refused[p] THEN 2 ELSE 1
         /\ rpc[p] \in {"idle", "forward"} => answers'[p] = 0
<1>1. CASE p \in parked[h]
  <2>1. answers'[p] = answers[p] + 1 /\ rh[p] = h /\ rpc[p] \notin {"idle", "forward"}
    BY <1>1 DEF CompleteParked, RequestsCounted
  <2>2. \A g \in Handles : p \notin parked'[g]
    BY <1>1, <2>1 DEF CompleteParked, RequestsCounted, TypeOK
  <2>3. answers[p] \in 0..2 /\ answers[p] <= IF refused[p] THEN 1 ELSE 0
    BY <1>1 DEF RequestsCounted, TypeOK
  <2> QED BY <2>1, <2>2, <2>3
<1>2. CASE p \notin parked[h]
  <2>1. answers'[p] = answers[p]
    BY <1>2 DEF CompleteParked
  <2>2. \A g \in Handles : p \in parked'[g] => p \in parked[g]
    BY DEF CompleteParked, TypeOK
  <2> QED BY <2>1, <2>2 DEF RequestsCounted
<1> QED BY <1>1, <1>2

(* The handle a notification is for.                                         *)
LEMMA CallModule ==
  ASSUME CallsInPlace, NEW c \in Calls, cpc[c] \notin {"idle", "look"}
  PROVE  cm[c] \in Handles /\ cm[c] = ch[c]
  BY DEF CallsInPlace, Callable


(* A completion adds one to a count the other parts keep below two.          *)
LEMMA TypesKept ==
  ASSUME LifeInv, [Next]_vars
  PROVE  TypeOK'
<1> USE LifecycleAssumption DEF LifeInv, TypeOK, Layers, Modules, Phases,
        Starting, Closing, handleVars, ringVars, reqVars, queueVars, callVars
<1>1. ASSUME NEW h \in Handles, Create(h) PROVE TypeOK'
  BY <1>1 DEF Create, Goto
<1>2. ASSUME NEW h \in Handles, NEW l \in {"packet", "file"}, Initialize(h, l) PROVE TypeOK'
  <2>1. pc' \in [Handles -> Phases] /\ layer' \in [Handles -> Layers]
    BY <1>2 DEF Initialize, Goto
  <2>2. module' \in [Handles -> Modules]
    BY <1>2 DEF Initialize, Goto
  <2> QED
    BY <1>2, <2>1, <2>2 DEF Initialize, Goto
<1>3. ASSUME NEW h \in Handles, OpenEngine(h) PROVE TypeOK'
  BY <1>3 DEF OpenEngine, Goto
<1>4. ASSUME NEW h \in Handles, BeginTransaction(h) PROVE TypeOK'
  <2>1. pc' \in [Handles -> Phases] /\ engine' \in [Handles -> {"none", "open", "closed"}]
    BY <1>4, SMTT(20) DEF BeginTransaction, Goto
  <2>2. closes[h] = 0
    BY <1>4 DEF BeginTransaction, SessionByPhase
  <2>3. closes' \in [Handles -> 0..2]
    BY <1>4, <2>2 DEF BeginTransaction, Goto
  <2>4. beganNot' \in [Handles -> BOOLEAN]
    <3>1. beganNot' = beganNot \/ beganNot' = [beganNot EXCEPT ![h] = TRUE]
      BY <1>4 DEF BeginTransaction
    <3>2. CASE beganNot' = beganNot
      BY <3>2
    <3>3. CASE beganNot' = [beganNot EXCEPT ![h] = TRUE]
      BY <3>3, FlagSet
    <3> QED BY <3>1, <3>2, <3>3
  <2> QED
    BY <1>4, <2>1, <2>3, <2>4 DEF BeginTransaction
<1>5. ASSUME NEW h \in Handles, AddObjects(h) PROVE TypeOK'
  BY <1>5 DEF AddObjects, Goto
<1>6. ASSUME NEW h \in Handles, Commit(h) PROVE TypeOK'
  <2>1. pc' \in [Handles -> Phases]
    BY <1>6 DEF Commit, Goto
  <2>2. live' \in [Handles -> BOOLEAN]
    <3>1. live' = live \/ live' = [live EXCEPT ![h] = TRUE]
      BY <1>6 DEF Commit
    <3>2. CASE live' = live
      BY <3>2
    <3>3. CASE live' = [live EXCEPT ![h] = TRUE]
      BY <3>3, FlagSet
    <3> QED BY <3>1, <3>2, <3>3
  <2> QED
    BY <1>6, <2>1, <2>2 DEF Commit, Goto
<1>7. ASSUME NEW h \in Handles, ProvisionKeys(h) PROVE TypeOK'
  BY <1>7 DEF ProvisionKeys, Goto
<1>8. ASSUME NEW h \in Handles, Publish(h) PROVE TypeOK'
  BY <1>8 DEF Publish, Goto
<1>9. ASSUME NEW h \in Handles, RegisterFilter(h) PROVE TypeOK'
  BY <1>9 DEF RegisterFilter, Goto
<1>10. ASSUME NEW h \in Handles, StartFiltering(h) PROVE TypeOK'
  BY <1>10 DEF StartFiltering, Goto
<1>11. ASSUME NEW h \in Handles, TakeModule(h) PROVE TypeOK'
  <2>1. pc' \in [Handles -> Phases]
    BY <1>11 DEF TakeModule, Goto
  <2>2. module' \in [Handles -> Modules]
    BY <1>11 DEF TakeModule, Goto
  <2> QED
    BY <1>11, <2>1, <2>2 DEF TakeModule, Goto
<1>12. ASSUME NEW h \in Handles, CloseEngine(h) PROVE TypeOK'
  <2>1. pc' \in [Handles -> Phases] /\ engine' \in [Handles -> {"none", "open", "closed"}]
    BY <1>12, SMTT(20) DEF CloseEngine, Goto
  <2>2. engine[h] # "none" => closes[h] + 1 \in 0..2
    BY <1>12 DEF CloseEngine, SessionByPhase
  <2>3. closes' \in [Handles -> 0..2]
    BY <1>12, <2>2 DEF CloseEngine, Goto
  <2>4. live' \in [Handles -> BOOLEAN]
    BY <1>12 DEF CloseEngine, Goto
  <2> QED
    BY <1>12, <2>1, <2>3, <2>4 DEF CloseEngine
<1>13. ASSUME NEW h \in Handles, EngineClosed(h) PROVE TypeOK'
  BY <1>13 DEF EngineClosed, Goto
<1>14. ASSUME NEW h \in Handles, UnregisterFilter(h) PROVE TypeOK'
  BY <1>14 DEF UnregisterFilter, Goto
<1>15. ASSUME NEW h \in Handles, Unpublish(h) PROVE TypeOK'
  BY <1>15 DEF Unpublish, Goto
<1>16. ASSUME NEW h \in Handles, ClearCallback(h) PROVE TypeOK'
  BY <1>16 DEF ClearCallback, Goto
<1>17. ASSUME NEW h \in Handles, FreeModule(h) PROVE TypeOK'
  BY <1>17 DEF FreeModule, Goto
<1>18. ASSUME NEW h \in Handles, FlushQueue(h) PROVE TypeOK'
  <2>1. pc' \in [Handles -> Phases]
    BY <1>18 DEF FlushQueue, CompleteParked, Goto
  <2> QED
    BY <1>18, <2>1, CompletionCounts DEF FlushQueue
<1>19. ASSUME NEW h \in Handles, Destroy(h) PROVE TypeOK'
  BY <1>19 DEF Destroy, Goto
<1>20. ASSUME NEW q \in Reqs, NEW h \in Handles, Recv(q, h) PROVE TypeOK'
  BY <1>20 DEF Recv
<1>21. ASSUME NEW q \in Reqs, Forward(q) PROVE TypeOK'
  <2>1. rpc' \in [Reqs -> {"idle", "forward", "look", "arm", "done"}]
    BY <1>21 DEF Forward
  <2>2. answers[q] <= 1 /\ rh[q] \in Handles
    BY <1>21 DEF Forward, RequestsCounted
  <2>3. parked' \in [Handles -> SUBSET Reqs]
    BY <1>21, <2>2 DEF Forward
  <2>4. answers' \in [Reqs -> 0..2]
    BY <1>21, <2>2, AnswerCounts DEF Forward
  <2> QED
    BY <1>21, <2>1, <2>3, <2>4 DEF Forward
<1>22. ASSUME NEW q \in Reqs, LookForModule(q) PROVE TypeOK'
  <2>1. rpc' \in [Reqs -> {"idle", "forward", "look", "arm", "done"}]
    BY <1>22 DEF LookForModule, Refuse
  <2>2. refused' \in [Reqs -> BOOLEAN]
    <3>1. refused' = refused \/ refused' = [refused EXCEPT ![q] = TRUE]
      BY <1>22 DEF LookForModule, Refuse
    <3>2. CASE refused' = refused
      BY <3>2
    <3>3. CASE refused' = [refused EXCEPT ![q] = TRUE]
      BY <3>3, FlagSet
    <3> QED BY <3>1, <3>2, <3>3
  <2>3. answers[q] <= 1
    BY <1>22 DEF LookForModule, RequestsCounted
  <2>4. parked' = parked /\ answers' \in [Reqs -> 0..2]
    BY <1>22, <2>3, AnswerCounts DEF LookForModule, Refuse
  <2> QED
    BY <1>22, <2>1, <2>2, <2>4 DEF LookForModule
<1>23. ASSUME NEW q \in Reqs, Arm(q) PROVE TypeOK'
  <2>1. rpc' \in [Reqs -> {"idle", "forward", "look", "arm", "done"}]
    BY <1>23 DEF Arm
  <2>2. notify' \in [Handles -> BOOLEAN] /\ watching' \in [Handles -> BOOLEAN]
    <3>1. notify' = [notify EXCEPT ![rh[q]] = TRUE]
      BY <1>23 DEF Arm
    <3>2. \/ watching' = [watching EXCEPT ![rh[q]] = TRUE]
          \/ watching' = [watching EXCEPT ![rh[q]] = FALSE]
      BY <1>23 DEF Arm
    <3> QED BY <3>1, <3>2, FlagSet
  <2>3. rh[q] \in Handles
    BY <1>23 DEF Arm, RequestsCounted
  <2>4. parked' \in [Handles -> SUBSET Reqs] /\ answers' \in [Reqs -> 0..2]
    BY <1>23, <2>3, CompletionCounts DEF Arm
  <2> QED
    BY <1>23, <2>1, <2>2, <2>4 DEF Arm
<1>24. ASSUME NEW q \in Reqs, ArmFreed(q) PROVE TypeOK'
  <2>1. rpc' \in [Reqs -> {"idle", "forward", "look", "arm", "done"}]
    BY <1>24 DEF ArmFreed, Refuse
  <2>2. refused' \in [Reqs -> BOOLEAN]
    <3>1. refused' = refused \/ refused' = [refused EXCEPT ![q] = TRUE]
      BY <1>24 DEF ArmFreed, Refuse
    <3>2. CASE refused' = refused
      BY <3>2
    <3>3. CASE refused' = [refused EXCEPT ![q] = TRUE]
      BY <3>3, FlagSet
    <3> QED BY <3>1, <3>2, <3>3
  <2>3. answers[q] <= 1
    BY <1>24 DEF ArmFreed, RequestsCounted
  <2>4. parked' = parked /\ answers' \in [Reqs -> 0..2]
    BY <1>24, <2>3, AnswerCounts DEF ArmFreed, Refuse
  <2> QED
    BY <1>24, <2>1, <2>2, <2>4 DEF ArmFreed
<1>25. ASSUME NEW c \in Calls, NEW h \in Handles, Enter(c, h) PROVE TypeOK'
  BY <1>25 DEF Enter, CallStep
<1>26. ASSUME NEW c \in Calls, LookUp(c) PROVE TypeOK'
  BY <1>26, SMTT(20) DEF LookUp, Return, CallStep, Found
<1>27. ASSUME NEW c \in Calls, CommitRecord(c) PROVE TypeOK'
  BY <1>27 DEF CommitRecord, CallStep, AfterRing
<1>28. ASSUME NEW c \in Calls, CommitNothing(c) PROVE TypeOK'
  BY <1>28 DEF CommitNothing, Return, CallStep
<1>29. ASSUME NEW c \in Calls, Notify(c) PROVE TypeOK'
  <2>1. cpc' \in [Calls -> {"idle", "look", "copy", "notify", "wait", "verdict"}]
    BY <1>29 DEF Notify, CallStep, AfterRing
  <2>2. cm[c] \in Handles
    BY <1>29, CallModule DEF Notify
  <2>3. parked' \in [Handles -> SUBSET Reqs] /\ answers' \in [Reqs -> 0..2]
    BY <1>29, <2>2, CompletionCounts DEF Notify
  <2> QED
    BY <1>29, <2>1, <2>3 DEF Notify
<1>30. ASSUME NEW c \in Calls, EndWait(c) PROVE TypeOK'
  BY <1>30 DEF EndWait, CallStep
<1>31. ASSUME NEW c \in Calls, Verdict(c) PROVE TypeOK'
  BY <1>31 DEF Verdict, Return, CallStep
<1>32. CASE UNCHANGED vars
  BY <1>32 DEF vars
<1> HIDE DEF LifeInv, TypeOK, Layers, Modules, Phases, Starting, Closing
<1> QED
  BY <1>1, <1>2, <1>3, <1>4, <1>5, <1>6, <1>7, <1>8, <1>9, <1>10, <1>11,
     <1>12, <1>13, <1>14, <1>15, <1>16, <1>17, <1>18, <1>19, <1>20, <1>21,
     <1>22, <1>23, <1>24, <1>25, <1>26, <1>27, <1>28, <1>29, <1>30, <1>31,
     <1>32
  DEF Next, Startup, CleanUp, HandleRecv, Call, Finished

(* The module follows the phases of its handle.                             *)
LEMMA ModulesKept ==
  ASSUME LifeInv, [Next]_vars
  PROVE  ModuleByPhase'
<1> USE DEF LifeInv, ModuleByPhase, TypeOK, Layers, Modules, Phases, Starting,
        Closing, handleVars, ringVars, reqVars, queueVars, callVars
<1>1. ASSUME NEW h \in Handles, Create(h) PROVE ModuleByPhase'
  BY <1>1 DEF Create, Goto
<1>2. ASSUME NEW h \in Handles, NEW l \in {"packet", "file"}, Initialize(h, l) PROVE ModuleByPhase'
  BY <1>2 DEF Initialize, Goto
<1>3. ASSUME NEW h \in Handles, OpenEngine(h) PROVE ModuleByPhase'
  BY <1>3 DEF OpenEngine, Goto
<1>4. ASSUME NEW h \in Handles, BeginTransaction(h) PROVE ModuleByPhase'
  BY <1>4 DEF BeginTransaction, Goto
<1>5. ASSUME NEW h \in Handles, AddObjects(h) PROVE ModuleByPhase'
  BY <1>5 DEF AddObjects, Goto
<1>6. ASSUME NEW h \in Handles, Commit(h) PROVE ModuleByPhase'
  BY <1>6 DEF Commit, Goto
<1>7. ASSUME NEW h \in Handles, ProvisionKeys(h) PROVE ModuleByPhase'
  BY <1>7 DEF ProvisionKeys, Goto
<1>8. ASSUME NEW h \in Handles, Publish(h) PROVE ModuleByPhase'
  BY <1>8 DEF Publish, Goto
<1>9. ASSUME NEW h \in Handles, RegisterFilter(h) PROVE ModuleByPhase'
  BY <1>9 DEF RegisterFilter, Goto
<1>10. ASSUME NEW h \in Handles, StartFiltering(h) PROVE ModuleByPhase'
  BY <1>10 DEF StartFiltering, Goto
<1>11. ASSUME NEW h \in Handles, TakeModule(h) PROVE ModuleByPhase'
  BY <1>11 DEF TakeModule, Goto
<1>12. ASSUME NEW h \in Handles, CloseEngine(h) PROVE ModuleByPhase'
  BY <1>12 DEF CloseEngine, Goto
<1>13. ASSUME NEW h \in Handles, EngineClosed(h) PROVE ModuleByPhase'
  BY <1>13 DEF EngineClosed, Goto
<1>14. ASSUME NEW h \in Handles, UnregisterFilter(h) PROVE ModuleByPhase'
  BY <1>14 DEF UnregisterFilter, Goto
<1>15. ASSUME NEW h \in Handles, Unpublish(h) PROVE ModuleByPhase'
  BY <1>15 DEF Unpublish, Goto
<1>16. ASSUME NEW h \in Handles, ClearCallback(h) PROVE ModuleByPhase'
  BY <1>16 DEF ClearCallback, Goto
<1>17. ASSUME NEW h \in Handles, FreeModule(h) PROVE ModuleByPhase'
  BY <1>17 DEF FreeModule, Goto
<1>18. ASSUME NEW h \in Handles, FlushQueue(h) PROVE ModuleByPhase'
  BY <1>18 DEF FlushQueue, CompleteParked, Goto
<1>19. ASSUME NEW h \in Handles, Destroy(h) PROVE ModuleByPhase'
  BY <1>19 DEF Destroy, Goto
<1>20. ASSUME NEW q \in Reqs, NEW h \in Handles, Recv(q, h) PROVE ModuleByPhase'
  BY <1>20 DEF Recv
<1>21. ASSUME NEW q \in Reqs, Forward(q) PROVE ModuleByPhase'
  BY <1>21 DEF Forward, Answer
<1>22. ASSUME NEW q \in Reqs, LookForModule(q) PROVE ModuleByPhase'
  BY <1>22 DEF LookForModule, Refuse, Answer
<1>23. ASSUME NEW q \in Reqs, Arm(q) PROVE ModuleByPhase'
  BY <1>23 DEF Arm, CompleteParked
<1>24. ASSUME NEW q \in Reqs, ArmFreed(q) PROVE ModuleByPhase'
  BY <1>24 DEF ArmFreed, Refuse, Answer
<1>25. ASSUME NEW c \in Calls, NEW h \in Handles, Enter(c, h) PROVE ModuleByPhase'
  BY <1>25 DEF Enter, CallStep
<1>26. ASSUME NEW c \in Calls, LookUp(c) PROVE ModuleByPhase'
  BY <1>26 DEF LookUp, Return, CallStep, Found
<1>27. ASSUME NEW c \in Calls, CommitRecord(c) PROVE ModuleByPhase'
  BY <1>27 DEF CommitRecord, CallStep, AfterRing
<1>28. ASSUME NEW c \in Calls, CommitNothing(c) PROVE ModuleByPhase'
  BY <1>28 DEF CommitNothing, Return, CallStep
<1>29. ASSUME NEW c \in Calls, Notify(c) PROVE ModuleByPhase'
  BY <1>29 DEF Notify, CompleteParked, CallStep, AfterRing
<1>30. ASSUME NEW c \in Calls, EndWait(c) PROVE ModuleByPhase'
  BY <1>30 DEF EndWait, CallStep
<1>31. ASSUME NEW c \in Calls, Verdict(c) PROVE ModuleByPhase'
  BY <1>31 DEF Verdict, Return, CallStep
<1>32. CASE UNCHANGED vars
  BY <1>32 DEF vars
<1> HIDE DEF LifeInv, ModuleByPhase, TypeOK, Layers, Modules, Phases, Starting,
        Closing
<1> QED
  BY <1>1, <1>2, <1>3, <1>4, <1>5, <1>6, <1>7, <1>8, <1>9, <1>10, <1>11,
     <1>12, <1>13, <1>14, <1>15, <1>16, <1>17, <1>18, <1>19, <1>20, <1>21,
     <1>22, <1>23, <1>24, <1>25, <1>26, <1>27, <1>28, <1>29, <1>30, <1>31,
     <1>32
  DEF Next, Startup, CleanUp, HandleRecv, Call, Finished

(* Who opens, begins, commits and closes a session.                         *)
LEMMA SessionsKept ==
  ASSUME LifeInv, [Next]_vars
  PROVE  SessionByPhase'
<1> USE DEF LifeInv, ModuleByPhase, SessionByPhase, TypeOK, Layers, Modules,
        Phases, Starting, Closing, handleVars, ringVars, reqVars, queueVars,
        callVars
<1>1. ASSUME NEW h \in Handles, Create(h) PROVE SessionByPhase'
  BY <1>1 DEF Create, Goto
<1>2. ASSUME NEW h \in Handles, NEW l \in {"packet", "file"}, Initialize(h, l) PROVE SessionByPhase'
  BY <1>2 DEF Initialize, Goto
<1>3. ASSUME NEW h \in Handles, OpenEngine(h) PROVE SessionByPhase'
  BY <1>3 DEF OpenEngine, Goto
<1>4. ASSUME NEW h \in Handles, BeginTransaction(h) PROVE SessionByPhase'
  BY <1>4 DEF BeginTransaction, Goto
<1>5. ASSUME NEW h \in Handles, AddObjects(h) PROVE SessionByPhase'
  BY <1>5 DEF AddObjects, Goto
<1>6. ASSUME NEW h \in Handles, Commit(h) PROVE SessionByPhase'
  BY <1>6 DEF Commit, Goto
<1>7. ASSUME NEW h \in Handles, ProvisionKeys(h) PROVE SessionByPhase'
  BY <1>7 DEF ProvisionKeys, Goto
<1>8. ASSUME NEW h \in Handles, Publish(h) PROVE SessionByPhase'
  BY <1>8 DEF Publish, Goto
<1>9. ASSUME NEW h \in Handles, RegisterFilter(h) PROVE SessionByPhase'
  BY <1>9 DEF RegisterFilter, Goto
<1>10. ASSUME NEW h \in Handles, StartFiltering(h) PROVE SessionByPhase'
  BY <1>10 DEF StartFiltering, Goto
<1>11. ASSUME NEW h \in Handles, TakeModule(h) PROVE SessionByPhase'
  BY <1>11 DEF TakeModule, Goto
<1>12. ASSUME NEW h \in Handles, CloseEngine(h) PROVE SessionByPhase'
  BY <1>12 DEF CloseEngine, Goto
<1>13. ASSUME NEW h \in Handles, EngineClosed(h) PROVE SessionByPhase'
  BY <1>13 DEF EngineClosed, Goto
<1>14. ASSUME NEW h \in Handles, UnregisterFilter(h) PROVE SessionByPhase'
  BY <1>14 DEF UnregisterFilter, Goto
<1>15. ASSUME NEW h \in Handles, Unpublish(h) PROVE SessionByPhase'
  BY <1>15 DEF Unpublish, Goto
<1>16. ASSUME NEW h \in Handles, ClearCallback(h) PROVE SessionByPhase'
  BY <1>16 DEF ClearCallback, Goto
<1>17. ASSUME NEW h \in Handles, FreeModule(h) PROVE SessionByPhase'
  BY <1>17 DEF FreeModule, Goto
<1>18. ASSUME NEW h \in Handles, FlushQueue(h) PROVE SessionByPhase'
  BY <1>18 DEF FlushQueue, CompleteParked, Goto
<1>19. ASSUME NEW h \in Handles, Destroy(h) PROVE SessionByPhase'
  BY <1>19 DEF Destroy, Goto
<1>20. ASSUME NEW q \in Reqs, NEW h \in Handles, Recv(q, h) PROVE SessionByPhase'
  BY <1>20 DEF Recv
<1>21. ASSUME NEW q \in Reqs, Forward(q) PROVE SessionByPhase'
  BY <1>21 DEF Forward, Answer
<1>22. ASSUME NEW q \in Reqs, LookForModule(q) PROVE SessionByPhase'
  BY <1>22 DEF LookForModule, Refuse, Answer
<1>23. ASSUME NEW q \in Reqs, Arm(q) PROVE SessionByPhase'
  BY <1>23 DEF Arm, CompleteParked
<1>24. ASSUME NEW q \in Reqs, ArmFreed(q) PROVE SessionByPhase'
  BY <1>24 DEF ArmFreed, Refuse, Answer
<1>25. ASSUME NEW c \in Calls, NEW h \in Handles, Enter(c, h) PROVE SessionByPhase'
  BY <1>25 DEF Enter, CallStep
<1>26. ASSUME NEW c \in Calls, LookUp(c) PROVE SessionByPhase'
  BY <1>26 DEF LookUp, Return, CallStep, Found
<1>27. ASSUME NEW c \in Calls, CommitRecord(c) PROVE SessionByPhase'
  BY <1>27 DEF CommitRecord, CallStep, AfterRing
<1>28. ASSUME NEW c \in Calls, CommitNothing(c) PROVE SessionByPhase'
  BY <1>28 DEF CommitNothing, Return, CallStep
<1>29. ASSUME NEW c \in Calls, Notify(c) PROVE SessionByPhase'
  BY <1>29 DEF Notify, CompleteParked, CallStep, AfterRing
<1>30. ASSUME NEW c \in Calls, EndWait(c) PROVE SessionByPhase'
  BY <1>30 DEF EndWait, CallStep
<1>31. ASSUME NEW c \in Calls, Verdict(c) PROVE SessionByPhase'
  BY <1>31 DEF Verdict, Return, CallStep
<1>32. CASE UNCHANGED vars
  BY <1>32 DEF vars
<1> HIDE DEF LifeInv, ModuleByPhase, SessionByPhase, TypeOK, Layers, Modules,
        Phases, Starting, Closing
<1> QED
  BY <1>1, <1>2, <1>3, <1>4, <1>5, <1>6, <1>7, <1>8, <1>9, <1>10, <1>11,
     <1>12, <1>13, <1>14, <1>15, <1>16, <1>17, <1>18, <1>19, <1>20, <1>21,
     <1>22, <1>23, <1>24, <1>25, <1>26, <1>27, <1>28, <1>29, <1>30, <1>31,
     <1>32
  DEF Next, Startup, CleanUp, HandleRecv, Call, Finished

(* The registration and the global pointer, which no other handle disturbs. *)
LEMMA MonitorsKept ==
  ASSUME LifeInv, SingleMonitor, [Next]_vars
  PROVE  MonitorByPhase'
<1> USE LifecycleAssumption DEF LifeInv, ModuleByPhase, MonitorByPhase, Sole,
        Served, TypeOK, Layers, Modules, Phases, Starting, Closing, handleVars,
        ringVars, reqVars, queueVars, callVars
<1>1. ASSUME NEW h \in Handles, Create(h) PROVE MonitorByPhase'
  BY <1>1 DEF Create, Goto
<1>2. ASSUME NEW h \in Handles, NEW l \in {"packet", "file"}, Initialize(h, l) PROVE MonitorByPhase'
  BY <1>2 DEF Initialize, Goto
<1>3. ASSUME NEW h \in Handles, OpenEngine(h) PROVE MonitorByPhase'
  BY <1>3 DEF OpenEngine, Goto
<1>4. ASSUME NEW h \in Handles, BeginTransaction(h) PROVE MonitorByPhase'
  BY <1>4 DEF BeginTransaction, Goto
<1>5. ASSUME NEW h \in Handles, AddObjects(h) PROVE MonitorByPhase'
  BY <1>5 DEF AddObjects, Goto
<1>6. ASSUME NEW h \in Handles, Commit(h) PROVE MonitorByPhase'
  BY <1>6 DEF Commit, Goto
<1>7. ASSUME NEW h \in Handles, ProvisionKeys(h) PROVE MonitorByPhase'
  BY <1>7 DEF ProvisionKeys, Goto
<1>8. ASSUME NEW h \in Handles, Publish(h) PROVE MonitorByPhase'
  BY <1>8, SMTT(20) DEF Publish, Goto
<1>9. ASSUME NEW h \in Handles, RegisterFilter(h) PROVE MonitorByPhase'
  BY <1>9, SMTT(20) DEF RegisterFilter, Goto
<1>10. ASSUME NEW h \in Handles, StartFiltering(h) PROVE MonitorByPhase'
  BY <1>10, SMTT(20) DEF StartFiltering, Goto
<1>11. ASSUME NEW h \in Handles, TakeModule(h) PROVE MonitorByPhase'
  BY <1>11 DEF TakeModule, Goto
<1>12. ASSUME NEW h \in Handles, CloseEngine(h) PROVE MonitorByPhase'
  BY <1>12 DEF CloseEngine, Goto
<1>13. ASSUME NEW h \in Handles, EngineClosed(h) PROVE MonitorByPhase'
  BY <1>13 DEF EngineClosed, Goto
<1>14. ASSUME NEW h \in Handles, UnregisterFilter(h) PROVE MonitorByPhase'
  BY <1>14 DEF UnregisterFilter, Goto
<1>15. ASSUME NEW h \in Handles, Unpublish(h) PROVE MonitorByPhase'
  BY <1>15, SMTT(20) DEF Unpublish, Goto
<1>16. ASSUME NEW h \in Handles, ClearCallback(h) PROVE MonitorByPhase'
  BY <1>16 DEF ClearCallback, Goto
<1>17. ASSUME NEW h \in Handles, FreeModule(h) PROVE MonitorByPhase'
  BY <1>17 DEF FreeModule, Goto
<1>18. ASSUME NEW h \in Handles, FlushQueue(h) PROVE MonitorByPhase'
  BY <1>18 DEF FlushQueue, CompleteParked, Goto
<1>19. ASSUME NEW h \in Handles, Destroy(h) PROVE MonitorByPhase'
  BY <1>19 DEF Destroy, Goto
<1>20. ASSUME NEW q \in Reqs, NEW h \in Handles, Recv(q, h) PROVE MonitorByPhase'
  BY <1>20 DEF Recv
<1>21. ASSUME NEW q \in Reqs, Forward(q) PROVE MonitorByPhase'
  BY <1>21 DEF Forward, Answer
<1>22. ASSUME NEW q \in Reqs, LookForModule(q) PROVE MonitorByPhase'
  BY <1>22 DEF LookForModule, Refuse, Answer
<1>23. ASSUME NEW q \in Reqs, Arm(q) PROVE MonitorByPhase'
  BY <1>23 DEF Arm, CompleteParked
<1>24. ASSUME NEW q \in Reqs, ArmFreed(q) PROVE MonitorByPhase'
  BY <1>24 DEF ArmFreed, Refuse, Answer
<1>25. ASSUME NEW c \in Calls, NEW h \in Handles, Enter(c, h) PROVE MonitorByPhase'
  BY <1>25 DEF Enter, CallStep
<1>26. ASSUME NEW c \in Calls, LookUp(c) PROVE MonitorByPhase'
  BY <1>26 DEF LookUp, Return, CallStep, Found
<1>27. ASSUME NEW c \in Calls, CommitRecord(c) PROVE MonitorByPhase'
  BY <1>27 DEF CommitRecord, CallStep, AfterRing
<1>28. ASSUME NEW c \in Calls, CommitNothing(c) PROVE MonitorByPhase'
  BY <1>28 DEF CommitNothing, Return, CallStep
<1>29. ASSUME NEW c \in Calls, Notify(c) PROVE MonitorByPhase'
  BY <1>29 DEF Notify, CompleteParked, CallStep, AfterRing
<1>30. ASSUME NEW c \in Calls, EndWait(c) PROVE MonitorByPhase'
  BY <1>30 DEF EndWait, CallStep
<1>31. ASSUME NEW c \in Calls, Verdict(c) PROVE MonitorByPhase'
  BY <1>31 DEF Verdict, Return, CallStep
<1>32. CASE UNCHANGED vars
  BY <1>32 DEF vars
<1> HIDE DEF LifeInv, ModuleByPhase, MonitorByPhase, Sole, Served, TypeOK,
        Layers, Modules, Phases, Starting, Closing
<1> QED
  BY <1>1, <1>2, <1>3, <1>4, <1>5, <1>6, <1>7, <1>8, <1>9, <1>10, <1>11,
     <1>12, <1>13, <1>14, <1>15, <1>16, <1>17, <1>18, <1>19, <1>20, <1>21,
     <1>22, <1>23, <1>24, <1>25, <1>26, <1>27, <1>28, <1>29, <1>30, <1>31,
     <1>32
  DEF Next, Startup, CleanUp, HandleRecv, Call, Finished

(* A second monitor is initialized only when the first is closed.           *)
LEMMA SoleKept ==
  ASSUME LifeInv, SingleMonitor, [Next]_vars
  PROVE  Sole'
<1> USE DEF LifeInv, ModuleByPhase, MonitorByPhase, Sole, MayMonitor, Served,
        TypeOK, Layers, Modules, Phases, Starting, Closing, handleVars,
        ringVars, reqVars, queueVars, callVars
<1>1. ASSUME NEW h \in Handles, Create(h) PROVE Sole'
  BY <1>1 DEF Create, Goto
<1>2. ASSUME NEW h \in Handles, NEW l \in {"packet", "file"}, Initialize(h, l) PROVE Sole'
  BY <1>2 DEF Initialize, Goto
<1>3. ASSUME NEW h \in Handles, OpenEngine(h) PROVE Sole'
  BY <1>3 DEF OpenEngine, Goto
<1>4. ASSUME NEW h \in Handles, BeginTransaction(h) PROVE Sole'
  BY <1>4 DEF BeginTransaction, Goto
<1>5. ASSUME NEW h \in Handles, AddObjects(h) PROVE Sole'
  BY <1>5 DEF AddObjects, Goto
<1>6. ASSUME NEW h \in Handles, Commit(h) PROVE Sole'
  BY <1>6 DEF Commit, Goto
<1>7. ASSUME NEW h \in Handles, ProvisionKeys(h) PROVE Sole'
  BY <1>7 DEF ProvisionKeys, Goto
<1>8. ASSUME NEW h \in Handles, Publish(h) PROVE Sole'
  BY <1>8 DEF Publish, Goto
<1>9. ASSUME NEW h \in Handles, RegisterFilter(h) PROVE Sole'
  BY <1>9 DEF RegisterFilter, Goto
<1>10. ASSUME NEW h \in Handles, StartFiltering(h) PROVE Sole'
  BY <1>10 DEF StartFiltering, Goto
<1>11. ASSUME NEW h \in Handles, TakeModule(h) PROVE Sole'
  BY <1>11, SMTT(20) DEF TakeModule, Goto
<1>12. ASSUME NEW h \in Handles, CloseEngine(h) PROVE Sole'
  BY <1>12 DEF CloseEngine, Goto
<1>13. ASSUME NEW h \in Handles, EngineClosed(h) PROVE Sole'
  BY <1>13 DEF EngineClosed, Goto
<1>14. ASSUME NEW h \in Handles, UnregisterFilter(h) PROVE Sole'
  BY <1>14 DEF UnregisterFilter, Goto
<1>15. ASSUME NEW h \in Handles, Unpublish(h) PROVE Sole'
  BY <1>15 DEF Unpublish, Goto
<1>16. ASSUME NEW h \in Handles, ClearCallback(h) PROVE Sole'
  BY <1>16 DEF ClearCallback, Goto
<1>17. ASSUME NEW h \in Handles, FreeModule(h) PROVE Sole'
  BY <1>17 DEF FreeModule, Goto
<1>18. ASSUME NEW h \in Handles, FlushQueue(h) PROVE Sole'
  BY <1>18 DEF FlushQueue, CompleteParked, Goto
<1>19. ASSUME NEW h \in Handles, Destroy(h) PROVE Sole'
  BY <1>19 DEF Destroy, Goto
<1>20. ASSUME NEW q \in Reqs, NEW h \in Handles, Recv(q, h) PROVE Sole'
  BY <1>20 DEF Recv
<1>21. ASSUME NEW q \in Reqs, Forward(q) PROVE Sole'
  BY <1>21 DEF Forward, Answer
<1>22. ASSUME NEW q \in Reqs, LookForModule(q) PROVE Sole'
  BY <1>22 DEF LookForModule, Refuse, Answer
<1>23. ASSUME NEW q \in Reqs, Arm(q) PROVE Sole'
  BY <1>23 DEF Arm, CompleteParked
<1>24. ASSUME NEW q \in Reqs, ArmFreed(q) PROVE Sole'
  BY <1>24 DEF ArmFreed, Refuse, Answer
<1>25. ASSUME NEW c \in Calls, NEW h \in Handles, Enter(c, h) PROVE Sole'
  BY <1>25 DEF Enter, CallStep
<1>26. ASSUME NEW c \in Calls, LookUp(c) PROVE Sole'
  BY <1>26 DEF LookUp, Return, CallStep, Found
<1>27. ASSUME NEW c \in Calls, CommitRecord(c) PROVE Sole'
  BY <1>27 DEF CommitRecord, CallStep, AfterRing
<1>28. ASSUME NEW c \in Calls, CommitNothing(c) PROVE Sole'
  BY <1>28 DEF CommitNothing, Return, CallStep
<1>29. ASSUME NEW c \in Calls, Notify(c) PROVE Sole'
  BY <1>29 DEF Notify, CompleteParked, CallStep, AfterRing
<1>30. ASSUME NEW c \in Calls, EndWait(c) PROVE Sole'
  BY <1>30 DEF EndWait, CallStep
<1>31. ASSUME NEW c \in Calls, Verdict(c) PROVE Sole'
  BY <1>31 DEF Verdict, Return, CallStep
<1>32. CASE UNCHANGED vars
  BY <1>32 DEF vars
<1> HIDE DEF LifeInv, ModuleByPhase, MonitorByPhase, Sole, MayMonitor, Served,
        TypeOK, Layers, Modules, Phases, Starting, Closing
<1> QED
  BY <1>1, <1>2, <1>3, <1>4, <1>5, <1>6, <1>7, <1>8, <1>9, <1>10, <1>11,
     <1>12, <1>13, <1>14, <1>15, <1>16, <1>17, <1>18, <1>19, <1>20, <1>21,
     <1>22, <1>23, <1>24, <1>25, <1>26, <1>27, <1>28, <1>29, <1>30, <1>31,
     <1>32
  DEF Next, Startup, CleanUp, HandleRecv, Call, Finished

(* A call stays with the handle whose filter made it until it returns, and   *)
(* the handle's clean-up waits for it.                                      *)
LEMMA CallsKept ==
  ASSUME LifeInv, EngineWaits, [Next]_vars
  PROVE  CallsInPlace'
<1> USE LifecycleAssumption DEF LifeInv, ModuleByPhase, SessionByPhase,
        MonitorByPhase, CallsInPlace, Callable, CallsOf, Served, TypeOK, Layers,
        Modules, Phases, Starting, Closing, handleVars, ringVars, reqVars,
        queueVars, callVars
<1>1. ASSUME NEW h \in Handles, Create(h) PROVE CallsInPlace'
  BY <1>1 DEF Create, Goto
<1>2. ASSUME NEW h \in Handles, NEW l \in {"packet", "file"}, Initialize(h, l) PROVE CallsInPlace'
  BY <1>2 DEF Initialize, Goto
<1>3. ASSUME NEW h \in Handles, OpenEngine(h) PROVE CallsInPlace'
  BY <1>3 DEF OpenEngine, Goto
<1>4. ASSUME NEW h \in Handles, BeginTransaction(h) PROVE CallsInPlace'
  BY <1>4 DEF BeginTransaction, Goto
<1>5. ASSUME NEW h \in Handles, AddObjects(h) PROVE CallsInPlace'
  BY <1>5 DEF AddObjects, Goto
<1>6. ASSUME NEW h \in Handles, Commit(h) PROVE CallsInPlace'
  BY <1>6 DEF Commit, Goto
<1>7. ASSUME NEW h \in Handles, ProvisionKeys(h) PROVE CallsInPlace'
  BY <1>7 DEF ProvisionKeys, Goto
<1>8. ASSUME NEW h \in Handles, Publish(h) PROVE CallsInPlace'
  BY <1>8 DEF Publish, Goto
<1>9. ASSUME NEW h \in Handles, RegisterFilter(h) PROVE CallsInPlace'
  BY <1>9 DEF RegisterFilter, Goto
<1>10. ASSUME NEW h \in Handles, StartFiltering(h) PROVE CallsInPlace'
  BY <1>10 DEF StartFiltering, Goto
<1>11. ASSUME NEW h \in Handles, TakeModule(h) PROVE CallsInPlace'
  BY <1>11 DEF TakeModule, Goto
<1>12. ASSUME NEW h \in Handles, CloseEngine(h) PROVE CallsInPlace'
  BY <1>12 DEF CloseEngine, Goto
<1>13. ASSUME NEW h \in Handles, EngineClosed(h) PROVE CallsInPlace'
  BY <1>13 DEF EngineClosed, Goto
<1>14. ASSUME NEW h \in Handles, UnregisterFilter(h) PROVE CallsInPlace'
  BY <1>14 DEF UnregisterFilter, Goto
<1>15. ASSUME NEW h \in Handles, Unpublish(h) PROVE CallsInPlace'
  BY <1>15 DEF Unpublish, Goto
<1>16. ASSUME NEW h \in Handles, ClearCallback(h) PROVE CallsInPlace'
  BY <1>16 DEF ClearCallback, Goto
<1>17. ASSUME NEW h \in Handles, FreeModule(h) PROVE CallsInPlace'
  BY <1>17 DEF FreeModule, Goto
<1>18. ASSUME NEW h \in Handles, FlushQueue(h) PROVE CallsInPlace'
  BY <1>18 DEF FlushQueue, CompleteParked, Goto
<1>19. ASSUME NEW h \in Handles, Destroy(h) PROVE CallsInPlace'
  BY <1>19 DEF Destroy, Goto
<1>20. ASSUME NEW q \in Reqs, NEW h \in Handles, Recv(q, h) PROVE CallsInPlace'
  BY <1>20 DEF Recv
<1>21. ASSUME NEW q \in Reqs, Forward(q) PROVE CallsInPlace'
  BY <1>21 DEF Forward, Answer
<1>22. ASSUME NEW q \in Reqs, LookForModule(q) PROVE CallsInPlace'
  BY <1>22 DEF LookForModule, Refuse, Answer
<1>23. ASSUME NEW q \in Reqs, Arm(q) PROVE CallsInPlace'
  BY <1>23 DEF Arm, CompleteParked
<1>24. ASSUME NEW q \in Reqs, ArmFreed(q) PROVE CallsInPlace'
  BY <1>24 DEF ArmFreed, Refuse, Answer
<1>25. ASSUME NEW c \in Calls, NEW h \in Handles, Enter(c, h) PROVE CallsInPlace'
  BY <1>25 DEF Enter, CallStep
<1>26. ASSUME NEW c \in Calls, LookUp(c) PROVE CallsInPlace'
  BY <1>26 DEF LookUp, Return, CallStep, Found
<1>27. ASSUME NEW c \in Calls, CommitRecord(c) PROVE CallsInPlace'
  BY <1>27 DEF CommitRecord, CallStep, AfterRing
<1>28. ASSUME NEW c \in Calls, CommitNothing(c) PROVE CallsInPlace'
  BY <1>28 DEF CommitNothing, Return, CallStep
<1>29. ASSUME NEW c \in Calls, Notify(c) PROVE CallsInPlace'
  BY <1>29 DEF Notify, CompleteParked, CallStep, AfterRing
<1>30. ASSUME NEW c \in Calls, EndWait(c) PROVE CallsInPlace'
  BY <1>30 DEF EndWait, CallStep
<1>31. ASSUME NEW c \in Calls, Verdict(c) PROVE CallsInPlace'
  BY <1>31 DEF Verdict, Return, CallStep
<1>32. CASE UNCHANGED vars
  BY <1>32 DEF vars
<1> HIDE DEF LifeInv, ModuleByPhase, SessionByPhase, MonitorByPhase,
        CallsInPlace, Callable, CallsOf, Served, TypeOK, Layers, Modules,
        Phases, Starting, Closing
<1> QED
  BY <1>1, <1>2, <1>3, <1>4, <1>5, <1>6, <1>7, <1>8, <1>9, <1>10, <1>11,
     <1>12, <1>13, <1>14, <1>15, <1>16, <1>17, <1>18, <1>19, <1>20, <1>21,
     <1>22, <1>23, <1>24, <1>25, <1>26, <1>27, <1>28, <1>29, <1>30, <1>31,
     <1>32
  DEF Next, Startup, CleanUp, HandleRecv, Call, Finished

(* Whoever completes a request takes it out of the queue first.             *)
LEMMA RequestsKept ==
  ASSUME LifeInv, [Next]_vars
  PROVE  RequestsCounted'
<1> USE DEF LifeInv, RequestsCounted, TypeOK, Layers, Modules, Phases, Starting,
        Closing, handleVars, ringVars, reqVars, queueVars, callVars
<1>1. ASSUME NEW h \in Handles, Create(h) PROVE RequestsCounted'
  BY <1>1 DEF Create, Goto
<1>2. ASSUME NEW h \in Handles, NEW l \in {"packet", "file"}, Initialize(h, l) PROVE RequestsCounted'
  BY <1>2 DEF Initialize, Goto
<1>3. ASSUME NEW h \in Handles, OpenEngine(h) PROVE RequestsCounted'
  BY <1>3 DEF OpenEngine, Goto
<1>4. ASSUME NEW h \in Handles, BeginTransaction(h) PROVE RequestsCounted'
  BY <1>4 DEF BeginTransaction, Goto
<1>5. ASSUME NEW h \in Handles, AddObjects(h) PROVE RequestsCounted'
  BY <1>5 DEF AddObjects, Goto
<1>6. ASSUME NEW h \in Handles, Commit(h) PROVE RequestsCounted'
  BY <1>6 DEF Commit, Goto
<1>7. ASSUME NEW h \in Handles, ProvisionKeys(h) PROVE RequestsCounted'
  BY <1>7 DEF ProvisionKeys, Goto
<1>8. ASSUME NEW h \in Handles, Publish(h) PROVE RequestsCounted'
  BY <1>8 DEF Publish, Goto
<1>9. ASSUME NEW h \in Handles, RegisterFilter(h) PROVE RequestsCounted'
  BY <1>9 DEF RegisterFilter, Goto
<1>10. ASSUME NEW h \in Handles, StartFiltering(h) PROVE RequestsCounted'
  BY <1>10 DEF StartFiltering, Goto
<1>11. ASSUME NEW h \in Handles, TakeModule(h) PROVE RequestsCounted'
  BY <1>11 DEF TakeModule, Goto
<1>12. ASSUME NEW h \in Handles, CloseEngine(h) PROVE RequestsCounted'
  BY <1>12 DEF CloseEngine, Goto
<1>13. ASSUME NEW h \in Handles, EngineClosed(h) PROVE RequestsCounted'
  BY <1>13 DEF EngineClosed, Goto
<1>14. ASSUME NEW h \in Handles, UnregisterFilter(h) PROVE RequestsCounted'
  BY <1>14 DEF UnregisterFilter, Goto
<1>15. ASSUME NEW h \in Handles, Unpublish(h) PROVE RequestsCounted'
  BY <1>15 DEF Unpublish, Goto
<1>16. ASSUME NEW h \in Handles, ClearCallback(h) PROVE RequestsCounted'
  BY <1>16 DEF ClearCallback, Goto
<1>17. ASSUME NEW h \in Handles, FreeModule(h) PROVE RequestsCounted'
  BY <1>17 DEF FreeModule, Goto
<1>18. ASSUME NEW h \in Handles, FlushQueue(h) PROVE RequestsCounted'
  BY <1>18, CompletionTakes DEF FlushQueue, Goto
<1>19. ASSUME NEW h \in Handles, Destroy(h) PROVE RequestsCounted'
  BY <1>19 DEF Destroy, Goto
<1>20. ASSUME NEW q \in Reqs, NEW h \in Handles, Recv(q, h) PROVE RequestsCounted'
  BY <1>20 DEF Recv
<1>21. ASSUME NEW q \in Reqs, Forward(q) PROVE RequestsCounted'
  <2>1. /\ rh[q] \in Handles /\ answers[q] = 0 /\ ~refused[q]
        /\ \A g \in Handles : q \notin parked[g]
    BY <1>21 DEF Forward
  <2>2. CASE parked' = [parked EXCEPT ![rh[q]] = @ \cup {q}] /\ UNCHANGED answers
    BY <1>21, <2>1, <2>2 DEF Forward
  <2>3. CASE Answer(q) /\ UNCHANGED parked
    BY <1>21, <2>1, <2>3 DEF Forward, Answer
  <2> QED
    BY <1>21, <2>2, <2>3 DEF Forward
<1>22. ASSUME NEW q \in Reqs, LookForModule(q) PROVE RequestsCounted'
  BY <1>22 DEF LookForModule, Refuse, Answer
<1>23. ASSUME NEW q \in Reqs, Arm(q) PROVE RequestsCounted'
  <2>1. rh[q] \in Handles
    BY <1>23 DEF Arm
  <2>2. CASE UNCHANGED queueVars
    BY <1>23, <2>2 DEF Arm
  <2>3. CASE CompleteParked(rh[q])
    BY <1>23, <2>1, <2>3, CompletionTakes DEF Arm
  <2> QED
    BY <1>23, <2>2, <2>3 DEF Arm
<1>24. ASSUME NEW q \in Reqs, ArmFreed(q) PROVE RequestsCounted'
  BY <1>24, SMTT(20) DEF ArmFreed, Refuse, Answer
<1>25. ASSUME NEW c \in Calls, NEW h \in Handles, Enter(c, h) PROVE RequestsCounted'
  BY <1>25 DEF Enter, CallStep
<1>26. ASSUME NEW c \in Calls, LookUp(c) PROVE RequestsCounted'
  BY <1>26 DEF LookUp, Return, CallStep, Found
<1>27. ASSUME NEW c \in Calls, CommitRecord(c) PROVE RequestsCounted'
  BY <1>27 DEF CommitRecord, CallStep, AfterRing
<1>28. ASSUME NEW c \in Calls, CommitNothing(c) PROVE RequestsCounted'
  BY <1>28 DEF CommitNothing, Return, CallStep
<1>29. ASSUME NEW c \in Calls, Notify(c) PROVE RequestsCounted'
  <2>1. cm[c] \in Handles
    BY <1>29, CallModule DEF Notify
  <2> QED
    BY <1>29, <2>1, CompletionTakes DEF Notify
<1>30. ASSUME NEW c \in Calls, EndWait(c) PROVE RequestsCounted'
  BY <1>30 DEF EndWait, CallStep
<1>31. ASSUME NEW c \in Calls, Verdict(c) PROVE RequestsCounted'
  BY <1>31 DEF Verdict, Return, CallStep
<1>32. CASE UNCHANGED vars
  BY <1>32 DEF vars
<1> HIDE DEF LifeInv, RequestsCounted, TypeOK, Layers, Modules, Phases,
        Starting, Closing
<1> QED
  BY <1>1, <1>2, <1>3, <1>4, <1>5, <1>6, <1>7, <1>8, <1>9, <1>10, <1>11,
     <1>12, <1>13, <1>14, <1>15, <1>16, <1>17, <1>18, <1>19, <1>20, <1>21,
     <1>22, <1>23, <1>24, <1>25, <1>26, <1>27, <1>28, <1>29, <1>30, <1>31,
     <1>32
  DEF Next, Startup, CleanUp, HandleRecv, Call, Finished

LEMMA NextLife ==
  ASSUME EngineWaits, SingleMonitor
  PROVE  LifeInv /\ [Next]_vars => LifeInv'
  BY TypesKept, ModulesKept, SessionsKept, MonitorsKept, SoleKept, CallsKept,
     RequestsKept DEF LifeInv

(* For any number of handles, requests and calls. The constants' assumptions  *)
(* in all theorems below: a tear-down returns after the calls in progress     *)
(* (external), and there is one file monitor at a time.                       *)
THEOREM TypeCorrect ==
  ASSUME EngineWaits, SingleMonitor
  PROVE  Spec => []TypeOK
<1>1. LifeInv => TypeOK
  BY DEF LifeInv
<1> QED BY <1>1, InitLife, NextLife, PTL DEF Spec

(* file.rs:136, per_cpu_ring.rs:344: a call in progress, and the callback it  *)
(* copied, never outlives the module and the context it works on.             *)
THEOREM ModuleOutlivesCalls ==
  ASSUME EngineWaits, SingleMonitor
  PROVE  Spec => []CallsSeeLiveModule
<1>1. LifeInv => CallsSeeLiveModule
  BY DEF LifeInv, TypeOK, CallsInPlace, Callable, ModuleByPhase, Served,
       CallsSeeLiveModule
<1> QED BY <1>1, InitLife, NextLife, PTL DEF Spec

(* file.rs:317-325: only a request that handle_recv refuses after forwarding  *)
(* it can be completed twice.                                                 *)
THEOREM CompletedOnceUnlessRefused ==
  ASSUME EngineWaits, SingleMonitor
  PROVE  Spec => []AnsweredOnce
<1>1. LifeInv => AnsweredOnce
  BY DEF LifeInv, RequestsCounted, AnsweredOnce
<1> QED BY <1>1, InitLife, NextLife, PTL DEF Spec

(* wfp_init.rs:34-319, file_module.rs:317-474: whatever step of the start-up  *)
(* failed, clean-up leaves nothing registered.                                *)
THEOREM CleanUpIsComplete ==
  ASSUME EngineWaits, SingleMonitor
  PROVE  Spec => []NothingLeftBehind
<1>1. LifeInv => NothingLeftBehind
  BY DEF LifeInv, ModuleByPhase, SessionByPhase, MonitorByPhase, Served,
       NothingLeftBehind
<1> QED BY <1>1, InitLife, NextLife, PTL DEF Spec

(* wfp_init.rs:63, 315: a session is closed once, or twice when its           *)
(* transaction could not begin.                                               *)
THEOREM NoSessionClosedAgain ==
  ASSUME EngineWaits, SingleMonitor
  PROVE  Spec => []SessionClosedOnce
<1>1. LifeInv => SessionClosedOnce
  BY DEF LifeInv, SessionByPhase, SessionClosedOnce
<1> QED BY <1>1, InitLife, NextLife, PTL DEF Spec

(* file_module.rs:337, 464: the global pointer is the calling filter's module *)
(* from the first call to the last.                                           *)
THEOREM PointerCoversCalls ==
  ASSUME EngineWaits, SingleMonitor
  PROVE  Spec => []FilterFindsItsModule
<1>1. LifeInv => FilterFindsItsModule
  BY DEF LifeInv, ModuleByPhase, MonitorByPhase, Served, FilterFindsItsModule
<1> QED BY <1>1, InitLife, NextLife, PTL DEF Spec
=============================================================================
