-------------------------------- MODULE FileTx --------------------------------
(***************************************************************************)
(* A file operation suspended until the client decides on it.              *)
(* minifilter_pre_op (src/src/file_monitor/minifilter.rs) puts an event in *)
(* the file ring, registers a transaction that lives on its own stack, and *)
(* waits for the decision or for its time-out; then it reads the decision  *)
(* back from the record in the ring.  poll_file_events                     *)
(* (src/dll/src/divert.rs) takes the event, asks the user's callback,      *)
(* writes the decision into the record and signals the transaction.        *)
(*                                                                         *)
(* The ring is that of module RingBufferData, a record at a time: an       *)
(* event's record is one slot, and publishing it is one step.  A file name *)
(* and the rules it is matched against are abstracted away: the operations *)
(* here are those that match a rule.  The client decides only through the  *)
(* loop of poll_file_events.                                               *)
(***************************************************************************)
EXTENDS Integers, FiniteSets

CONSTANTS
  Ops,            \* threads that do file operations
  Slots,          \* records the file ring has room for
  MaxTx,          \* bound: transactions ever begun
  DefaultAction   \* FileModuleConfig.default_action

Choices == {"allow", "deny", "redirect"}

ASSUME SlotsAssumption == Slots \in Nat \ {0} /\ MaxTx \in Nat
ASSUME DefaultAssumption == DefaultAction \in Choices

VARIABLES
  slot,      \* the ring: transaction_id and decision of the event in each slot
  head,      \* records the client has released
  tail,      \* records published
  nextTx,    \* NEXT_TX_ID
  tracker,   \* TransactionTracker.transactions: whose transaction is in it
  signalled, \* the threads whose event has been set
  opc,       \* where each thread is in minifilter_pre_op
  tx,        \* PendingTransaction.transaction_id
  pos,       \* PendingTransaction.start_tail
  timedOut,  \* wait_status = STATUS_TIMEOUT
  seen,      \* updated_event.decision
  cpc,       \* where the client is in poll_file_events
  cpos,      \* old_head
  ctx,       \* tx_id, the transaction_id of raw_event
  choice,    \* what the callback returned for it
  chosen     \* what the callback decided for each transaction, or "none"

opVars == <<nextTx, opc, tx, pos, timedOut, seen>>
clientVars == <<head, cpc, cpos, ctx, choice, chosen>>
vars == <<slot, tail, tracker, signalled, opVars, clientVars>>

Txs == 1..MaxTx
Slot(n) == n % Slots

Init ==
  /\ slot = [i \in 0..(Slots - 1) |-> [tx |-> 0, decision |-> "allow"]]
  /\ head = 0 /\ tail = 0 /\ nextTx = 1
  /\ tracker = {} /\ signalled = {}
  /\ opc = [t \in Ops |-> "idle"]
  /\ tx = [t \in Ops |-> 0]
  /\ pos = [t \in Ops |-> 0]
  /\ timedOut = [t \in Ops |-> FALSE]
  /\ seen = [t \in Ops |-> "allow"]
  /\ cpc = "poll" /\ cpos = 0 /\ ctx = 0 /\ choice = "allow"
  /\ chosen = [n \in Txs |-> "none"]

Move(t, from, to) == opc[t] = from /\ opc' = [opc EXCEPT ![t] = to]

(* minifilter_pre_op returns: the transaction on its stack is gone. *)
Leave(t, from) ==
  /\ Move(t, from, "idle")
  /\ signalled' = signalled \ {t}
  /\ tx' = [tx EXCEPT ![t] = 0]
  /\ pos' = [pos EXCEPT ![t] = 0]
  /\ timedOut' = [timedOut EXCEPT ![t] = FALSE]
  /\ seen' = [seen EXCEPT ![t] = "allow"]

-----------------------------------------------------------------------------
(* minifilter_pre_op *)

(* A rule matches: NEXT_TX_ID.fetch_add. *)
Begin(t) ==
  /\ nextTx <= MaxTx
  /\ Move(t, "idle", "push")
  /\ nextTx' = nextTx + 1
  /\ tx' = [tx EXCEPT ![t] = nextTx]
  /\ UNCHANGED <<slot, tail, tracker, signalled, pos, timedOut, seen, clientVars>>

(* Variant: the space check is off by one record. *)
PushEventOver(t) ==
  /\ tail - head <= Slots
  /\ Move(t, "push", "add")
  /\ slot' = [slot EXCEPT ![Slot(tail)] = [tx |-> tx[t], decision |-> "allow"]]
  /\ pos' = [pos EXCEPT ![t] = tail]
  /\ tail' = tail + 1
  /\ UNCHANGED <<tracker, signalled, nextTx, tx, timedOut, seen, clientVars>>

(* push_event; its decision is the default Allow until somebody changes it. *)
PushEvent(t) ==
  /\ tail - head < Slots
  /\ Move(t, "push", "add")
  /\ slot' = [slot EXCEPT ![Slot(tail)] = [tx |-> tx[t], decision |-> "allow"]]
  /\ pos' = [pos EXCEPT ![t] = tail]
  /\ tail' = tail + 1
  /\ UNCHANGED <<tracker, signalled, nextTx, tx, timedOut, seen, clientVars>>

(* The ring is full: the operation is allowed. *)
PushFails(t) ==
  /\ tail - head = Slots
  /\ Leave(t, "push")
  /\ UNCHANGED <<slot, tail, tracker, nextTx, clientVars>>

(* KeInitializeEvent and tracker.add. *)
AddTx(t) ==
  /\ Move(t, "add", "wait")
  /\ signalled' = signalled \ {t}
  /\ tracker' = tracker \cup {t}
  /\ UNCHANGED <<slot, tail, nextTx, tx, pos, timedOut, seen, clientVars>>

(* KeWaitForSingleObject returns: the event is set ... *)
Woken(t) ==
  /\ t \in signalled
  /\ Move(t, "wait", "remove")
  /\ timedOut' = [timedOut EXCEPT ![t] = FALSE]
  /\ UNCHANGED <<slot, tail, tracker, signalled, nextTx, tx, pos, seen, clientVars>>

(* Variant: the thread waits without a time-out. *)
TimesOutNever(t) == FALSE /\ UNCHANGED vars

(* Variant: on a time-out the transaction is left in the tracker. *)
TimesOutKeeps(t) ==
  /\ t \notin signalled
  /\ Move(t, "wait", "read")
  /\ timedOut' = [timedOut EXCEPT ![t] = TRUE]
  /\ UNCHANGED <<slot, tail, tracker, signalled, nextTx, tx, pos, seen, clientVars>>

(* ... or timeout_ms have passed. *)
TimesOut(t) ==
  /\ t \notin signalled
  /\ Move(t, "wait", "remove")
  /\ timedOut' = [timedOut EXCEPT ![t] = TRUE]
  /\ UNCHANGED <<slot, tail, tracker, signalled, nextTx, tx, pos, seen, clientVars>>

RemoveTx(t) ==
  /\ Move(t, "remove", "read")
  /\ tracker' = tracker \ {t}
  /\ UNCHANGED <<slot, tail, signalled, nextTx, tx, pos, timedOut, seen, clientVars>>

(* The decision is read in place, at start_tail. *)
ReadBack(t) ==
  /\ Move(t, "read", "finish")
  /\ seen' = [seen EXCEPT ![t] = slot[Slot(pos[t])].decision]
  /\ UNCHANGED <<slot, tail, tracker, signalled, nextTx, tx, pos, timedOut, clientVars>>

(* What the operation ends with. *)
Verdict(t) == IF timedOut[t] THEN DefaultAction ELSE seen[t]

Finish(t) ==
  /\ Leave(t, "finish")
  /\ UNCHANGED <<slot, tail, tracker, nextTx, clientVars>>

-----------------------------------------------------------------------------
(* poll_file_events *)

Client(from, to) == cpc = from /\ cpc' = to

(* The loop starts over: the locals of this turn are gone. *)
Again(from) ==
  /\ Client(from, "poll")
  /\ cpos' = 0 /\ ctx' = 0 /\ choice' = "allow"

(* next_file_event, and the copies of its fields. *)
NextEvent ==
  /\ head < tail
  /\ Client("poll", "callback")
  /\ cpos' = head
  /\ ctx' = slot[Slot(head)].tx
  /\ UNCHANGED <<slot, tail, tracker, signalled, opVars, head, choice, chosen>>

(* The callback returns c.  It has consumed the event, whose drop gave the  *)
(* record's space back.                                                     *)
Callback(c) ==
  /\ Client("callback", IF c = "allow" THEN "send" ELSE "write")
  /\ choice' = c
  /\ chosen' = [chosen EXCEPT ![ctx] = c]
  /\ head' = cpos + 1
  /\ UNCHANGED <<slot, tail, tracker, signalled, opVars, cpos, ctx>>

(* The callback calls set_decision(c) itself and returns Allow. *)
CallbackSets(c) ==
  /\ Client("callback", "send")
  /\ choice' = "allow"
  /\ chosen' = [chosen EXCEPT ![ctx] = c]
  /\ slot' = [slot EXCEPT ![Slot(cpos)] = [tx |-> ctx, decision |-> c]]
  /\ head' = cpos + 1
  /\ UNCHANGED <<tail, tracker, signalled, opVars, cpos, ctx>>

(* Variant: the transaction is signalled and the record not written. *)
WriteDecisionNot ==
  /\ Client("write", "send")
  /\ UNCHANGED <<slot, tail, tracker, signalled, opVars, head, cpos, ctx, choice, chosen>>

(* write_to_rb: the copy of the event, with the decision in it, goes where  *)
(* the record was.                                                          *)
WriteDecision ==
  /\ Client("write", "send")
  /\ slot' = [slot EXCEPT ![Slot(cpos)] = [tx |-> ctx, decision |-> choice]]
  /\ UNCHANGED <<tail, tracker, signalled, opVars, head, cpos, ctx, choice, chosen>>

(* Variant: the first transaction of the tracker is signalled. *)
SendAny ==
  /\ Again("send")
  /\ \E t \in tracker : signalled' = signalled \cup {t}
  /\ UNCHANGED <<slot, tail, tracker, opVars, head, chosen>>

(* send_file_decision: tracker.signal finds the transaction ... *)
SendDecision ==
  /\ Again("send")
  /\ \E t \in tracker : tx[t] = ctx /\ signalled' = signalled \cup {t}
  /\ UNCHANGED <<slot, tail, tracker, opVars, head, chosen>>

(* ... or answers STATUS_NOT_FOUND, which the loop prints and forgets. *)
SendNotFound ==
  /\ Again("send")
  /\ \A t \in tracker : tx[t] # ctx
  /\ UNCHANGED <<slot, tail, tracker, signalled, opVars, head, chosen>>

-----------------------------------------------------------------------------
OpStep(t) ==
  \/ PushEvent(t) \/ PushFails(t) \/ AddTx(t) \/ Woken(t) \/ TimesOut(t)
  \/ RemoveTx(t) \/ ReadBack(t) \/ Finish(t)

ClientStep ==
  \/ NextEvent
  \/ \E c \in Choices : Callback(c) \/ CallbackSets(c)
  \/ WriteDecision \/ SendDecision \/ SendNotFound

Next == (\E t \in Ops : Begin(t) \/ OpStep(t)) \/ ClientStep

Spec == Init /\ [][Next]_vars

(* A thread in minifilter_pre_op is scheduled and its time-out expires.     *)
(* Nothing is assumed of the client, which may have stopped.                *)
Fairness == \A t \in Ops : WF_vars(OpStep(t))

FairSpec == Spec /\ Fairness

-----------------------------------------------------------------------------
(* Type invariant; the unread events are at most what the ring has room for. *)
TypeOK ==
  /\ slot \in [0..(Slots - 1) -> [tx : 0..MaxTx, decision : Choices]]
  /\ head \in Nat /\ tail \in Nat /\ tail - head \in 0..Slots
  /\ nextTx \in 1..(MaxTx + 1)
  /\ tracker \subseteq Ops /\ signalled \subseteq Ops
  /\ opc \in [Ops -> {"idle", "push", "add", "wait", "remove", "read", "finish"}]
  /\ tx \in [Ops -> 0..MaxTx]
  /\ pos \in [Ops -> Nat]
  /\ timedOut \in [Ops -> BOOLEAN]
  /\ seen \in [Ops -> Choices]
  /\ cpc \in {"poll", "callback", "write", "send"}
  /\ cpos \in Nat /\ ctx \in 0..MaxTx /\ choice \in Choices
  /\ chosen \in [Txs -> Choices \cup {"none"}]

(* minifilter.rs:31-78: the tracker holds pointers into the stacks of the   *)
(* waiting threads; none outlives the wait, whatever races with a time-out. *)
TrackerPointsToWaiters ==
  \A t \in tracker : opc[t] \in {"wait", "remove"}

(* minifilter.rs:60, "Matches a user-space decision to a blocked thread": a *)
(* thread is woken only after the callback has decided on its transaction.  *)
WokenByOwnDecision ==
  \A t \in Ops : opc[t] \in {"wait", "remove"} /\ t \in signalled => chosen[tx[t]] # "none"

(* divert.rs:259: an operation that did not time out ends as the callback   *)
(* decided, as long as the ring has not come round to its first record.     *)
VerdictIsChosen ==
  \A t \in Ops : opc[t] = "finish" /\ ~timedOut[t] => Verdict(t) = chosen[tx[t]]

VerdictBeforeWrap == tail <= Slots => VerdictIsChosen

(* minifilter.rs:60: once the client has sent its decision, the thread      *)
(* that waits for it has been woken.                                        *)
Sent(n) == chosen[n] # "none" /\ ~(ctx = n /\ cpc \in {"write", "send"})

NoDecisionLost ==
  \A t \in Ops : opc[t] = "wait" /\ Sent(tx[t]) => t \in signalled

(* minifilter.rs:377: a suspended operation comes back in the end, even     *)
(* if the client never answers.                                             *)
OpsComeBack == \A t \in Ops : opc[t] = "wait" ~> opc[t] = "idle"
=============================================================================
