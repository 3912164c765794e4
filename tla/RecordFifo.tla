------------------------------ MODULE RecordFifo ------------------------------
(***************************************************************************)
(* What one ring promises its two sides, without cursors or memory: a      *)
(* bounded queue of records in reservation order.  A reservation is open   *)
(* until its producer publishes it, as a record or as a dummy; records are *)
(* published in order, and the client receives exactly the published       *)
(* records, each once, one at a time, in order.                            *)
(***************************************************************************)
EXTENDS Integers, Sequences, SequencesExt

CONSTANTS
  Producers, Size, Lens

VARIABLES
  fifo,        \* the reserved and unreleased entries, oldest first
  held,        \* the client holds a reference to the oldest entry
  mayWithdraw  \* a producer may give up the newest reservation (per-core ring)

State == {"open", "record", "dummy"}

(* The space the entries take. *)
Used ==
  LET upTo[i \in 0..Len(fifo)] == IF i = 0 THEN 0 ELSE upTo[i - 1] + fifo[i].len
  IN  upTo[Len(fifo)]

Init == fifo = <<>> /\ held = FALSE /\ mayWithdraw \in BOOLEAN

(* A producer has at most one reservation open, and only if there is room. *)
Reserve(p, n) ==
  /\ \A i \in DOMAIN fifo : ~(fifo[i].by = {p} /\ fifo[i].st = "open")
  /\ Used + n <= Size
  /\ fifo' = Append(fifo, [by |-> {p}, len |-> n, st |-> "open"])
  /\ UNCHANGED <<held, mayWithdraw>>

(* The oldest open entry is published. *)
Publish(i, st) ==
  /\ fifo[i].st = "open"
  /\ \A j \in 1..(i - 1) : fifo[j].st # "open"
  /\ fifo' = [fifo EXCEPT ![i].st = st]
  /\ UNCHANGED <<held, mayWithdraw>>

(* The per-core ring forgets a reservation its producer gave up. *)
Withdraw ==
  /\ mayWithdraw
  /\ fifo # <<>> /\ Last(fifo).st = "open"
  /\ fifo' = Front(fifo)
  /\ UNCHANGED <<held, mayWithdraw>>

Receive ==
  /\ ~held /\ fifo # <<>> /\ Head(fifo).st = "record"
  /\ held' = TRUE
  /\ UNCHANGED <<fifo, mayWithdraw>>

Release ==
  /\ held
  /\ fifo' = Tail(fifo)
  /\ held' = FALSE
  /\ UNCHANGED mayWithdraw

Skip ==
  /\ ~held /\ fifo # <<>> /\ Head(fifo).st = "dummy"
  /\ fifo' = Tail(fifo)
  /\ UNCHANGED <<held, mayWithdraw>>

Next ==
  \/ \E p \in Producers, n \in Lens : Reserve(p, n)
  \/ \E i \in DOMAIN fifo, st \in {"record", "dummy"} : Publish(i, st)
  \/ Withdraw \/ Receive \/ Release \/ Skip

Spec == Init /\ [][Next]_<<fifo, held, mayWithdraw>>
=============================================================================
