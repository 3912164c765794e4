------------------------------ MODULE RecordQueue ------------------------------
(***************************************************************************)
(* What the locked ring promises its callouts: records pushed by many      *)
(* threads leave one by one in the order they were accepted, each into the *)
(* ring or dropped because the ring is full; the records of one thread     *)
(* keep their order.                                                       *)
(***************************************************************************)
EXTENDS Integers, Sequences, SequencesExt

VARIABLES
  items,  \* accepted and not yet disposed of, oldest first
  out     \* delivered, oldest first

Init == items = <<>> /\ out = <<>>

(* One more record; record <<t, k>> is the k-th of thread t. *)
Accept ==
  /\ Len(items') = Len(items) + 1 /\ Front(items') = items
  /\ LET new == Last(items')
     IN  \A r \in ToSet(items) \cup ToSet(out) : r[1] = new[1] => r[2] < new[2]
  /\ UNCHANGED out

Deliver ==
  /\ items # <<>>
  /\ out' = Append(out, Head(items))
  /\ items' = Tail(items)

Drop ==
  /\ items # <<>>
  /\ items' = Tail(items)
  /\ UNCHANGED out

Next == Accept \/ Deliver \/ Drop

Spec == Init /\ [][Next]_<<items, out>>
=============================================================================
