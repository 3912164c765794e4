---------------------------- MODULE RingBufferFifo ----------------------------
(***************************************************************************)
(* RingBufferData seen as the record FIFO of module RecordFifo: the queue  *)
(* an observer could rebuild from the cursors, from the ring's memory and  *)
(* from where each producer stands.                                        *)
(***************************************************************************)
EXTENDS RingBufferData

(* The end of the space handed out so far. *)
Frontier ==
  IF IsCas THEN reserved
  ELSE IF \E p \in Producers : Open(p)
       THEN LET p == CHOOSE q \in Producers : Open(q) IN start[p] + want[p]
       ELSE tail

(* The FIFO of records this ring promises: what lies between head and the   *)
(* frontier, read off memory where published and off its producer where not.*)
EntryAt(x) ==
  IF x < tail
  THEN LET c == mem[Index(x)]
       IN  [by |-> c.by, len |-> c.len, st |-> IF c.dummy THEN "dummy" ELSE "record"]
  ELSE LET p == CHOOSE q \in Producers : Open(q) /\ start[q] = x
       IN  [by |-> {p}, len |-> want[p], st |-> "open"]

KnownAt(x) ==
  IF x < tail THEN mem[Index(x)].len > 0
  ELSE \E q \in Producers : Open(q) /\ start[q] = x

Records ==
  LET chain[x \in Nat] ==
        IF x >= Frontier \/ ~KnownAt(x) THEN <<>>
        ELSE LET e == EntryAt(x) IN <<e>> \o chain[x + e.len]
  IN  chain[head]

Held == \E r \in Readers : rpc[r] = "hold"

Fifo == INSTANCE RecordFifo
          WITH fifo <- Records, held <- Held, mayWithdraw <- ~IsCas

(* The ring implements the bounded record FIFO of module RecordFifo. *)
ImplementsFifo == Fifo!Spec
=============================================================================
