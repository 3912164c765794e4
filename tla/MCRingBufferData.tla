--------------------------- MODULE MCRingBufferData ---------------------------
(* Instances of one ring for TLC. *)
EXTENDS RingBufferFifo

CONSTANTS p1, p2, r1, r2

TwoProducers == {p1, p2}
OneProducer == {p1}
OneReader == {r1}
TwoReaders == {r1, r2}

BothModes == {"cas", "core"}
CasMode == {"cas"}

(* The CAS ring is followed through one turn and the wrap of the next         *)
(* record, the per-core ring twice round.                                     *)
TurnsByMode == [m \in BothModes |-> IF m = "cas" THEN 3 ELSE 9]
OneTurn == [m \in CasMode |-> 4]

NoPreemption == {}
(* p2 is a DPC that may interrupt p1 on p1's own processor. *)
DpcOverThread == {<<p2, p1>>}
=============================================================================
