----------------------------- MODULE MCLockedRing -----------------------------
(* Instances of the locked ring for TLC. *)
EXTENDS LockedRingOrder

CONSTANTS t1, t2

TwoThreads == {t1, t2}

(* Machines that keep a store before the loads that follow it, or do not. *)
InOrder == {FALSE}
AnyMachine == {FALSE, TRUE}
=============================================================================
