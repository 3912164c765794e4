---------------------------- MODULE MCRecvNotify ----------------------------
(* Instances of the wake-up protocol for TLC. *)
EXTENDS RecvNotify, TLC

CONSTANTS c1, c2, d1, d2

OneClient == {c1}
TwoClients == {c1, c2}
OneCallout == {d1}
TwoCallouts == {d1, d2}
OneCore == {0}
TwoCores == {0, 1}
(* poll_multi_threads deals the cores out; one thread has them all. *)
AllCores == [c \in Clients |-> Cores]
OneCoreEach == [c \in Clients |-> IF c = c1 THEN {0} ELSE {1}]

(* Machines that keep a store before the loads that follow it, or do not. *)
InOrder == {FALSE}
AnyMachine == {FALSE, TRUE}
=============================================================================
