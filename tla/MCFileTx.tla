------------------------------- MODULE MCFileTx -------------------------------
(* Instances of the suspended file operation for TLC. *)
EXTENDS FileTx, TLC

CONSTANTS o1, o2

OneOp == {o1}
TwoOps == {o1, o2}
=============================================================================
