----------------------------- MODULE MCSession ------------------------------
(* Small instances of Session for TLC. *)
EXTENDS SessionProps, TLC

\* The controller connects a second time, the agent once.
ControllerTwice == [p \in Programs |-> IF p = "client" THEN 2 ELSE 1]

ConnSymmetry == Permutations(Conns)
=============================================================================
