------------------------------ MODULE MCFleet ------------------------------
(* Instances of Fleet for TLC. *)
EXTENDS Fleet, TLC

CONSTANTS b1, s1

\* A batch of two tasks, and a single submission.
MCSize == [r \in Request |-> IF r = b1 THEN 2 ELSE 1]

JobAndGatewaySymmetry == Permutations(Job) \cup Permutations(Gateway)

=============================================================================
