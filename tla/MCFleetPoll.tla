---------------------------- MODULE MCFleetPoll ----------------------------
(* Instances of FleetPoll for TLC. *)
EXTENDS FleetPoll

\* One batch of two tasks.
MCSize == [r \in Request |-> 2]

=============================================================================
