----------------------------- MODULE MCRedlock -----------------------------
(* Instances of Redlock for TLC. *)
EXTENDS Redlock, TLC

RedlockSymmetry == Permutations(Session) \cup Permutations(LockClient)

=============================================================================
