------------------------------ MODULE MCOutbox ------------------------------
(* Small instances of Outbox for TLC. *)
EXTENDS Outbox, TLC

CONSTANTS d1, d2

\* Dispatchers are interchangeable.
Replicas == Permutations({d1, d2})
=============================================================================
