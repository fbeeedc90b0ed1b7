---------------------------- MODULE MCAddresses ----------------------------
(* Small instances of Addresses; the sets are model values given in the cfg. *)
EXTENDS Addresses, TLC

Symmetric == Permutations(Ids) \cup Permutations(Callers)
=============================================================================
