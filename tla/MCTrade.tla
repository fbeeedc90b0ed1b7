------------------------------ MODULE MCTrade ------------------------------
(* Small instances of Trade for TLC. *)
EXTENDS Trade, TLC

CONSTANTS h1, h2, h3, o1

\* Every payment belongs to the one order.
MCOwnerOf == [p \in Payments |-> CHOOSE o \in Orders : TRUE]

\* The slots do the same work, so they are interchangeable.
Slots == Permutations({h1, h2})
ThreeSlots == Permutations({h1, h2, h3})
=============================================================================
