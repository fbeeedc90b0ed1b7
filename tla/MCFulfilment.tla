---------------------------- MODULE MCFulfilment ----------------------------
(* Small instances of Fulfilment; the sets are model values given in the cfg. *)
EXTENDS Fulfilment, TLC

\* Tracking numbers are interchangeable.
NumberSymmetry == Permutations(Numbers)
OrderSymmetry == Permutations(Orders)
Symmetric == NumberSymmetry \cup OrderSymmetry

CONSTANT n1

\* One parcel is the order's, with all that may happen to it; the other numbers
\* are mistyped ones, of parcels that stay on their way.
OthersOnTheirWay == \A n \in Numbers \ {n1} : parcel[n] = "in_transit"

MCFairSpec ==
  Init /\ [][Next /\ OthersOnTheirWay']_vars /\ PollFair /\ DailyFair
=============================================================================
