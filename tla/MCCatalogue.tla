----------------------------- MODULE MCCatalogue -----------------------------
(* Small instances of Catalogue. *)
EXTENDS Catalogue, TLC

CONSTANTS p1, s1

\* A product and a SKU to begin with; their names are interchangeable.
MCInit == InitWith(p1, s1)
MCSpec == MCInit /\ [][Next]_vars

\* Races of two: at most two of the tabs and the checkout hold something that
\* was read before, one beside a second product. A form overwrote one row at
\* most.
Created == {p \in Products \ {p1} : chosen[p] # "absent"}
TwoAtATime ==
  /\ Cardinality({a \in Admins : page[a].at # "list" \/ page[a].shown # status})
       + Cardinality({b \in Buyers : buying[b] # NoItems}) + Cardinality(Created) <= 2
  /\ Cardinality(lost) + Cardinality(Created) <= 1

Symmetric == Permutations(Admins)
=============================================================================
