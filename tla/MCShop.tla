-------------------------------- MODULE MCShop --------------------------------
(* Small instances of Shop. *)
EXTENDS Shop, TLC

CONSTANT MaxTrouble

\* What complicates a state: SKUs that are not on sale, a session that ended,
\* calls under way (more so when their page was left), muddled SKUs, orders
\* and tabs on a page.
Trouble ==
  Cardinality({s \in Skus : avail[s] # "onSale"}) + (IF signedIn THEN 0 ELSE 1)
    + Cardinality({i \in Slots : calls[i] # NoCall})
    + Cardinality({i \in Slots : calls[i] # NoCall /\ ~calls[i].here})
    + Cardinality(muddled) + Cardinality({k \in Keys : orders[k] # None})
    + Cardinality({t \in Tabs : page[t].at # "home"})

\* The cart holds a full line or one unit of each SKU, and one tab at a time is
\* on another page than a product's.
Bounded ==
  /\ Cardinality({t \in Tabs : page[t].at \notin {"home", "product"}}) <= 1
  /\ Trouble <= MaxTrouble
  /\ \A s \in Skus : cart[s] < MaxQuantity \/ In(cart) = {s}

Symmetric == Permutations(Skus) \cup Permutations(Tabs) \cup Permutations(Slots) \cup Permutations(Addresses)
=============================================================================
