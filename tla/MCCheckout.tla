----------------------------- MODULE MCCheckout -----------------------------
(* Small instances of Checkout for TLC: two SKUs, the same two lines in both  *)
(* orders, and a body whose two lines together take all there is of one SKU, *)
(* and the first again for another address.                                 *)
EXTENDS Checkout, TLC

CONSTANTS a, b, home, work

Item(s) == [sku |-> s, quantity |-> 1]

MCBodies ==
  {[address |-> home, items |-> i] :
     i \in {<<Item(a), Item(b)>>, <<Item(b), Item(a)>>, <<Item(a), Item(a)>>}}
    \cup {[address |-> work, items |-> <<Item(a), Item(b)>>]}

MCInitialStock == (a :> 2) @@ (b :> 1)
=============================================================================
