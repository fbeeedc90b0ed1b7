--------------------------- MODULE MCCategoryTree ---------------------------
(* Small instances of CategoryTree; the sets are given in the cfg. *)
EXTENDS CategoryTree, TLC

Symmetric == Permutations(Categories)
=============================================================================
