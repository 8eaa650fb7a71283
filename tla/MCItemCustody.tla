---------------------------- MODULE MCItemCustody ----------------------------
(* ItemCustody on a small instance; players and items are interchangeable.   *)
EXTENDS ItemCustody, TLC

Symmetry == Permutations(Players) \cup Permutations(Items)
===============================================================================
