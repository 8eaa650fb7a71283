---------------------------- MODULE MCHouseDurable ----------------------------
(* HouseDurable on a small instance. *)
EXTENDS HouseDurable

CONSTANTS p1, p2, p3

ThreePlayers == {p1, p2, p3}
MCTerms == {1}
MCBids == {1, 2}
Symmetry == Permutations(Players)

(* A run is not followed after a survived fsync, which all properties exempt. *)
AllSeenSoFar == "written" \notin survived
===============================================================================
