----------------------------- MODULE MCChillZone -----------------------------
(* ChillZone on a small instance. *)
EXTENDS ChillZone
===============================================================================
