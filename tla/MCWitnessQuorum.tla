--------------------------- MODULE MCWitnessQuorum ---------------------------
(* WitnessQuorum on a small instance: a target, a witness who may be logged  *)
(* in twice and another witness.                                             *)
EXTENDS WitnessQuorum, TLC

CONSTANTS t, v, w, st, sv1, sv2, sw

MCPlayers == {t, v, w}
MCSessions == {st, sv1, sv2, sw}
MCPlayerOf == (st :> t) @@ (sv1 :> v) @@ (sv2 :> v) @@ (sw :> w)
===============================================================================
