---------------------------- MODULE MCAttendance ----------------------------
(* Attendance on a small instance. *)
EXTENDS Attendance, TLC

Symmetry == Permutations(Sockets) \cup Permutations(Players)

(* Nothing here reads the worlds' lists of players: ChillZone checks them. *)
View == <<session, pvars, stale>>
=============================================================================
