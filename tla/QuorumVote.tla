----------------------------- MODULE QuorumVote -----------------------------
(***************************************************************************)
(* What the receipts of the witness quorum promise to whoever audits them: *)
(* a question is put to a number of witnesses, each says one thing while   *)
(* it is open, and it is decided at most once, by all that was said.       *)
(* This module models no code.                                             *)
(***************************************************************************)
EXTENDS Integers

CONSTANTS
    Questions,      \* what is voted on
    Voters,         \* who may vote
    MaxSeats,       \* how many witnesses are asked at most
    Ballots,        \* what a voter may say
    NoBallot,       \* the ballot of a voter who said nothing
    Undecided,      \* the verdict of an open question
    Verdict(_, _)   \* Verdict(n, b): what the ballots b of n witnesses decide

VARIABLES
    seats,      \* seats[q]: how many witnesses were asked, 0 before they are
    ballot,     \* ballot[q][v]: what v said on q
    verdict     \* verdict[q]: the decision on q

Init ==
    /\ seats = [q \in Questions |-> 0]
    /\ ballot = [q \in Questions |-> [v \in Voters |-> NoBallot]]
    /\ verdict = [q \in Questions |-> Undecided]

Open(q) == seats[q] > 0 /\ verdict[q] = Undecided

Ask(q, n) ==
    /\ seats[q] = 0
    /\ seats' = [seats EXCEPT ![q] = n]
    /\ UNCHANGED <<ballot, verdict>>

(* The last ballot may be counted in the step that casts it. *)
Cast(q, v, b) ==
    /\ Open(q) /\ ballot[q][v] = NoBallot
    /\ ballot' = [ballot EXCEPT ![q][v] = b]
    /\ \/ UNCHANGED verdict
       \/ verdict' = [verdict EXCEPT ![q] = Verdict(seats[q], ballot'[q])]
    /\ UNCHANGED seats

(* Questions whose time is up are decided together. *)
Close(Q) ==
    /\ \A q \in Q : Open(q)
    /\ verdict' = [q \in Questions |-> IF q \in Q THEN Verdict(seats[q], ballot[q]) ELSE verdict[q]]
    /\ UNCHANGED <<seats, ballot>>

Next ==
    \/ \E q \in Questions, n \in 1..MaxSeats : Ask(q, n)
    \/ \E q \in Questions, v \in Voters, b \in Ballots : Cast(q, v, b)
    \/ \E Q \in SUBSET Questions : Close(Q)

Spec == Init /\ [][Next]_<<seats, ballot, verdict>>
=============================================================================
