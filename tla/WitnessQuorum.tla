---------------------------- MODULE WitnessQuorum ----------------------------
(***************************************************************************)
(* The witness quorum of world/witness.ts and its handlers in index.ts:    *)
(* when a player's heat brings a penalty, players nearby are asked whether *)
(* the player looked human; the request is decided by the last answer or   *)
(* by its TTL.                                                             *)
(*                                                                         *)
(* Who logs in where belongs to Sessions; here a session is one login of   *)
(* one player, in the world on some map or not.  A candidate is chosen per *)
(* session, so a player with two sessions can fill two seats; radius and   *)
(* distance make any candidates the nearest ones.  Times are kept as what  *)
(* is left of them.  A message is handled at its own reading of the clock, *)
(* which may be later than the one its tick expired requests with, so      *)
(* Elapse may come between Expire and any handler.                         *)
(***************************************************************************)
EXTENDS Integers, FiniteSets, Sequences

CONSTANTS
    Players,        \* player ids
    Sessions,       \* sessions, each the login of one player
    PlayerOf,       \* the player of each session
    Suspects,       \* players whose heat brings penalties, to keep instances small
    Responses,      \* what a witness may say: confirm, deny, uncertain
    Maps,           \* Rookguard and Azura
    Away,           \* the place of a session that is not in the world
    Requests,       \* request ids, never used twice
    Ttl,            \* requestTtlMs, in units of the model's clock
    Grace,          \* GRACE_PERIOD_MS
    WitnessCooldown,\* witnessCooldownMs
    TargetCooldown, \* targetCooldownMs
    MaxWitnesses    \* maxWitnesses

ASSUME SessionAssumption ==
    /\ Players # {} /\ Maps # {}
    /\ Away \notin Maps /\ Responses \subseteq {"confirm", "deny", "uncertain"}
    /\ PlayerOf \in [Sessions -> Players] /\ Suspects \subseteq Players
ASSUME FiniteAssumption == IsFiniteSet(Sessions)
ASSUME TimeAssumption ==
    /\ Ttl \in Nat \ {0} /\ Grace \in Nat /\ MaxWitnesses \in Nat \ {0}
    /\ WitnessCooldown \in Nat /\ TargetCooldown \in Nat

VARIABLES
    place,      \* the map of each session in the world, Away for the others
    pending,    \* pendingRequests
    witnessCooldown,    \* witnessCooldownByPlayer: what is left of each
    targetCooldown,     \* targetCooldownByPlayer
    receipts,   \* what the receipts of each request say
    lost        \* auxiliary: requests that were open when the process ended

memory == <<pending, witnessCooldown, targetCooldown>>
vars == <<place, memory, receipts, lost>>

Answers == [Players -> Responses \cup {"none"}]

Outcomes == {"confirmed", "denied", "contested", "insufficient"}

(* A request in memory; "none" stands for an id that is not in the map. *)
Request == [status : {"none", "open", "resolved"}, target : Players, map : Maps,
            witnesses : SUBSET Players, seats : Nat, answers : Answers, left : -(Grace + 1)..Ttl]

NoAnswers == [p \in Players |-> "none"]

(* A request that was never made or that was deleted. *)
NoRequest == [status |-> "none", target |-> CHOOSE p \in Players : TRUE,
              map |-> CHOOSE m \in Maps : TRUE, witnesses |-> {}, seats |-> 0,
              answers |-> NoAnswers, left |-> 0]

(* witness_requested with its count, the accepted responses, the resolutions *)
Receipts == [seats : Nat, said : Answers, verdicts : Seq(Outcomes)]

NoReceipts == [seats |-> 0, said |-> NoAnswers, verdicts |-> <<>>]

-----------------------------------------------------------------------------
(* Helpers of the handlers *)

Said(answers, r) == {p \in Players : answers[p] = r}

Answered(answers) == {p \in Players : answers[p] # "none"}

(* computeQuorumOutcome *)
Outcome_CountsPlayers(seats, answers) ==
    IF Answered(answers) = {} THEN "insufficient"
    ELSE IF Said(answers, "confirm") # {} /\ Said(answers, "deny") # {} THEN "contested"
    ELSE IF Said(answers, "confirm") = Answered(answers) THEN "confirmed"
    ELSE IF Said(answers, "deny") = Answered(answers) THEN "denied"
    ELSE "insufficient"

Outcome(seats, answers) ==
    IF Cardinality(Answered(answers)) < seats THEN "insufficient"
    ELSE IF Said(answers, "confirm") # {} /\ Said(answers, "deny") # {} THEN "contested"
    ELSE IF Cardinality(Said(answers, "confirm")) = seats THEN "confirmed"
    ELSE IF Cardinality(Said(answers, "deny")) = seats THEN "denied"
    ELSE "insufficient"

(* emitQuorumResolutionReceipt *)
Verdict(seats, answers) == <<Outcome(seats, answers)>>

Expired_OneLater(q) == q.left < 0

(* isWitnessRequestExpired *)
Expired(q) == q.left <= 0

AllResponded(q) == Cardinality(Answered(q.answers)) = q.seats

(* getUnresolvedExpiredRequests *)
UnresolvedExpired_OnlyAnswered(r) ==
    pending[r].status = "open" /\ pending[r].left <= 0 /\ Answered(pending[r].answers) # {}

UnresolvedExpired(r) == pending[r].status = "open" /\ pending[r].left <= 0

Resolved_StaysOpen(q) == q

(* tryResolveQuorum marks the request *)
Resolved(q) == [q EXCEPT !.status = "resolved"]

Candidates_TargetToo(p, m) == {s \in Sessions : place[s] = m /\ witnessCooldown[PlayerOf[s]] = 0}

(* The sessions selectWitnesses may choose for target p on map m. *)
Candidates(p, m) ==
    {s \in Sessions : place[s] = m /\ PlayerOf[s] # p /\ witnessCooldown[PlayerOf[s]] = 0}

OnCooldown_Witness(p) == witnessCooldown[p] > 0

(* isTargetOnCooldown *)
OnCooldown(p) == targetCooldown[p] > 0

-----------------------------------------------------------------------------
Init ==
    /\ place = [s \in Sessions |-> Away]
    /\ pending = [r \in Requests |-> NoRequest]
    /\ witnessCooldown = [p \in Players |-> 0]
    /\ targetCooldown = [p \in Players |-> 0]
    /\ receipts = [r \in Requests |-> NoReceipts]
    /\ lost = {}

(* A session enters the world, passes a gate or leaves. *)
Move(s, m) ==
    /\ place' = [place EXCEPT ![s] = m]
    /\ UNCHANGED <<memory, receipts, lost>>

(* maybeRequestWitnesses, from the heat penalty of session t *)
RequestWitnesses(t, r, W) ==
    LET p == PlayerOf[t] asked == {PlayerOf[s] : s \in W} IN
    /\ place[t] # Away /\ p \in Suspects
    /\ receipts[r].seats = 0
    /\ ~OnCooldown(p)
    /\ W # {} /\ W \subseteq Candidates(p, place[t]) /\ Cardinality(W) <= MaxWitnesses
    /\ pending' = [pending EXCEPT ![r] =
            [status |-> "open", target |-> p, map |-> place[t], witnesses |-> asked,
             seats |-> Cardinality(W), answers |-> NoAnswers, left |-> Ttl]]
    /\ witnessCooldown' =
            [v \in Players |-> IF v \in asked THEN WitnessCooldown ELSE witnessCooldown[v]]
    /\ targetCooldown' = [targetCooldown EXCEPT ![p] = TargetCooldown]
    /\ receipts' = [receipts EXCEPT ![r].seats = Cardinality(W)]
    /\ UNCHANGED <<place, lost>>

(* The guards of tem_witness_response, in the order of the handler. *)
MayAnswer(s, r) ==
    LET q == pending[r] p == PlayerOf[s] IN
    /\ q.status # "none"
    /\ ~Expired(q)
    /\ p \in q.witnesses
    /\ q.answers[p] = "none"
    /\ place[s] = q.map

(* tem_witness_response: the receipt is written before recordWitnessResponse *)
(* looks at the request again and refuses an answer to a resolved one.       *)
Answer(s, r, v) ==
    LET p == PlayerOf[s]
        heard == pending[r].status = "open"
        q == [pending[r] EXCEPT !.answers[p] = v]
    IN
    /\ MayAnswer(s, r)
    /\ pending' = IF ~heard THEN pending
                  ELSE [pending EXCEPT ![r] = IF AllResponded(q) THEN Resolved(q) ELSE q]
    /\ receipts' = [receipts EXCEPT ![r] =
            [receipts[r] EXCEPT !.said[p] = v,
                      !.verdicts = IF heard /\ AllResponded(q)
                                   THEN @ \o Verdict(q.seats, q.answers) ELSE @]]
    /\ UNCHANGED <<place, witnessCooldown, targetCooldown, lost>>

(* cleanupExpiredRequests, after the expired ones were resolved *)
Forgotten(q) == q.status = "resolved" /\ q.left < -Grace

(* The head of every tick. *)
Expire ==
    /\ pending' = [r \in Requests |->
            LET q == IF UnresolvedExpired(r) THEN Resolved(pending[r]) ELSE pending[r]
            IN  IF Forgotten(q) THEN NoRequest ELSE q]
    /\ receipts' = [r \in Requests |->
            IF UnresolvedExpired(r)
            THEN [receipts[r] EXCEPT !.verdicts = @ \o Verdict(pending[r].seats, pending[r].answers)]
            ELSE receipts[r]]
    /\ UNCHANGED <<place, witnessCooldown, targetCooldown, lost>>

Less(n) == IF n > 0 THEN n - 1 ELSE n

(* A unit of time; a request counts on until it can be forgotten. *)
Elapse ==
    /\ pending' = [r \in Requests |->
            IF pending[r].status # "none" /\ pending[r].left >= -Grace
            THEN [pending[r] EXCEPT !.left = @ - 1] ELSE pending[r]]
    /\ witnessCooldown' = [p \in Players |-> Less(witnessCooldown[p])]
    /\ targetCooldown' = [p \in Players |-> Less(targetCooldown[p])]
    /\ UNCHANGED <<place, receipts, lost>>

(* Nothing of this is persisted: a restart forgets requests and cooldowns. *)
Restart ==
    /\ place' = [s \in Sessions |-> Away]
    /\ pending' = [r \in Requests |-> NoRequest]
    /\ witnessCooldown' = [p \in Players |-> 0]
    /\ targetCooldown' = [p \in Players |-> 0]
    /\ lost' = lost \cup {r \in Requests : pending[r].status = "open"}
    /\ UNCHANGED receipts

Next ==
    \/ \E s \in Sessions, m \in Maps \cup {Away} : Move(s, m)
    \/ \E t \in Sessions, r \in Requests, W \in SUBSET Sessions : RequestWitnesses(t, r, W)
    \/ \E s \in Sessions, r \in Requests, v \in Responses : Answer(s, r, v)
    \/ Expire
    \/ Elapse
    \/ Restart

(* The tick and the clock go on; players owe no answer. *)
Fairness == WF_vars(Expire) /\ WF_vars(Elapse)

Spec == Init /\ [][Next]_vars

FairSpec == Spec /\ Fairness

-----------------------------------------------------------------------------
(* Witnesses are not the target, and only they answer. *)
WellFormed(q) ==
    /\ q.target \notin q.witnesses
    /\ Answered(q.answers) \subseteq q.witnesses
    /\ Cardinality(q.witnesses) <= q.seats

(* The types, and that a request in memory asks others than its target and  *)
(* no more players than it has seats.                                        *)
TypeOK ==
    /\ place \in [Sessions -> Maps \cup {Away}]
    /\ pending \in [Requests -> Request]
    /\ witnessCooldown \in [Players -> 0..WitnessCooldown]
    /\ targetCooldown \in [Players -> 0..TargetCooldown]
    /\ receipts \in [Requests -> Receipts]
    /\ lost \subseteq Requests
    /\ \A r \in Requests : WellFormed(pending[r])

(* Every answer that got an ok receipt counts in the outcome, also when it   *)
(* arrives in the tick in which the TTL runs out: witness.ts decides with    *)
(* the answers in memory, the receipts are what a player can show.           *)
AnswersCounted ==
    \A r \in Requests : receipts[r].verdicts # <<>> =>
        receipts[r].verdicts = Verdict(receipts[r].seats, receipts[r].said)

(* A player is confirmed or denied only by as many different players as      *)
(* seats were filled: two sessions of one player never make a verdict.       *)
VerdictNeedsDistinctPlayers ==
    \A r \in Requests : \A v \in {"confirm", "deny"} :
        receipts[r].verdicts = <<IF v = "confirm" THEN "confirmed" ELSE "denied">> =>
            /\ Cardinality(Said(receipts[r].said, v)) = receipts[r].seats
            /\ Answered(receipts[r].said) = Said(receipts[r].said, v)

(* While the target cooldown outlasts the TTL, as it does by default, nobody *)
(* is judged by two requests at once.                                        *)
OneRequestPerTarget ==
    TargetCooldown >= Ttl =>
        \A r1, r2 \in Requests :
            /\ r1 # r2
            /\ pending[r1].status # "none" /\ ~(pending[r1].left <= 0)
            /\ pending[r2].status # "none" /\ ~(pending[r2].left <= 0)
            => pending[r1].target # pending[r2].target

(* What the log says of a request follows the abstract vote: one answer per  *)
(* player, one decision, by all that was said.                               *)
Vote == INSTANCE QuorumVote WITH
            Questions <- Requests, Voters <- Players, MaxSeats <- MaxWitnesses,
            Ballots <- Responses, NoBallot <- "none", Undecided <- <<>>,
            Verdict <- Verdict,
            seats <- [r \in Requests |-> receipts[r].seats],
            ballot <- [r \in Requests |-> receipts[r].said],
            verdict <- [r \in Requests |-> receipts[r].verdicts]

KeepsVote == Vote!Spec

(* Every request is decided, by its TTL when an answer never comes (a        *)
(* witness left, or holds two of its seats), unless the process ends first;  *)
(* and its entry of the map is given back.                                   *)
RequestsEnd ==
    \A r \in Requests : pending[r].status # "none" ~>
        /\ pending[r].status = "none"
        /\ receipts[r].verdicts # <<>> \/ r \in lost

=============================================================================
