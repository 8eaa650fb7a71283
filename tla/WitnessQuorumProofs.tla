------------------------ MODULE WitnessQuorumProofs ------------------------
(***************************************************************************)
(* What WitnessQuorum checks on a small instance, for any numbers of       *)
(* players, sessions and requests and any durations.                       *)
(***************************************************************************)
EXTENDS WitnessQuorum, FiniteSetTheorems, TLAPS

(* What is in memory of a request is what its receipts say; once decided, no *)
(* answer to it can be accepted any more.                                    *)
Faithful(q, rc) ==
    /\ q.status # "none" => rc.seats = q.seats /\ rc.said = q.answers
    /\ IsFiniteSet(q.witnesses)
    /\ q.status = "open" => rc.verdicts = <<>>
    /\ q.status = "resolved" => rc.verdicts # <<>> /\ (AllResponded(q) \/ Expired(q))
    /\ rc.seats = 0 => q.status = "none" /\ rc = NoReceipts

(* What the receipts of a request say by themselves. *)
Counted(rc) ==
    /\ rc.verdicts # <<>> => rc.verdicts = Verdict(rc.seats, rc.said)
    /\ IsFiniteSet(Answered(rc.said))
    /\ Cardinality(Answered(rc.said)) <= rc.seats

(* A request that can still be answered keeps its target on cooldown. *)
CooldownCovers ==
    TargetCooldown >= Ttl => \A r \in Requests :
        pending[r].status # "none" /\ pending[r].left > 0 =>
            targetCooldown[pending[r].target] >= pending[r].left

QuorumInvariant ==
    /\ TypeOK
    /\ \A r \in Requests : Faithful(pending[r], receipts[r]) /\ Counted(receipts[r])
    /\ CooldownCovers
    /\ OneRequestPerTarget

USE SessionAssumption, FiniteAssumption, TimeAssumption

-----------------------------------------------------------------------------
(* Verdicts, and requests nobody made *)

(* A verdict is one outcome, and the first thing written. *)
LEMMA VerdictIsOne ==
    ASSUME NEW n, NEW a
    PROVE  /\ Verdict(n, a) \in Seq(Outcomes)
           /\ Verdict(n, a) # <<>>
           /\ <<>> \o Verdict(n, a) = Verdict(n, a)
<1>1. Outcome(n, a) \in Outcomes
  BY DEF Outcome, Outcomes
<1>. QED
  BY <1>1 DEF Verdict

(* Nobody answered before anybody is asked. *)
LEMMA NobodyAnswered == Answered(NoAnswers) = {}
BY DEF Answered, NoAnswers

(* An id without a request is well formed. *)
LEMMA NoRequestFits ==
    /\ NoRequest \in Request /\ WellFormed(NoRequest)
    /\ Faithful(NoRequest, NoReceipts)
<1>1. (CHOOSE p \in Players : TRUE) \in Players /\ (CHOOSE m \in Maps : TRUE) \in Maps
  OBVIOUS
<1>2. NoRequest \in Request
  BY <1>1 DEF NoRequest, Request, Answers, NoAnswers
<1>3. WellFormed(NoRequest)
  BY NobodyAnswered, FS_EmptySet DEF NoRequest, WellFormed
<1>4. Faithful(NoRequest, NoReceipts)
  BY FS_EmptySet DEF Faithful, NoRequest, NoReceipts
<1>. QED
  BY <1>2, <1>3, <1>4

(* A request whose witnesses all answered can be answered by nobody else. *)
LEMMA NobodyLeft ==
    ASSUME NEW q \in Request, WellFormed(q), IsFiniteSet(q.witnesses), AllResponded(q),
           NEW p \in q.witnesses
    PROVE  q.answers[p] # "none"
<1>1. Answered(q.answers) = q.witnesses
  BY FS_Subset, FS_CardinalityType DEF WellFormed, AllResponded, Request
<1>. QED
  BY <1>1 DEF Answered

(* Marking a request changes nothing else of it. *)
LEMMA ResolvedFits ==
    ASSUME NEW q \in Request, WellFormed(q)
    PROVE  /\ Resolved(q) \in Request /\ WellFormed(Resolved(q))
           /\ Resolved(q).status = "resolved" /\ Resolved(q).left = q.left
           /\ Resolved(q).target = q.target /\ Resolved(q).witnesses = q.witnesses
           /\ Resolved(q).answers = q.answers /\ Resolved(q).seats = q.seats
<1>1. /\ Resolved(q) \in Request
      /\ Resolved(q).status = "resolved" /\ Resolved(q).left = q.left
      /\ Resolved(q).target = q.target /\ Resolved(q).witnesses = q.witnesses
      /\ Resolved(q).answers = q.answers /\ Resolved(q).seats = q.seats
  BY DEF Resolved, Request
<1>. QED
  BY <1>1 DEF WellFormed

-----------------------------------------------------------------------------
LEMMA QuorumInit == Init => QuorumInvariant
<1>. SUFFICES ASSUME Init PROVE QuorumInvariant
  OBVIOUS
<1>1. TypeOK
  BY NoRequestFits DEF Init, TypeOK, Receipts, NoReceipts, Answers, NoAnswers
<1>2. \A r \in Requests : Faithful(pending[r], receipts[r])
  BY NoRequestFits DEF Init, NoReceipts
<1>3. Counted(NoReceipts)
  BY NobodyAnswered, FS_EmptySet DEF Counted, NoReceipts
<1>4. CooldownCovers /\ OneRequestPerTarget
  BY DEF Init, NoRequest, CooldownCovers, OneRequestPerTarget
<1>. QED
  BY <1>1, <1>2, <1>3, <1>4 DEF Init, QuorumInvariant

(* What a session does by moving. *)
LEMMA MoveKeeps ==
    ASSUME QuorumInvariant, NEW s \in Sessions, NEW m \in Maps \cup {Away}, Move(s, m)
    PROVE  QuorumInvariant'
BY DEF QuorumInvariant, Move, memory, TypeOK, CooldownCovers, OneRequestPerTarget

(* Asking fills no more seats than sessions and asks nobody twice. *)
LEMMA AskedPlayers ==
    ASSUME NEW X \in SUBSET Sessions
    PROVE  LET asked == {PlayerOf[s] : s \in X}
           IN  /\ IsFiniteSet(X) /\ IsFiniteSet(asked) /\ Cardinality(X) \in Nat
               /\ Cardinality(asked) <= Cardinality(X) /\ (X # {} => Cardinality(X) > 0)
<1>. DEFINE asked == {PlayerOf[s] : s \in X}
            f == [s \in X |-> PlayerOf[s]]
<1>1. IsFiniteSet(X) /\ Cardinality(X) \in Nat /\ (X # {} => Cardinality(X) > 0)
  BY FS_Subset, FS_CardinalityType, FS_EmptySet
<1>2. f \in Surjection(X, asked)
  BY DEF Surjection
<1>. QED
  BY <1>1, <1>2, FS_Surjection

LEMMA RequestKeeps ==
    ASSUME QuorumInvariant, NEW t \in Sessions, NEW r \in Requests, NEW X \in SUBSET Sessions,
           RequestWitnesses(t, r, X)
    PROVE  QuorumInvariant'
<1>. DEFINE p == PlayerOf[t]
            asked == {PlayerOf[s] : s \in X}
            q == [status |-> "open", target |-> p, map |-> place[t], witnesses |-> asked,
                  seats |-> Cardinality(X), answers |-> NoAnswers, left |-> Ttl]
<1>1. /\ p \in Players /\ place[t] \in Maps /\ asked \subseteq Players /\ p \notin asked
      /\ X # {} /\ receipts[r].seats = 0 /\ targetCooldown[p] = 0
  BY DEF QuorumInvariant, TypeOK, RequestWitnesses, Candidates, OnCooldown
<1>2. /\ IsFiniteSet(asked) /\ Cardinality(X) \in Nat \ {0} /\ Cardinality(asked) <= Cardinality(X)
  BY <1>1, AskedPlayers
<1>3. /\ pending' = [pending EXCEPT ![r] = q]
      /\ pending'[r] = q /\ \A o \in Requests \ {r} : pending'[o] = pending[o]
  BY DEF RequestWitnesses, QuorumInvariant, TypeOK
<1>4. /\ receipts[r] = NoReceipts
      /\ receipts'[r] = [NoReceipts EXCEPT !.seats = Cardinality(X)]
      /\ \A o \in Requests \ {r} : receipts'[o] = receipts[o]
  BY <1>1 DEF RequestWitnesses, QuorumInvariant, TypeOK, Faithful
<1>5. q \in Request /\ WellFormed(q)
  BY <1>1, <1>2, NobodyAnswered DEF Request, WellFormed, Answers, NoAnswers
<1>6. TypeOK'
  <2>1. receipts' \in [Requests -> Receipts]
    BY <1>2, <1>4 DEF RequestWitnesses, QuorumInvariant, TypeOK, Receipts, NoReceipts
  <2>2. pending' \in [Requests -> Request] /\ \A o \in Requests : WellFormed(pending'[o])
    BY <1>3, <1>5 DEF QuorumInvariant, TypeOK
  <2>3. /\ place' \in [Sessions -> Maps \cup {Away}] /\ lost' \subseteq Requests
        /\ witnessCooldown' \in [Players -> 0..WitnessCooldown]
        /\ targetCooldown' \in [Players -> 0..TargetCooldown]
    BY DEF RequestWitnesses, QuorumInvariant, TypeOK
  <2>. QED
    BY <2>1, <2>2, <2>3 DEF TypeOK
<1>7. Faithful(q, receipts'[r])
  BY <1>2, <1>4 DEF Faithful, NoReceipts
<1>8. Counted(receipts'[r])
  <2>1. receipts'[r].verdicts = <<>> /\ Answered(receipts'[r].said) = {} /\ receipts'[r].seats \in Nat
    BY <1>2, <1>4, NobodyAnswered DEF NoReceipts
  <2>. QED
    BY <2>1, FS_EmptySet DEF Counted
<1>9. targetCooldown'[p] = TargetCooldown /\ \A v \in Players \ {p} : targetCooldown'[v] = targetCooldown[v]
  BY <1>1 DEF RequestWitnesses, QuorumInvariant, TypeOK
<1>10. CooldownCovers'
  <2>. SUFFICES ASSUME TargetCooldown >= Ttl, NEW o \in Requests,
                       pending'[o].status # "none", pending'[o].left > 0
                PROVE  targetCooldown'[pending'[o].target] >= pending'[o].left
    BY DEF CooldownCovers
  <2>1. CASE o = r
    BY <2>1, <1>3, <1>9
  <2>2. CASE o # r
    <3>1. targetCooldown[pending[o].target] >= pending[o].left /\ pending[o].target # p
      BY <2>2, <1>1, <1>3 DEF QuorumInvariant, CooldownCovers, TypeOK, Request
    <3>. QED
      BY <2>2, <3>1, <1>3, <1>9 DEF QuorumInvariant, TypeOK, Request
  <2>. QED
    BY <2>1, <2>2
<1>11. OneRequestPerTarget'
  <2>. SUFFICES ASSUME TargetCooldown >= Ttl, NEW r1 \in Requests, NEW r2 \in Requests, r1 # r2,
                       pending'[r1].status # "none", ~(pending'[r1].left <= 0),
                       pending'[r2].status # "none", ~(pending'[r2].left <= 0)
                PROVE  pending'[r1].target # pending'[r2].target
    BY DEF OneRequestPerTarget
  <2>1. \A o \in Requests \ {r} : pending[o].status # "none" /\ ~(pending[o].left <= 0)
                                  => pending[o].target # p
    BY <1>1 DEF QuorumInvariant, CooldownCovers, TypeOK, Request
  <2>2. CASE r1 # r /\ r2 # r
    BY <2>2, <1>3 DEF QuorumInvariant, OneRequestPerTarget
  <2>3. CASE r1 = r \/ r2 = r
    BY <2>1, <2>3, <1>3
  <2>. QED
    BY <2>2, <2>3
<1>. QED
  BY <1>3, <1>4, <1>6, <1>7, <1>8, <1>10, <1>11 DEF QuorumInvariant

(* An answer that is accepted is heard: nobody can answer a decided request. *)
LEMMA AcceptedIsHeard ==
    ASSUME QuorumInvariant, NEW s \in Sessions, NEW r \in Requests, MayAnswer(s, r)
    PROVE  pending[r].status = "open" /\ PlayerOf[s] \in Players
<1>. DEFINE q == pending[r]
<1>1. q \in Request /\ q.status # "none" /\ ~Expired(q) /\ WellFormed(q)
  BY DEF MayAnswer, QuorumInvariant, TypeOK
<1>2. Faithful(q, receipts[r])
  BY DEF QuorumInvariant
<1>3. PlayerOf[s] \in q.witnesses /\ q.answers[PlayerOf[s]] = "none"
  BY DEF MayAnswer
<1>4. ~AllResponded(q)
  BY <1>1, <1>2, <1>3, NobodyLeft DEF Faithful
<1>. QED
  BY <1>1, <1>2, <1>4 DEF Faithful, Request

(* The answers with one more, the request with them, and its verdict if that *)
(* was the last one.                                                         *)
NewAnswers(r, p, v) == [pending[r].answers EXCEPT ![p] = v]

NewRequest(r, p, v) == [pending[r] EXCEPT !.answers = NewAnswers(r, p, v)]

NewVerdicts(r, p, v) ==
    IF AllResponded(NewRequest(r, p, v)) THEN Verdict(pending[r].seats, NewAnswers(r, p, v)) ELSE <<>>

(* What an answer writes, in memory and in the receipts. *)
LEMMA AnswerWrites ==
    ASSUME QuorumInvariant, NEW s \in Sessions, NEW r \in Requests, NEW v \in Responses,
           Answer(s, r, v)
    PROVE  LET p == PlayerOf[s] q == NewRequest(r, p, v) IN
           /\ p \in Players /\ pending[r].status = "open" /\ pending[r].answers[p] = "none"
           /\ p \in pending[r].witnesses
           /\ receipts[r].seats = pending[r].seats /\ receipts[r].seats \in Nat \ {0}
           /\ receipts[r].said = pending[r].answers /\ receipts[r].verdicts = <<>>
           /\ pending' = [pending EXCEPT ![r] = IF AllResponded(q) THEN Resolved(q) ELSE q]
           /\ \A o \in Requests \ {r} : receipts'[o] = receipts[o]
           /\ receipts' \in [Requests -> Receipts]
           /\ receipts'[r].seats = pending[r].seats
           /\ receipts'[r].said = NewAnswers(r, p, v)
           /\ receipts'[r].verdicts = NewVerdicts(r, p, v)
           /\ UNCHANGED <<place, witnessCooldown, targetCooldown, lost>>
<1>. DEFINE p == PlayerOf[s]
            q == NewRequest(r, p, v)
            X == [receipts[r] EXCEPT !.said = NewAnswers(r, p, v), !.verdicts = NewVerdicts(r, p, v)]
<1>1. /\ p \in Players /\ pending[r] \in Request /\ receipts[r] \in Receipts
      /\ pending[r].status = "open" /\ Faithful(pending[r], receipts[r])
      /\ pending[r].answers[p] = "none" /\ p \in pending[r].witnesses
  BY AcceptedIsHeard DEF Answer, MayAnswer, QuorumInvariant, TypeOK
<1>2. /\ receipts[r].said = pending[r].answers /\ receipts[r].verdicts = <<>>
      /\ receipts[r].seats = pending[r].seats /\ receipts[r].seats \in Nat \ {0}
  BY <1>1 DEF Faithful, Receipts
<1>3. /\ q = [pending[r] EXCEPT !.answers[p] = v]
      /\ q.answers = NewAnswers(r, p, v) /\ q.seats = pending[r].seats
  BY <1>1 DEF Request, NewRequest, NewAnswers
<1>4. /\ NewVerdicts(r, p, v) \in Seq(Outcomes) /\ NewAnswers(r, p, v) \in Answers
      /\ NewVerdicts(r, p, v) = IF AllResponded(q) THEN <<>> \o Verdict(q.seats, q.answers) ELSE <<>>
  BY <1>1, <1>3, VerdictIsOne DEF NewVerdicts, NewAnswers, Request, Answers
<1>5. receipts' = [receipts EXCEPT ![r] =
           [receipts[r] EXCEPT !.said[p] = v,
                     !.verdicts = IF AllResponded(q) THEN @ \o Verdict(q.seats, q.answers) ELSE @]]
  BY <1>1, <1>3 DEF Answer
<1>6. receipts' = [receipts EXCEPT ![r] = X]
  <2>1. X = [receipts[r] EXCEPT !.said[p] = v,
                 !.verdicts = IF AllResponded(q) THEN @ \o Verdict(q.seats, q.answers) ELSE @]
    <3>1. NewAnswers(r, p, v) = [receipts[r].said EXCEPT ![p] = v]
      BY <1>2 DEF NewAnswers
    <3>2. NewVerdicts(r, p, v) = IF AllResponded(q) THEN receipts[r].verdicts \o Verdict(q.seats, q.answers)
                                 ELSE receipts[r].verdicts
      BY <1>2, <1>4
    <3>. QED
      BY <3>1, <3>2, <1>1 DEF Receipts
  <2>. HIDE DEF X
  <2>. QED
    BY <2>1, <1>5
<1>7. /\ X \in Receipts /\ X.seats = receipts[r].seats
      /\ X.said = NewAnswers(r, p, v) /\ X.verdicts = NewVerdicts(r, p, v)
  BY <1>1, <1>4 DEF Receipts
<1>8. pending' = [pending EXCEPT ![r] = IF AllResponded(q) THEN Resolved(q) ELSE q]
  BY <1>1, <1>3 DEF Answer
<1>9. /\ receipts' \in [Requests -> Receipts] /\ receipts'[r] = X
      /\ \A o \in Requests \ {r} : receipts'[o] = receipts[o]
  <2>. HIDE DEF X
  <2>. QED
    BY <1>6, <1>7 DEF QuorumInvariant, TypeOK
<1>10. UNCHANGED <<place, witnessCooldown, targetCooldown, lost>>
  BY DEF Answer
<1>. HIDE DEF X
<1>. QED
  BY <1>1, <1>2, <1>7, <1>8, <1>9, <1>10

LEMMA AnswerKeeps ==
    ASSUME QuorumInvariant, NEW s \in Sessions, NEW r \in Requests, NEW v \in Responses,
           Answer(s, r, v)
    PROVE  QuorumInvariant'
<1>. DEFINE p == PlayerOf[s]
            ans == NewAnswers(r, p, v)
            q == NewRequest(r, p, v)
<1>1. /\ pending[r] \in Request
      /\ WellFormed(pending[r]) /\ Faithful(pending[r], receipts[r]) /\ Counted(receipts[r])
  BY DEF QuorumInvariant, TypeOK
<1>2. /\ p \in Players /\ pending[r].status = "open" /\ p \in pending[r].witnesses
      /\ receipts[r].seats = pending[r].seats /\ receipts[r].seats # 0
      /\ receipts'[r].seats = pending[r].seats
      /\ receipts'[r].said = ans /\ receipts'[r].verdicts = NewVerdicts(r, p, v)
      /\ \A o \in Requests \ {r} : receipts'[o] = receipts[o]
  BY AnswerWrites
<1>3. /\ pending' = [pending EXCEPT ![r] = IF AllResponded(q) THEN Resolved(q) ELSE q]
      /\ pending'[r] = IF AllResponded(q) THEN Resolved(q) ELSE q
      /\ \A o \in Requests \ {r} : pending'[o] = pending[o]
  BY AnswerWrites DEF QuorumInvariant, TypeOK
<1>4. /\ ans \in Answers /\ Answered(ans) = Answered(pending[r].answers) \cup {p}
      /\ Answered(ans) \subseteq pending[r].witnesses
  BY <1>1, <1>2 DEF Request, Answers, Answered, WellFormed, NewAnswers
<1>5. /\ IsFiniteSet(Answered(ans)) /\ Cardinality(Answered(ans)) <= pending[r].seats
  BY <1>1, <1>4, FS_Subset, FS_CardinalityType DEF Faithful, WellFormed, Request
<1>6. /\ q \in Request /\ q.answers = ans /\ q.left = pending[r].left
      /\ q.target = pending[r].target /\ q.seats = pending[r].seats
      /\ q.witnesses = pending[r].witnesses /\ q.status = "open"
  BY <1>1, <1>2, <1>4 DEF Request, NewRequest
<1>7. WellFormed(q)
  BY <1>1, <1>4, <1>6 DEF WellFormed
<1>8. /\ pending'[r] \in Request /\ WellFormed(pending'[r]) /\ pending'[r].left = pending[r].left
      /\ pending'[r].target = pending[r].target /\ pending'[r].status # "none"
      /\ pending'[r].answers = ans /\ pending'[r].seats = pending[r].seats
      /\ pending'[r].witnesses = pending[r].witnesses
      /\ pending'[r].status = IF AllResponded(q) THEN "resolved" ELSE "open"
  <2>1. CASE AllResponded(q)
    BY <2>1, <1>3, <1>6, <1>7, ResolvedFits
  <2>2. CASE ~AllResponded(q)
    BY <2>2, <1>3, <1>6, <1>7
  <2>. QED
    BY <2>1, <2>2
<1>9. TypeOK'
  <2>1. receipts' \in [Requests -> Receipts] /\ UNCHANGED <<place, witnessCooldown, targetCooldown, lost>>
    BY AnswerWrites
  <2>2. pending' \in [Requests -> Request] /\ \A o \in Requests : WellFormed(pending'[o])
    BY <1>3, <1>8 DEF QuorumInvariant, TypeOK
  <2>. QED
    BY <2>1, <2>2 DEF QuorumInvariant, TypeOK
<1>10. Faithful(pending'[r], receipts'[r])
  <2>1. AllResponded(pending'[r]) <=> AllResponded(q)
    BY <1>6, <1>8 DEF AllResponded
  <2>2. NewVerdicts(r, p, v) = <<>> <=> ~AllResponded(q)
    BY VerdictIsOne DEF NewVerdicts
  <2>. QED
    BY <2>1, <2>2, <1>1, <1>2, <1>8 DEF Faithful
<1>11. Counted(receipts'[r])
  BY <1>2, <1>5 DEF Counted, NewVerdicts
<1>12. CooldownCovers'
  <2>1. UNCHANGED targetCooldown
    BY AnswerWrites
  <2>2. \A o \in Requests : /\ pending'[o].left = pending[o].left /\ pending'[o].target = pending[o].target
                            /\ pending'[o].status # "none" => pending[o].status # "none"
    BY <1>2, <1>3, <1>8
  <2>. QED
    BY <2>1, <2>2 DEF QuorumInvariant, CooldownCovers
<1>13. OneRequestPerTarget'
  BY <1>2, <1>3, <1>8 DEF QuorumInvariant, OneRequestPerTarget
<1>. QED
  BY <1>2, <1>3, <1>9, <1>10, <1>11, <1>12, <1>13 DEF QuorumInvariant

(* What a tick makes of a request and of its receipts. *)
LEMMA ExpireStep ==
    ASSUME QuorumInvariant, Expire, NEW r \in Requests
    PROVE  /\ pending'[r] \in Request /\ WellFormed(pending'[r]) /\ receipts'[r] \in Receipts
           /\ Faithful(pending'[r], receipts'[r]) /\ Counted(receipts'[r])
           /\ pending'[r].status # "none" =>
                /\ pending[r].status # "none" /\ pending'[r].left = pending[r].left
                /\ pending'[r].target = pending[r].target
<1>. DEFINE q == IF UnresolvedExpired(r) THEN Resolved(pending[r]) ELSE pending[r]
            rc == IF UnresolvedExpired(r)
                  THEN [receipts[r] EXCEPT !.verdicts = Verdict(pending[r].seats, pending[r].answers)]
                  ELSE receipts[r]
<1>1. /\ pending[r] \in Request /\ receipts[r] \in Receipts
      /\ WellFormed(pending[r]) /\ Faithful(pending[r], receipts[r]) /\ Counted(receipts[r])
  BY DEF QuorumInvariant, TypeOK
<1>2. pending'[r] = IF Forgotten(q) THEN NoRequest ELSE q
  BY DEF Expire
<1>3. receipts'[r] = rc
  <2>1. CASE UnresolvedExpired(r)
    <3>1. receipts[r].verdicts = <<>>
      BY <2>1, <1>1 DEF UnresolvedExpired, Faithful
    <3>. QED
      BY <2>1, <3>1, <1>1, VerdictIsOne DEF Expire, Receipts
  <2>2. CASE ~UnresolvedExpired(r)
    BY <2>2 DEF Expire
  <2>. QED
    BY <2>1, <2>2
<1>4. /\ q \in Request /\ WellFormed(q) /\ rc \in Receipts /\ Faithful(q, rc) /\ Counted(rc)
      /\ q.left = pending[r].left /\ q.target = pending[r].target
      /\ (q.status = "none" <=> pending[r].status = "none")
  <2>1. CASE UnresolvedExpired(r)
    <3>1. pending[r].status = "open" /\ pending[r].left <= 0
      BY <2>1 DEF UnresolvedExpired
    <3>2. /\ q \in Request /\ WellFormed(q) /\ q.status = "resolved" /\ q.left = pending[r].left
          /\ q.target = pending[r].target /\ q.witnesses = pending[r].witnesses
          /\ q.answers = pending[r].answers /\ q.seats = pending[r].seats
      BY <2>1, <1>1, <3>1, ResolvedFits
    <3>3. /\ rc \in Receipts /\ rc.seats = receipts[r].seats /\ rc.said = receipts[r].said
          /\ rc.verdicts = Verdict(pending[r].seats, pending[r].answers) /\ rc.verdicts # <<>>
      BY <2>1, <1>1, VerdictIsOne DEF Receipts
    <3>5. Faithful(q, rc)
      BY <1>1, <3>1, <3>2, <3>3 DEF Faithful, Expired
    <3>6. Counted(rc)
      BY <1>1, <3>1, <3>3 DEF Faithful, Counted
    <3>. QED
      BY <3>1, <3>2, <3>3, <3>5, <3>6
  <2>2. CASE ~UnresolvedExpired(r)
    BY <2>2, <1>1
  <2>. QED
    BY <2>1, <2>2
<1>5. CASE Forgotten(q)
  <2>1. pending'[r] = NoRequest /\ NoRequest.status = "none"
    BY <1>2, <1>5 DEF NoRequest
  <2>2. rc.seats # 0
    BY <1>4, <1>5 DEF Faithful, Forgotten
  <2>3. Faithful(NoRequest, rc)
    BY <2>1, <2>2, NoRequestFits DEF Faithful
  <2>. QED
    BY <2>1, <2>3, <1>3, <1>4, NoRequestFits
<1>6. CASE ~Forgotten(q)
  BY <1>2, <1>3, <1>4, <1>6
<1>. QED
  BY <1>5, <1>6

LEMMA ExpireKeeps == ASSUME QuorumInvariant, Expire PROVE QuorumInvariant'
<1>1. TypeOK'
  BY ExpireStep DEF Expire, QuorumInvariant, TypeOK
<1>2. CooldownCovers'
  BY ExpireStep DEF Expire, QuorumInvariant, CooldownCovers
<1>3. OneRequestPerTarget'
  BY ExpireStep DEF QuorumInvariant, OneRequestPerTarget
<1>. QED
  BY <1>1, <1>2, <1>3, ExpireStep DEF QuorumInvariant

(* What a unit of time makes of a request. *)
LEMMA ElapseStep ==
    ASSUME QuorumInvariant, Elapse, NEW r \in Requests
    PROVE  /\ pending'[r] \in Request /\ WellFormed(pending'[r])
           /\ Faithful(pending'[r], receipts[r])
           /\ pending'[r].status = pending[r].status /\ pending'[r].target = pending[r].target
           /\ pending'[r].left <= pending[r].left
           /\ pending'[r].status # "none" /\ pending'[r].left > 0
                => pending'[r].left = pending[r].left - 1
<1>. DEFINE q == [pending[r] EXCEPT !.left = @ - 1]
<1>1. pending[r] \in Request /\ WellFormed(pending[r]) /\ Faithful(pending[r], receipts[r])
  BY DEF QuorumInvariant, TypeOK
<1>2. CASE pending[r].status # "none" /\ pending[r].left >= -Grace
  <2>1. /\ pending'[r] = q /\ q \in Request /\ q.status = pending[r].status
        /\ q.left = pending[r].left - 1 /\ q.target = pending[r].target
        /\ q.witnesses = pending[r].witnesses /\ q.answers = pending[r].answers
        /\ q.seats = pending[r].seats
    BY <1>1, <1>2 DEF Elapse, Request
  <2>2. WellFormed(q)
    BY <1>1, <2>1 DEF WellFormed
  <2>3. Faithful(q, receipts[r])
    BY <1>1, <2>1 DEF Faithful, AllResponded, Expired, Request
  <2>. QED
    BY <1>1, <2>1, <2>2, <2>3 DEF Request
<1>3. CASE ~(pending[r].status # "none" /\ pending[r].left >= -Grace)
  BY <1>1, <1>3 DEF Elapse, Request
<1>. QED
  BY <1>2, <1>3

LEMMA ElapseKeeps == ASSUME QuorumInvariant, Elapse PROVE QuorumInvariant'
<1>1. TypeOK'
  <2>1. /\ witnessCooldown' \in [Players -> 0..WitnessCooldown]
        /\ targetCooldown' \in [Players -> 0..TargetCooldown]
    BY DEF Elapse, QuorumInvariant, TypeOK, Less
  <2>. QED
    BY <2>1, ElapseStep DEF Elapse, QuorumInvariant, TypeOK
<1>2. CooldownCovers'
  <2>. SUFFICES ASSUME TargetCooldown >= Ttl, NEW r \in Requests,
                       pending'[r].status # "none", pending'[r].left > 0
                PROVE  targetCooldown'[pending'[r].target] >= pending'[r].left
    BY DEF CooldownCovers
  <2>. DEFINE p == pending[r].target
  <2>1. /\ pending[r] \in Request /\ p \in Players /\ pending'[r].target = p
        /\ pending[r].status # "none" /\ pending'[r].left = pending[r].left - 1
    BY ElapseStep DEF QuorumInvariant, TypeOK, Request
  <2>2. targetCooldown[p] >= pending[r].left /\ targetCooldown[p] \in Nat /\ pending[r].left \in Int
    BY <2>1 DEF QuorumInvariant, CooldownCovers, TypeOK, Request
  <2>3. targetCooldown'[p] = targetCooldown[p] - 1
    BY <2>1, <2>2 DEF Elapse, Less
  <2>. QED
    BY <2>1, <2>2, <2>3
<1>3. OneRequestPerTarget'
  <2>1. ASSUME NEW r \in Requests, ~(pending'[r].left <= 0) PROVE ~(pending[r].left <= 0)
    BY <2>1, ElapseStep DEF QuorumInvariant, TypeOK, Request
  <2>. QED
    BY <2>1, ElapseStep DEF QuorumInvariant, OneRequestPerTarget
<1>. QED
  BY <1>1, <1>2, <1>3, ElapseStep DEF Elapse, QuorumInvariant

LEMMA RestartKeeps == ASSUME QuorumInvariant, Restart PROVE QuorumInvariant'
<1>1. TypeOK'
  BY NoRequestFits DEF Restart, QuorumInvariant, TypeOK
<1>2. NoRequest.status = "none"
  BY DEF NoRequest
<1>3. \A r \in Requests : Faithful(NoRequest, receipts[r])
  BY <1>2, NoRequestFits DEF QuorumInvariant, Faithful
<1>4. CooldownCovers' /\ OneRequestPerTarget'
  BY <1>2 DEF Restart, CooldownCovers, OneRequestPerTarget
<1>. QED
  BY <1>1, <1>3, <1>4 DEF Restart, QuorumInvariant

LEMMA QuorumNext == QuorumInvariant /\ [Next]_vars => QuorumInvariant'
<1>. SUFFICES ASSUME QuorumInvariant, [Next]_vars PROVE QuorumInvariant'
  OBVIOUS
<1>1. CASE UNCHANGED vars
  BY <1>1 DEF vars, memory, QuorumInvariant, TypeOK, CooldownCovers, OneRequestPerTarget
<1>. QED
  BY <1>1, MoveKeeps, RequestKeeps, AnswerKeeps, ExpireKeeps, ElapseKeeps, RestartKeeps DEF Next

LEMMA QuorumInvariantHolds == Spec => []QuorumInvariant
BY QuorumInit, QuorumNext, PTL DEF Spec

-----------------------------------------------------------------------------
(* Requests, cooldowns and receipts have their types, and a request asks     *)
(* others than its target.                                                   *)
THEOREM QuorumTypes == Spec => []TypeOK
BY QuorumInvariantHolds, PTL DEF QuorumInvariant

(* Every accepted answer counts in the outcome. *)
THEOREM AnswersAreCounted == Spec => []AnswersCounted
<1>1. QuorumInvariant => AnswersCounted
  BY DEF QuorumInvariant, Counted, AnswersCounted
<1>. QED
  BY <1>1, QuorumInvariantHolds, PTL

(* What a verdict needs, from one request's receipts. *)
LEMMA UnanimousIfDecided ==
    ASSUME NEW rc \in Receipts, Counted(rc), NEW v \in {"confirm", "deny"},
           rc.verdicts = <<IF v = "confirm" THEN "confirmed" ELSE "denied">>
    PROVE  /\ Cardinality(Said(rc.said, v)) = rc.seats
           /\ Answered(rc.said) = Said(rc.said, v)
<1>1. Outcome(rc.seats, rc.said) = IF v = "confirm" THEN "confirmed" ELSE "denied"
  BY DEF Counted, Verdict
<1>2. Cardinality(Said(rc.said, v)) = rc.seats
  BY <1>1 DEF Outcome
<1>3. Said(rc.said, v) \subseteq Answered(rc.said)
  BY DEF Said, Answered
<1>4. Cardinality(Said(rc.said, v)) = Cardinality(Answered(rc.said))
  BY <1>2, <1>3, FS_Subset, FS_CardinalityType DEF Counted, Receipts
<1>. QED
  BY <1>2, <1>3, <1>4, FS_Subset DEF Counted

(* Two sessions of one player never make a verdict. *)
THEOREM VerdictsAreUnanimous == Spec => []VerdictNeedsDistinctPlayers
<1>1. QuorumInvariant => VerdictNeedsDistinctPlayers
  BY UnanimousIfDecided DEF QuorumInvariant, TypeOK, VerdictNeedsDistinctPlayers
<1>. QED
  BY <1>1, QuorumInvariantHolds, PTL

(* Nobody is judged by two requests at once, while the cooldown outlasts the *)
(* TTL.                                                                      *)
THEOREM OneJudgementAtATime == Spec => []OneRequestPerTarget
BY QuorumInvariantHolds, PTL DEF QuorumInvariant

-----------------------------------------------------------------------------
(* The receipts follow the abstract vote. *)

LEMMA VoteInit == Init => Vote!Init
BY DEF Init, Vote!Init, NoReceipts, NoAnswers

LEMMA AskRefines ==
    ASSUME QuorumInvariant, NEW t \in Sessions, NEW r \in Requests, NEW X \in SUBSET Sessions,
           RequestWitnesses(t, r, X)
    PROVE  Vote!Next
<1>. DEFINE n == Cardinality(X)
<1>1. n \in 1..MaxWitnesses
  <2>1. X # {} /\ n <= MaxWitnesses
    BY DEF RequestWitnesses
  <2>2. n \in Nat /\ n > 0
    BY <2>1, AskedPlayers
  <2>. QED
    BY <2>1, <2>2
<1>2. receipts[r].seats = 0 /\ receipts' = [receipts EXCEPT ![r].seats = n]
  BY DEF RequestWitnesses
<1>3. Vote!Ask(r, n)
  BY <1>2 DEF Vote!Ask, QuorumInvariant, TypeOK, Receipts
<1>. QED
  BY <1>1, <1>3 DEF Vote!Next

LEMMA AnswerRefines ==
    ASSUME QuorumInvariant, NEW s \in Sessions, NEW r \in Requests, NEW v \in Responses,
           Answer(s, r, v)
    PROVE  Vote!Next
<1>. DEFINE p == PlayerOf[s]
            said == [o \in Requests |-> receipts[o].said]
            verdicts == [o \in Requests |-> receipts[o].verdicts]
<1>1. /\ p \in Players /\ receipts[r].said[p] = "none" /\ receipts[r].seats > 0
      /\ receipts[r].verdicts = <<>>
      /\ receipts'[r].seats = receipts[r].seats
      /\ \A o \in Requests \ {r} : receipts'[o] = receipts[o]
      /\ receipts'[r].said = [receipts[r].said EXCEPT ![p] = v]
  <2>. HIDE DEF said, verdicts
  <2>0. receipts[r].said = pending[r].answers
    BY AnswerWrites
  <2>1. receipts'[r].said = NewAnswers(r, p, v)
    BY AnswerWrites
  <2>2. receipts'[r].said = [receipts[r].said EXCEPT ![p] = v]
    BY <2>0, <2>1 DEF NewAnswers
  <2>. QED
    BY <2>2, AnswerWrites
<1>2. \/ receipts'[r].verdicts = <<>>
      \/ receipts'[r].verdicts = Verdict(receipts[r].seats, receipts'[r].said)
  BY AnswerWrites DEF NewVerdicts
<1>3. Vote!Open(r) /\ said[r][p] = "none"
  BY <1>1 DEF Vote!Open
<1>4. said' = [said EXCEPT ![r][p] = v]
  BY <1>1
<1>5. verdicts' = verdicts \/ verdicts' = [verdicts EXCEPT ![r] = Verdict(receipts[r].seats, said'[r])]
  <2>1. said'[r] = receipts'[r].said
    OBVIOUS
  <2>2. verdicts' = [verdicts EXCEPT ![r] = receipts'[r].verdicts]
    BY <1>1
  <2>3. receipts'[r].verdicts = <<>> => verdicts' = verdicts
    BY <1>1, <2>2
  <2>. HIDE DEF said, verdicts
  <2>. QED
    BY <2>1, <2>2, <2>3, <1>2
<1>6. [o \in Requests |-> receipts[o].seats]' = [o \in Requests |-> receipts[o].seats]
  BY <1>1
<1>7. Vote!Cast(r, p, v)
  BY <1>3, <1>4, <1>5, <1>6 DEF Vote!Cast
<1>. QED
  BY <1>1, <1>7 DEF Vote!Next

LEMMA ExpireRefines == ASSUME QuorumInvariant, Expire PROVE Vote!Next
<1>. DEFINE Q == {r \in Requests : UnresolvedExpired(r)}
<1>1. ASSUME NEW r \in Q
      PROVE  /\ Vote!Open(r)
             /\ receipts'[r] = [receipts[r] EXCEPT !.verdicts = Verdict(receipts[r].seats, receipts[r].said)]
  <2>1. /\ receipts[r].verdicts = <<>> /\ receipts[r].seats = pending[r].seats
        /\ receipts[r].said = pending[r].answers /\ receipts[r].seats > 0 /\ receipts[r] \in Receipts
    BY DEF UnresolvedExpired, QuorumInvariant, TypeOK, Faithful, Receipts
  <2>2. receipts'[r] = [receipts[r] EXCEPT !.verdicts = @ \o Verdict(pending[r].seats, pending[r].answers)]
    BY DEF Expire
  <2>. QED
    BY <2>1, <2>2, VerdictIsOne DEF Vote!Open, Receipts
<1>2. ASSUME NEW r \in Requests \ Q PROVE receipts'[r] = receipts[r]
  BY DEF Expire
<1>3. ASSUME NEW r \in Requests
      PROVE  /\ receipts'[r].seats = receipts[r].seats /\ receipts'[r].said = receipts[r].said
             /\ receipts'[r].verdicts = IF r \in Q THEN Verdict(receipts[r].seats, receipts[r].said)
                                        ELSE receipts[r].verdicts
  <2>1. receipts[r] \in Receipts
    BY DEF QuorumInvariant, TypeOK
  <2>2. CASE r \in Q
    BY <2>1, <2>2, <1>1 DEF Receipts
  <2>3. CASE r \notin Q
    BY <2>3, <1>2
  <2>. QED
    BY <2>2, <2>3
<1>4. PICK S \in SUBSET Requests : S = Q
  OBVIOUS
<1>5. Vote!Close(S)
  BY <1>1, <1>3, <1>4 DEF Vote!Close
<1>. QED
  BY <1>5 DEF Vote!Next

LEMMA VoteNext == QuorumInvariant /\ [Next]_vars =>
    [Vote!Next]_(<<[r \in Requests |-> receipts[r].seats], [r \in Requests |-> receipts[r].said],
                   [r \in Requests |-> receipts[r].verdicts]>>)
<1>. SUFFICES ASSUME QuorumInvariant, [Next]_vars, ~UNCHANGED receipts PROVE Vote!Next
  OBVIOUS
<1>. QED
  BY AskRefines, AnswerRefines, ExpireRefines DEF Next, Move, Elapse, Restart, vars

(* The receipts of the quorum keep the abstract vote: one answer per player, *)
(* one decision, by all that was said.                                       *)
THEOREM QuorumImplementsVote == Spec => KeepsVote
BY VoteInit, VoteNext, QuorumInvariantHolds, PTL DEF Spec, KeepsVote, Vote!Spec
=============================================================================
