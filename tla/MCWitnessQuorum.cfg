\* A target and two witnesses, one with two sessions, and two requests.
SPECIFICATION FairSpec
CONSTANTS
    t = t
    v = v
    w = w
    st = st
    sv1 = sv1
    sv2 = sv2
    sw = sw
    Away = Away
    Players <- MCPlayers
    Sessions <- MCSessions
    PlayerOf <- MCPlayerOf
    Responses = {"confirm", "deny"}
    Maps = {Rookguard}
    Requests = {r1, r2}
    Ttl = 1
    Grace = 0
    WitnessCooldown = 1
    TargetCooldown = 1
    Suspects = {t}
    MaxWitnesses = 2
INVARIANTS
    TypeOK
    AnswersCounted
    VerdictNeedsDistinctPlayers
    OneRequestPerTarget
PROPERTIES
    KeepsVote
    RequestsEnd
