\* Two players, one of them the sovereign, two sockets, one node.
SPECIFICATION FairSpec
CONSTANTS
    Players = {ada, ben}
    Sockets = {c1, c2}
    None = None
    Sovereigns = {ben}
    Nodes = {n1}
    GatherTime = 1
    RefineTime = 0
    RespawnTime = 1
INVARIANTS
    TypeOK
    OneSovereign
    WorldListsTheLoggedIn
    ClaimsMatch
    YieldsInHand
    AbsentHoldNothing
PROPERTIES
    NodesComeBack
