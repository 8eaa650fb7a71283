\* Three players, one house, logs of up to ten receipts, two crashes.
SPECIFICATION Spec
CONSTANTS
    p1 = p1
    p2 = p2
    p3 = p3
    NoPlayer = NoPlayer
    Players <- ThreePlayers
    Terms <- MCTerms
    Bids <- MCBids
    InitialGold = 2
    PrimaryPrice = 1
    MaxReceipts = 10
    MaxCrashes = 2
SYMMETRY Symmetry
CONSTRAINT AllSeenSoFar
CHECK_DEADLOCK FALSE
INVARIANTS
    TypeOK
    MirrorShowsTheHouse
    HydrationIsReplay
    EveryDebitCounts
    EscrowSurvivesRestart
    SalesCountedOnce
