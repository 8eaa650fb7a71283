\* The same instance: does a crash make gold.
SPECIFICATION Spec
CONSTANTS
    p1 = p1
    p2 = p2
    p3 = p3
    NoPlayer = NoPlayer
    Players <- ThreePlayers
    Terms <- MCTerms
    Bids <- MCBids
    InitialGold = 2
    PrimaryPrice = 1
    MaxReceipts = 9
    MaxCrashes = 1
SYMMETRY Symmetry
CHECK_DEADLOCK FALSE
INVARIANTS
    NoGoldMinted
