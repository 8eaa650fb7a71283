\* One house, three players, prices 1..2, a supply of at most 4 gold.
SPECIFICATION FairSpec
CONSTANTS
    a = a
    b = b
    c = c
    h1 = h1
    NoPlayer = NoPlayer
    Players <- MCPlayers
    Houses <- MCHouses
    PrimaryPrice <- MCPrimaryPrice
    Durations <- MCDurations
    MaxGoldAmount = 2
    SupplyCap = 4
INVARIANTS
    TypeOK
    GoldConserved
    AuctionedHouseHeldBySeller
PROPERTIES
    StakeReturnedOrHouseWon
    OwnerPaidOnSale
    AuctionCloses
    KeepsGoldLedger
