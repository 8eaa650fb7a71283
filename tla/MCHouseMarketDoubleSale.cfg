\* The same instance, asking whether a house can be taken from a new owner.
SPECIFICATION Spec
CONSTANTS
    a = a
    b = b
    c = c
    h1 = h1
    NoPlayer = NoPlayer
    Players <- MCPlayers
    Houses <- MCHouses
    PrimaryPrice <- MCPrimaryPrice
    Durations <- MCDurations
    MaxGoldAmount = 2
    SupplyCap = 4
PROPERTIES
    EveryOwnerPaidOnSale
