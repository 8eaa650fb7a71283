\* Two players, two items, nine receipts, two crashes or caught errors.
SPECIFICATION Spec
CONSTANTS
    Players = {p1, p2}
    Items = {i1, i2}
    None = None
    MaxReceipts = 9
    MaxCrashes = 2
SYMMETRY Symmetry
INVARIANTS
    TypeOK
    NeverInTwoPlaces
    ItemsAccountedFor
    TablesShowMemory
    ReplayRebuilds
    ProtectedStays
CHECK_DEADLOCK FALSE
