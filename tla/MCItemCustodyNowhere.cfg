\* The same instance: does every item somebody had stay somewhere.
SPECIFICATION Spec
CONSTANTS
    Players = {p1, p2}
    Items = {i1, i2}
    None = None
    MaxReceipts = 6
    MaxCrashes = 1
SYMMETRY Symmetry
INVARIANTS
    OwnedItemsStaySomewhere
CHECK_DEADLOCK FALSE
