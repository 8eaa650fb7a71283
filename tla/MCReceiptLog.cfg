\* Up to five receipts and three faults.
SPECIFICATION Spec
CONSTANTS
    MaxIds = 5
    MaxFaults = 3
CHECK_DEADLOCK FALSE
INVARIANTS
    TypeOK
    ChainUnbroken
    NoSilentLoss
    TablesBehindLog
    SealedOnce
PROPERTIES
    BootRebuildsTables
