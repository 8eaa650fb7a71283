\* A caught fsync error and one more receipt: the chain forks.
SPECIFICATION Spec
CONSTANTS
    MaxIds = 2
    MaxFaults = 1
CHECK_DEADLOCK FALSE
INVARIANTS
    ChainAlwaysUnbroken
