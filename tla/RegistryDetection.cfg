SPECIFICATION FairSpec
CONSTANTS
    Managers = {placementrule, gitopscluster}
    MaxFlips = 3
    MaxFaults = 1
INVARIANTS
    TypeOK
    WatchesOrPolls
PROPERTIES
    EventuallyAllButRaced
