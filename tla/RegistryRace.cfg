SPECIFICATION FairSpec
CONSTANTS
    Managers = {placementrule, gitopscluster}
    MaxFlips = 3
    MaxFaults = 1
PROPERTIES
    EventuallyWatching
