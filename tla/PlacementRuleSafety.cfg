SPECIFICATION Spec
CONSTANTS
    c1 = c1
    c2 = c2
    r1 = r1
    r2 = r2
    ready = ready
    up = up
    down = down
    prod = prod
    Nil = Nil
    Clusters = {c1, c2}
    CondTypes = {ready}
    Statuses = {up, down}
    Labels <- MCLabels
    Rules = {r1}
    SpecsOf <- AllSpecs
    StatesOf <- MCStatesOf
    Grants = {{c1}, {c1, c2}}
    MaxConcurrent = 2
    MaxTries = 2
    MaxChanges = 2
    MaxFaults = 1
INVARIANTS
    Inv
    NoLostWakeup
PROPERTIES
    KeepsDecisions
    LeavesOthersAlone
    ImplementsPromise
