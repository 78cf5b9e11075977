SPECIFICATION FairSpec
CONSTANTS
    c1 = c1
    c2 = c2
    r1 = r1
    r2 = r2
    ready = ready
    up = up
    down = down
    prod = prod
    Nil = Nil
    Clusters = {c1, c2}
    CondTypes = {ready}
    Statuses = {up, down}
    Labels <- MCLabels
    Rules = {r1, r2}
    SpecsOf <- TwoRules
    StatesOf <- ResourceStates
    Grants = {{c1}, {c1, c2}}
    MaxConcurrent = 1
    MaxTries = 2
    MaxChanges = 1
    MaxFaults = 1
PROPERTIES
    Converges
    ResyncRepairs
