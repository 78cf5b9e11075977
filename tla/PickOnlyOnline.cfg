SPECIFICATION Spec
CONSTANTS
    c1 = c1
    c2 = c2
    c3 = c3
    available = available
    up = up
    down = down
    Nil = Nil
    Clusters = {c1, c2, c3}
    Labels = {c1, c2, c3}
    CondTypes = {available}
    Statuses = {up, down}
    Specs <- AllSpecs
    StatesOf <- UnreportedStates
    Decisions0 <- NoDecisions
    MaxChanges = 1
INVARIANTS
    OnlyOnlineSelected
