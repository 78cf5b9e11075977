SPECIFICATION Spec
CONSTANTS
    c1 = c1
    c2 = c2
    c3 = c3
    available = available
    up = up
    down = down
    Nil = Nil
    Clusters = {c1, c2, c3}
    Labels = {c1, c2, c3}
    CondTypes = {available}
    Statuses = {up, down}
    Specs <- MCSpecs
    StatesOf <- MCStatesOf
    Decisions0 <- MCDecisions0
    MaxChanges = 2
INVARIANTS
    TypeOK
    ImplementsPicks
    SelfTriggerSettles
