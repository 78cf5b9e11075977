SPECIFICATION FairSpec
CONSTANTS
    g1 = g1
    g2 = g2
    g3 = g3
    a1 = a1
    Nil = Nil
    GitOpsClusters = {g1, g2, g3}
    Namespaces = {a1}
    ArgoOf <- MCArgoOf
    MaxChanges = 2
    MaxFaults = 2
INVARIANTS
    Inv
    PassDelivers
PROPERTIES
    EventuallyThere
