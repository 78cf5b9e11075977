SPECIFICATION Spec
CONSTANTS
    g1 = g1
    g2 = g2
    a1 = a1
    a2 = a2
    c1 = c1
    c2 = c2
    p1 = p1
    p2 = p2
    v1 = v1
    v2 = v2
    Nil = Nil
    GitOpsClusters = {g1, g2}
    Argos = {a1, a2}
    Clusters = {c1}
    Placements = {p1, p2}
    Versions = {v1}
    SpecsOf <- SharedArgo
    MaxChanges = 1
    MaxFaults = 1
INVARIANTS
    Inv
    ProvidedWhenSettled
    NothingLeftOver
