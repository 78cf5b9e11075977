SPECIFICATION Spec
CONSTANTS
    c1 = c1
    c2 = c2
    A = A
    B = B
    b1 = b1
    b2 = b2
    Nil = Nil
    Undecodable = Undecodable
    Clusters = {c1, c2}
    Roles = {A, B}
    Bindings = {b1, b2}
    AdminUsers = {"admin"}
    AdminGroups = {"masters", "cluster-admins"}
    Annotations <- MCAnnotations
    BindingsOf <- MCBindingsOf
    RolesOf <- MCRolesOf
    MaxChanges = 2
INVARIANTS
    Inv
    LeavesGranted
