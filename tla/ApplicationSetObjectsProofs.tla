--------------------- MODULE ApplicationSetObjectsProofs ---------------------
(* Proofs about ApplicationSetObjects, for any GitOpsClusters and namespaces. *)
EXTENDS ApplicationSetObjects, TLAPS

LEMMA TypesStart == Init => TypeOK
<1> QED  BY BoundsAssumption DEF Init, TypeOK, Objects, Kinds

LEMMA TypesKept == TypeOK /\ [Next]_vars => TypeOK'
<1> SUFFICES ASSUME TypeOK, [Next]_vars PROVE TypeOK'
    OBVIOUS
<1>. USE DEF TypeOK, objects, work, budget
<1>1. \A k \in Kinds : After[k] \in Kinds \cup {"next"} /\ AfterError(k) \in Kinds \cup {"next"}
    BY DEF Kinds, After, AfterError
<1>2. CASE Begin
    BY <1>2 DEF Begin, Kinds
<1>3. CASE End
    BY <1>3 DEF End, Kinds
<1>4. ASSUME NEW g \in GitOpsClusters, Take(g) PROVE TypeOK'
    BY <1>4, ArgoAssumption DEF Take, Kinds
<1>5. ASSUME NEW k \in Kinds, Pass(k) PROVE TypeOK'
    BY <1>1, <1>5 DEF Pass, Kinds
<1>6. ASSUME NEW k \in Kinds, Create(k) PROVE TypeOK'
    BY <1>1, <1>6 DEF Create, Objects, Kinds
<1>7. CASE Request
    BY <1>7 DEF Request
<1>8. ASSUME NEW o \in Objects, Disturb(o) PROVE TypeOK'
    BY <1>8, BoundsAssumption DEF Disturb, Objects
<1>9. ASSUME NEW o \in Objects, Sync(o) PROVE TypeOK'
    BY <1>9 DEF Sync
<1>10. ASSUME NEW k \in Kinds, GetFails(k) PROVE TypeOK'
    BY <1>1, <1>10, BoundsAssumption DEF GetFails, Fault, Kinds
<1>11. ASSUME NEW k \in Kinds, CreateFails(k) PROVE TypeOK'
    BY <1>1, <1>11, BoundsAssumption DEF CreateFails, Fault, Objects, Kinds
<1>12. CASE UNCHANGED vars
    BY <1>12 DEF vars
<1> QED
    BY <1>2, <1>3, <1>4, <1>5, <1>6, <1>7, <1>8, <1>9, <1>10, <1>11, <1>12 DEF Next, Steps

\* Every kind of step keeps what was delivered, and what the cache is right about.
LEMMA DeliveryKept == Inv /\ [Next]_vars => DeliversSoFar'
<1> SUFFICES ASSUME Inv, [Next]_vars PROVE DeliversSoFar'
    OBVIOUS
<1>. USE DEF Inv, TypeOK, objects, work, budget
<1>1. CASE Begin \/ End \/ Request \/ UNCHANGED vars
    <2>1. CASE Begin
        <3>1. pc' = "next" /\ ns' = ns /\ pc = "idle"
            BY <2>1 DEF Begin
        <3> QED  BY <2>1, <3>1 DEF Begin, DeliversSoFar, Passed, Delivered, Kinds
    <2>2. CASE End
        BY <2>2 DEF End, DeliversSoFar
    <2>3. CASE Request \/ UNCHANGED vars
        BY <2>3 DEF Request, vars, DeliversSoFar, Passed, Delivered
    <2> QED  BY <1>1, <2>1, <2>2, <2>3
<1>2. ASSUME NEW g \in GitOpsClusters, Take(g) PROVE DeliversSoFar'
    BY <1>2, ArgoAssumption DEF Take, DeliversSoFar, Passed, Delivered, Kinds
<1>3. ASSUME NEW k \in Kinds, Pass(k) PROVE DeliversSoFar'
    BY <1>3 DEF Pass, Found, After, DeliversSoFar, Passed, Delivered, Needed, Kinds
<1>4. ASSUME NEW k \in Kinds, Create(k) PROVE DeliversSoFar'
    BY <1>4 DEF Create, Found, After, AfterError, DeliversSoFar, Passed, Delivered, Needed, Kinds
<1>5. ASSUME NEW o \in Objects, Disturb(o) PROVE DeliversSoFar'
    BY <1>5 DEF Disturb, Objects, DeliversSoFar, Passed, Delivered, Needed, Kinds
<1>6. ASSUME NEW o \in Objects, Sync(o) PROVE DeliversSoFar'
    BY <1>6 DEF Sync, DeliversSoFar, Passed, Delivered
<1>7. ASSUME NEW k \in Kinds, GetFails(k) PROVE DeliversSoFar'
    BY <1>7 DEF GetFails, Fault, After, AfterError, DeliversSoFar, Passed, Delivered, Needed, Kinds
<1>8. ASSUME NEW k \in Kinds, CreateFails(k) PROVE DeliversSoFar'
    BY <1>8
    DEF CreateFails, Fault, Found, AfterError, DeliversSoFar, Passed, Delivered, Needed, Kinds
<1> QED
    BY <1>1, <1>2, <1>3, <1>4, <1>5, <1>6, <1>7, <1>8 DEF Next, Steps

\* What was delivered so far stays delivered until the pass ends.
THEOREM DeliveryInvariant == Spec => []Inv
<1>1. Init => Inv
    BY TypesStart DEF Init, Inv, DeliversSoFar
<1>2. Inv /\ [Next]_vars => Inv'
    BY TypesKept, DeliveryKept DEF Inv
<1> QED  BY <1>1, <1>2, PTL DEF Spec

\* Trouble with the ConfigMaps never costs the Role or the RoleBinding.
THEOREM Delivery == Spec => []PassDelivers
<1>1. Inv => PassDelivers
    BY DEF Inv, DeliversSoFar, Passed, PassDelivers
<1> QED  BY <1>1, DeliveryInvariant, PTL
=============================================================================
