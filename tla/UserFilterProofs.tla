-------------------------- MODULE UserFilterProofs --------------------------
(****************************************************************************)
(* Proofs about UserFilter, for any clusters, bindings, roles and users:    *)
(* what is found by reading the bindings and then the roles they name is    *)
(* what the RBAC grants, unless it changes twice meanwhile.                 *)
(****************************************************************************)
EXTENDS UserFilter, TLAPS

-----------------------------------------------------------------------------
(* What the code compares, beside what the RBAC says.                       *)

\* A subject the code finds is one that stands for the user.
LEMMA BoundIsIdentified ==
    TypeOK => \A b \in Bindings :
                  Bound(b) <=> bindings[b] # Nil /\ bindings[b].subjects \cap Identities # {}
<1> SUFFICES ASSUME TypeOK, NEW b \in Bindings, bindings[b] # Nil
             PROVE  (\E s \in bindings[b].subjects : SubjectFound(s))
                        <=> bindings[b].subjects \cap Identities # {}
    BY DEF Bound
<1>1. bindings[b] \in Binding
    BY DEF TypeOK
<1>2. bindings[b].subjects \subseteq Subject
    BY <1>1 DEF Binding
<1>3. ASSUME NEW s \in bindings[b].subjects
      PROVE  SubjectFound(s) <=> s \in Identities
    <2>1. s \in UNION {x.subjects : x \in {bindings[n] : n \in Bindings} \ {Nil}}
        OBVIOUS
    <2>2. CASE s \in [kind : {"User"}, name : Seq(STRING)]
        <3>1. SubjectFound(s) <=> s.name = User
            BY <2>2 DEF SubjectFound
        <3>2. /\ s.kind = "User"
              /\ \A g : s # [kind |-> "Group", name |-> g]
              /\ s.name = User <=> s = [kind |-> "User", name |-> User]
            BY <2>2
        <3> QED  BY <2>1, <3>1, <3>2 DEF Identities
    <2>3. CASE s \in [kind : {"Group"}, name : Seq(STRING)]
        <3>1. SubjectFound(s) <=> s.name \in Groups
            BY <2>3 DEF SubjectFound
        <3>2. /\ s.kind = "Group"
              /\ s # [kind |-> "User", name |-> User]
              /\ \A g : s.name = g <=> s = [kind |-> "Group", name |-> g]
            BY <2>3
        <3> QED  BY <2>1, <3>1, <3>2 DEF Identities
    <2>4. CASE s \in [kind : {"ServiceAccount"}, ns : STRING \ {""}, name : STRING \ {""}]
        <3>0. s.kind = "ServiceAccount" /\ s.ns # "" /\ s.name # ""
            BY <2>4
        <3>1. SubjectFound(s) <=> User = <<"system", "serviceaccount", s.ns, s.name>>
            BY <3>0 DEF SubjectFound
        <3>2. /\ s.kind = "ServiceAccount"
              /\ s # [kind |-> "User", name |-> User]
              /\ \A g : s # [kind |-> "Group", name |-> g]
            <4>1. s \in [kind : {"ServiceAccount"}, ns : STRING, name : STRING]
                BY <2>4
            <4> QED  BY <4>1
        <3> QED  BY <2>1, <3>1, <3>2 DEF Identities
    <2> QED  BY <1>2, <2>2, <2>3, <2>4 DEF Subject
<1> QED  BY <1>3

\* A role grants a cluster to the code when the RBAC says so.
LEMMA RoleGrantsAllowed ==
    TypeOK => \A n \in Roles : RoleGrants(n) =
        {c \in Clusters : roles[n] # Nil /\ \E p \in roles[n] : RuleAllows(p, c)}
<1> SUFFICES ASSUME TypeOK, NEW n \in Roles
             PROVE  RoleGrants(n) =
                        {c \in Clusters : roles[n] # Nil /\ \E p \in roles[n] : RuleAllows(p, c)}
    OBVIOUS
<1>1. CASE roles[n] = Nil
    BY <1>1 DEF RoleGrants
<1>2. CASE roles[n] # Nil
    <2>1. roles[n] \subseteq PolicyRule
        BY <1>2 DEF TypeOK
    <2>2. ASSUME NEW p \in roles[n], NEW c \in Clusters
          PROVE  RuleAllows(p, c)
                     <=> GetsManagedClusters(p) /\ c \in IF p.names = {} THEN Clusters ELSE p.names
        BY DEF RuleAllows, GetsManagedClusters, Covers
    <2>3. \A p \in roles[n] : p.names \subseteq Clusters
        BY <2>1 DEF PolicyRule
    <2> QED  BY <1>2, <2>2, <2>3 DEF RoleGrants, GetManagedClusters
<1> QED  BY <1>1, <1>2

GrantsAreOfBound ==
    \A c : c \in Granted <=>
               \E b \in Bindings : Bound(b) /\ c \in RoleGrants(bindings[b].role)

\* The RBAC grants what the roles of the bindings that name the user grant.
LEMMA GrantedByBound == TypeOK => GrantsAreOfBound
<1> SUFFICES ASSUME TypeOK, NEW c
             PROVE  c \in Granted <=>
                        \E b \in Bindings : Bound(b) /\ c \in RoleGrants(bindings[b].role)
    BY DEF GrantsAreOfBound
<1>1. ASSUME NEW b \in Bindings, Bound(b)
      PROVE  bindings[b].role \in Roles
    BY <1>1 DEF Bound, TypeOK, Binding
<1>2. ASSUME NEW b \in Bindings
      PROVE  (c \in Clusters /\ Authorizes(b, c))
                 <=> Bound(b) /\ c \in RoleGrants(bindings[b].role)
    <2>1. CASE Bound(b)
        BY <2>1, <1>1, BoundIsIdentified, RoleGrantsAllowed DEF Authorizes
    <2>2. CASE ~Bound(b)
        BY <2>2, BoundIsIdentified DEF Authorizes
    <2> QED  BY <2>1, <2>2
<1> QED  BY <1>2 DEF Granted

-----------------------------------------------------------------------------
(* Types.                                                                   *)

LEMMA InitTypes == Init => TypeOK
<1> SUFFICES ASSUME Init PROVE TypeOK
    OBVIOUS
<1>1. Granted \subseteq Clusters
    BY DEF Granted
<1>2. \A b \in Bindings : bindings[b] \in Binding \cup {Nil}
    BY RBACAssumption DEF Init
<1>3. \A n \in Roles : roles[n] \in (SUBSET PolicyRule) \cup {Nil}
    BY RBACAssumption DEF Init
<1> QED  BY <1>1, <1>2, <1>3, AnnotationsAssumption, ChangesAssumption DEF Init, TypeOK

LEMMA TypesKept == TypeOK /\ [Next]_vars => TypeOK'
<1> SUFFICES ASSUME TypeOK, [Next]_vars PROVE TypeOK'
    OBVIOUS
<1>1. Granted \subseteq Clusters /\ Granted' \subseteq Clusters
    BY DEF Granted
<1>2. CASE Start
    BY <1>1, <1>2, ChangesAssumption DEF Start, rule, rbac, TypeOK
<1>3. CASE ListItems
    <2>1. method = "bindings" => todo' \subseteq Bindings \X Roles
        <3> SUFFICES ASSUME method = "bindings", NEW b \in Bindings, Bound(b)
                     PROVE  <<b, bindings[b].role>> \in Bindings \X Roles
            BY <1>3 DEF ListItems
        <3> QED  BY DEF Bound, TypeOK, Binding
    <2>2. method # "bindings" => todo' \subseteq selected
        BY <1>3 DEF ListItems
    <2> QED  BY <1>3, <2>1, <2>2 DEF ListItems, rule, rbac, history, TypeOK
<1>4. CASE ListFails
    BY <1>4 DEF ListFails, rule, rbac, history, TypeOK
<1>5. ASSUME NEW b \in Bindings, NEW n \in Roles, ReadRole(b, n) PROVE TypeOK'
    <2>1. RoleGrants(n) \subseteq Clusters
        BY RoleGrantsAllowed
    <2> QED  BY <1>5, <2>1 DEF ReadRole, rule, rbac, history, TypeOK
<1>6. ASSUME NEW c \in Clusters, Review(c) PROVE TypeOK'
    BY <1>1, <1>6 DEF Review, rule, rbac, history, TypeOK
<1>7. CASE ItemFails
    BY <1>7 DEF ItemFails, rule, rbac, history, TypeOK
<1>8. CASE Filter
    BY <1>8 DEF Filter, rule, rbac, history, TypeOK
<1>9. ASSUME NEW b \in Bindings, ChangeBinding(b) PROVE TypeOK'
    <2>1. /\ \A x \in Bindings : bindings'[x] \in Binding \cup {Nil}
          /\ DOMAIN bindings' = Bindings
        BY <1>9, RBACAssumption DEF ChangeBinding, TypeOK
    <2> QED  BY <1>1, <1>9, <2>1, ChangesAssumption DEF ChangeBinding, Remembered, rule, TypeOK
<1>10. ASSUME NEW n \in Roles, ChangeRole(n) PROVE TypeOK'
    <2>1. /\ \A x \in Roles : roles'[x] \in (SUBSET PolicyRule) \cup {Nil}
          /\ DOMAIN roles' = Roles
        BY <1>10, RBACAssumption DEF ChangeRole, TypeOK
    <2> QED  BY <1>1, <1>10, <2>1, ChangesAssumption DEF ChangeRole, Remembered, rule, TypeOK
<1>11. CASE Done \/ UNCHANGED vars
    BY <1>11 DEF Done, vars, rule, rbac, history, TypeOK
<1> QED
    BY <1>2, <1>3, <1>4, <1>5, <1>6, <1>7, <1>8, <1>9, <1>10, <1>11 DEF Next

\* The variables keep their types.
THEOREM FilterTypeCorrect == Spec => []TypeOK
<1> QED  BY InitTypes, TypesKept, PTL DEF Spec

-----------------------------------------------------------------------------
(* The inductive invariant.                                                 *)

\* What the RBAC grants depends on it and on whom the rule is for.
LEMMA SameGrants ==
    UNCHANGED <<rule, rbac>> =>
        /\ Granted' = Granted
        /\ \A b \in Bindings : Bound(b)' = Bound(b)
        /\ \A n \in Roles : RoleGrants(n)' = RoleGrants(n)
<1> QED
    BY DEF rule, rbac, Granted, Authorizes, Identities, User, Groups, Bound, SubjectFound, RoleGrants

LEMMA SetEquality == \A S, T : (\A x : x \in S <=> x \in T) => S = T
<1> QED  OBVIOUS

LEMMA InitInv == Init => Inv
<1> SUFFICES ASSUME Init PROVE Inv
    OBVIOUS
<1> QED
    BY InitTypes DEF Init, Inv, ReadsAreCurrent, InBetween, LeavesGranted

\* The inductive invariant of UserFilter.
LEMMA FilterStarts == Inv /\ Start => ReadsAreCurrent' /\ InBetween' /\ LeavesGranted'
<1> SUFFICES ASSUME Inv, Start PROVE ReadsAreCurrent' /\ InBetween' /\ LeavesGranted'
    OBVIOUS
<1>1. Granted' = Granted
    BY SameGrants DEF Start
<1>2. Applies' = Applies
    BY DEF Start, rule, Applies, IfClusterAdmin, User, Groups
<1> QED
    BY <1>1, <1>2 DEF Start, rule, Inv, TypeOK, ReadsAreCurrent, InBetween, LeavesGranted

LEMMA FilterLists == Inv /\ ListItems => ReadsAreCurrent' /\ InBetween' /\ LeavesGranted'
<1> SUFFICES ASSUME Inv, ListItems PROVE ReadsAreCurrent' /\ InBetween' /\ LeavesGranted'
    OBVIOUS
<1>1. /\ Granted' = Granted
      /\ \A b \in Bindings : Bound(b)' = Bound(b)
      /\ \A n \in Roles : RoleGrants(n)' = RoleGrants(n)
    BY SameGrants DEF ListItems
<1>2. /\ always \subseteq Granted /\ Granted \subseteq ever
      /\ found = {} /\ clmap = selected /\ failed = "nothing"
    BY DEF ListItems, Inv, InBetween
<1>3. CASE method = "bindings"
    <2>1. todo' = {<<b, bindings[b].role>> : b \in {x \in Bindings : Bound(x)}}
        BY <1>3 DEF ListItems
    <2>2. \A b \in Bindings : Bound(b) => bindings[b].role \in Roles
        BY DEF Bound, Inv, TypeOK, Binding
    <2>3. Yield' = Granted
        <3>1. Yield' = UNION {RoleGrants(item[2]) : item \in todo'}
            BY <1>1, <1>2, <2>1, <2>2 DEF ListItems, Yield
        <3>2. \A c : c \in Granted <=>
                  \E b \in Bindings : Bound(b) /\ c \in RoleGrants(bindings[b].role)
            BY GrantedByBound DEF Inv, GrantsAreOfBound
        <3>3. ASSUME NEW c
              PROVE  c \in Yield' <=>
                         \E b \in Bindings : Bound(b) /\ c \in RoleGrants(bindings[b].role)
            <4>1. c \in Yield' <=> \E item \in todo' : c \in RoleGrants(item[2])
                BY <3>1
            <4>2. ASSUME NEW b \in Bindings, Bound(b), c \in RoleGrants(bindings[b].role)
                  PROVE  \E item \in todo' : c \in RoleGrants(item[2])
                <5>1. <<b, bindings[b].role>> \in todo'
                    BY <2>1, <4>2
                <5>2. <<b, bindings[b].role>>[2] = bindings[b].role
                    OBVIOUS
                <5> QED  BY <4>2, <5>1, <5>2
            <4>3. ASSUME NEW item \in todo', c \in RoleGrants(item[2])
                  PROVE  \E b \in Bindings : Bound(b) /\ c \in RoleGrants(bindings[b].role)
                <5>1. PICK b \in Bindings : Bound(b) /\ item = <<b, bindings[b].role>>
                    BY <2>1
                <5>2. item[2] = bindings[b].role
                    BY <5>1
                <5> QED  BY <4>3, <5>1, <5>2
            <4> QED  BY <4>1, <4>2, <4>3
        <3> QED  BY <3>2, <3>3, SetEquality
    <2>4. \A item \in todo' : Bound(item[1])' /\ item[2] = bindings[item[1]].role
        BY <1>1, <2>1
    <2>5. \A b \in Bindings : Bound(b)' => <<b, bindings[b].role>> \in todo'
        BY <1>1, <2>1
    <2>6. ReadsAreCurrent'
        BY <1>1, <1>2, <1>3, <2>4, <2>5 DEF ListItems, rule, rbac, history, Inv, ReadsAreCurrent
    <2>7. InBetween' /\ LeavesGranted'
        BY <1>1, <1>2, <1>3, <2>3 DEF ListItems, rule, history, InBetween, LeavesGranted
    <2> QED  BY <2>6, <2>7
<1>4. CASE method = "reviews"
    BY <1>1, <1>2, <1>4
    DEF ListItems, rule, rbac, history, Inv, ReadsAreCurrent, InBetween, LeavesGranted
<1> QED  BY <1>3, <1>4 DEF Inv, TypeOK

LEMMA FilterReads ==
    ASSUME Inv, NEW b \in Bindings, NEW n \in Roles, ReadRole(b, n)
    PROVE  ReadsAreCurrent' /\ InBetween' /\ LeavesGranted'
<1>1. /\ Granted' = Granted
      /\ \A x \in Bindings : Bound(x)' = Bound(x)
      /\ \A m \in Roles : RoleGrants(m)' = RoleGrants(m)
    BY SameGrants DEF ReadRole
<1>2. /\ pc = "items" /\ pc' = "items"
      /\ method = "bindings" /\ method' = "bindings"
      /\ <<b, n>> \in todo /\ todo' = todo \ {<<b, n>>}
      /\ found' = found \cup RoleGrants(n)
      /\ UNCHANGED <<clmap, failed, always, ever, turns, bindings, roles, selected>>
    BY DEF ReadRole, rule, rbac, history
<1>3. todo \subseteq Bindings \X Roles
    BY <1>2 DEF Inv, TypeOK
<1>4. Yield' = Yield
    <2>1. Yield' = found' \cup UNION {RoleGrants(item[2]) : item \in todo'}
        BY <1>1, <1>2, <1>3 DEF Yield
    <2>2. UNION {RoleGrants(item[2]) : item \in todo}
              = RoleGrants(n) \cup UNION {RoleGrants(item[2]) : item \in todo'}
        BY <1>2
    <2> QED  BY <1>2, <2>1, <2>2 DEF Yield
<1>5. ReadsAreCurrent'
    <2> SUFFICES ASSUME turns = 0
                 PROVE  /\ always = Granted /\ ever = Granted
                        /\ found' \subseteq Granted
                        /\ \A item \in todo' : Bound(item[1]) /\ item[2] = bindings[item[1]].role
                        /\ failed = "nothing" =>
                              \A x \in {y \in Bindings : Bound(y)} :
                                  \/ <<x, bindings[x].role>> \in todo'
                                  \/ RoleGrants(bindings[x].role) \subseteq found'
        <3>1. \A x \in Bindings : Bound(x) => bindings[x].role \in Roles
            BY DEF Bound, Inv, TypeOK, Binding
        <3> QED  BY <1>1, <1>2, <1>3, <3>1 DEF ReadsAreCurrent
    <2>1. /\ always = Granted /\ ever = Granted
          /\ found \subseteq Granted
          /\ \A item \in todo : Bound(item[1]) /\ item[2] = bindings[item[1]].role
          /\ failed = "nothing" =>
                \A x \in {y \in Bindings : Bound(y)} :
                    \/ <<x, bindings[x].role>> \in todo
                    \/ RoleGrants(bindings[x].role) \subseteq found
        BY <1>2 DEF Inv, ReadsAreCurrent
    <2>2. RoleGrants(n) \subseteq Granted
        <3>1. Bound(b) /\ n = bindings[b].role
            BY <1>2, <2>1
        <3> QED  BY <3>1, GrantedByBound DEF Inv, GrantsAreOfBound
    <2>3. ASSUME failed = "nothing", NEW x \in Bindings, Bound(x)
          PROVE  \/ <<x, bindings[x].role>> \in todo'
                 \/ RoleGrants(bindings[x].role) \subseteq found'
        <3>1. CASE <<x, bindings[x].role>> = <<b, n>>
            BY <1>2, <3>1
        <3>2. CASE <<x, bindings[x].role>> # <<b, n>>
            BY <1>2, <2>1, <2>3, <3>2
        <3> QED  BY <3>1, <3>2
    <2> QED  BY <1>2, <2>1, <2>2, <2>3
<1> QED  BY <1>1, <1>2, <1>4, <1>5 DEF Inv, InBetween, LeavesGranted

LEMMA FilterReviews ==
    ASSUME Inv, NEW c \in Clusters, Review(c)
    PROVE  ReadsAreCurrent' /\ InBetween' /\ LeavesGranted'
<1>1. Granted' = Granted
    BY SameGrants DEF Review
<1>2. /\ pc = "items" /\ pc' = "items"
      /\ method = "reviews" /\ method' = "reviews"
      /\ todo' = todo \ {c}
      /\ found' = found \cup ({c} \cap Granted)
      /\ UNCHANGED <<clmap, failed, always, ever, turns, selected>>
    BY DEF Review, rule, rbac, history
<1> QED
    BY <1>1, <1>2 DEF Inv, ReadsAreCurrent, InBetween, LeavesGranted

LEMMA FilterMisses == Inv /\ ItemFails => ReadsAreCurrent' /\ InBetween' /\ LeavesGranted'
<1> SUFFICES ASSUME Inv, ItemFails PROVE ReadsAreCurrent' /\ InBetween' /\ LeavesGranted'
    OBVIOUS
<1>1. /\ Granted' = Granted
      /\ \A x \in Bindings : Bound(x)' = Bound(x)
      /\ \A m \in Roles : RoleGrants(m)' = RoleGrants(m)
    BY SameGrants DEF ItemFails
<1>2. /\ pc = "items" /\ pc' = "items"
      /\ failed' = "item" /\ todo' \subseteq todo
      /\ UNCHANGED <<method, found, clmap, always, ever, turns, bindings, selected>>
    BY DEF ItemFails, rule, rbac, history
<1>3. method = "bindings" => todo \subseteq Bindings \X Roles
    BY DEF Inv, TypeOK
<1>4. method = "bindings" => Yield' \subseteq Yield
    BY <1>1, <1>2, <1>3 DEF Yield
<1>5. ReadsAreCurrent'
    BY <1>1, <1>2, <1>3 DEF Inv, ReadsAreCurrent
<1> QED  BY <1>1, <1>2, <1>4, <1>5 DEF Inv, InBetween, LeavesGranted

LEMMA FilterEnds == Inv /\ (ListFails \/ Filter) => ReadsAreCurrent' /\ InBetween' /\ LeavesGranted'
<1> SUFFICES ASSUME Inv, ListFails \/ Filter PROVE ReadsAreCurrent' /\ InBetween' /\ LeavesGranted'
    OBVIOUS
<1>1. Granted' = Granted
    BY SameGrants DEF ListFails, Filter
<1>2. /\ pc' = "done"
      /\ UNCHANGED <<method, found, always, ever, turns, selected>>
    BY DEF ListFails, Filter, rule, history
<1>3. ReadsAreCurrent' /\ InBetween'
    BY <1>1, <1>2 DEF Inv, ReadsAreCurrent, InBetween
<1>4. CASE ListFails
    BY <1>3, <1>4 DEF ListFails, LeavesGranted
<1>5. CASE Filter
    <2>1. /\ todo = {} /\ clmap' = selected \cap found /\ failed' = failed /\ Yield = found
        BY <1>5 DEF Filter, Inv, InBetween, Yield
    <2>2. /\ turns <= 1 \/ method = "reviews" => found \subseteq ever
          /\ (turns <= 1 \/ method = "reviews") /\ failed = "nothing" =>
                selected \cap always \subseteq found
        BY <1>5, <2>1 DEF Filter, Inv, TypeOK, InBetween
    <2> QED  BY <1>2, <1>3, <2>1, <2>2 DEF LeavesGranted
<1> QED  BY <1>4, <1>5, <1>3

\* A binding that changes leaves what was noted of the bindings as it is.
LEMMA BindingChanges ==
    ASSUME Inv, NEW b \in Bindings, ChangeBinding(b)
    PROVE  ReadsAreCurrent' /\ InBetween' /\ LeavesGranted'
<1>1. \A n \in Roles : RoleGrants(n)' = RoleGrants(n)
    BY DEF ChangeBinding, RoleGrants
<1>2. /\ always' = always \cap Granted' /\ ever' = ever \cup Granted'
      /\ turns' = turns + 1
      /\ UNCHANGED <<method, annotations, selected, pc, todo, found, clmap, failed>>
    BY DEF ChangeBinding, Remembered, rule
<1>3. method = "bindings" => Yield' = Yield
    BY <1>1, <1>2 DEF Yield, Inv, TypeOK
<1>4. turns \in Nat /\ turns' # 0 /\ (turns' <= 1 => turns <= 1)
    BY <1>2 DEF Inv, TypeOK
<1>5. Applies' = Applies
    BY <1>2 DEF Applies, IfClusterAdmin, User, Groups
<1>6. ReadsAreCurrent' /\ InBetween'
    BY <1>2, <1>3, <1>4 DEF Inv, ReadsAreCurrent, InBetween
<1>7. LeavesGranted'
    BY <1>2, <1>4, <1>5 DEF Inv, LeavesGranted
<1> QED  BY <1>6, <1>7

\* If nothing changed before a role does, what was found is granted, and so is what
\* will be found: the role's grants count as before or as after.
LEMMA RoleChanges ==
    ASSUME Inv, NEW n \in Roles, ChangeRole(n)
    PROVE  ReadsAreCurrent' /\ InBetween' /\ LeavesGranted'
<1>1. /\ \A m \in Roles \ {n} : RoleGrants(m)' = RoleGrants(m)
      /\ \A b \in Bindings : Bound(b)' = Bound(b)
    BY DEF ChangeRole, Remembered, rule, RoleGrants, Bound, SubjectFound, User, Groups, Inv, TypeOK
<1>2. /\ always' = always \cap Granted' /\ ever' = ever \cup Granted'
      /\ turns' = turns + 1
      /\ UNCHANGED <<bindings, method, annotations, selected, pc, todo, found, clmap, failed>>
    BY DEF ChangeRole, Remembered, rule
<1>3. TypeOK'
    BY TypesKept DEF Inv, Next
<1>4. turns \in Nat /\ turns' # 0 /\ (turns' <= 1 => turns = 0)
    BY <1>2 DEF Inv, TypeOK
<1>5. Applies' = Applies
    BY <1>2 DEF Applies, IfClusterAdmin, User, Groups
<1>6. ASSUME pc = "items", method = "bindings", turns = 0
      PROVE  Yield' \subseteq ever' /\ (failed = "nothing" => always' \subseteq Yield')
    <2>1. /\ always = Granted /\ ever = Granted
          /\ found \subseteq Granted
          /\ \A item \in todo : Bound(item[1]) /\ item[2] = bindings[item[1]].role
          /\ failed = "nothing" =>
                \A x \in {y \in Bindings : Bound(y)} :
                    \/ <<x, bindings[x].role>> \in todo
                    \/ RoleGrants(bindings[x].role) \subseteq found
        BY <1>6 DEF Inv, ReadsAreCurrent
    <2>2. todo \subseteq Bindings \X Roles
        BY <1>6 DEF Inv, TypeOK
    <2>3. \A c : c \in Granted <=>
              \E x \in Bindings : Bound(x) /\ c \in RoleGrants(bindings[x].role)
        BY GrantedByBound DEF Inv, GrantsAreOfBound
    <2>4. \A c : c \in Granted' <=>
              \E x \in Bindings : Bound(x) /\ c \in RoleGrants(bindings[x].role)'
        <3>1. GrantsAreOfBound'
            BY <1>3, GrantedByBound, PTL
        <3> QED  BY <3>1, <1>1 DEF GrantsAreOfBound
    <2>5. \A x \in Bindings : Bound(x) => bindings[x].role \in Roles
        BY DEF Bound, Inv, TypeOK, Binding
    <2>6. Yield' \subseteq ever'
        <3> SUFFICES ASSUME NEW item \in todo PROVE RoleGrants(item[2])' \subseteq Granted'
            BY <1>2, <2>1 DEF Yield
        <3> QED  BY <1>2, <2>1, <2>2, <2>4
    <2>7. ASSUME failed = "nothing", NEW c \in always' PROVE c \in Yield'
        <3>1. c \in Granted /\ c \in Granted'
            BY <1>2, <2>1
        <3>2. PICK old \in Bindings : Bound(old) /\ c \in RoleGrants(bindings[old].role)
            BY <2>3, <3>1
        <3>3. PICK new \in Bindings : Bound(new) /\ c \in RoleGrants(bindings[new].role)'
            BY <2>4, <3>1
        <3>4. CASE c \in found
            BY <1>2, <3>4 DEF Yield
        <3>5. CASE c \notin found
            <4>1. <<old, bindings[old].role>> \in todo
                BY <2>1, <2>7, <3>2, <3>5
            <4>2. CASE bindings[old].role # n
                <5>1. c \in RoleGrants(bindings[old].role)'
                    BY <1>1, <1>2, <2>5, <3>2, <4>2
                <5> QED  BY <1>2, <4>1, <5>1 DEF Yield
            <4>3. CASE bindings[old].role = n
                <5>1. <<new, bindings[new].role>> \in todo
                    <6>1. ~(RoleGrants(bindings[new].role) \subseteq found)
                        <7>1. CASE bindings[new].role = n
                            BY <3>2, <3>5, <4>3, <7>1
                        <7>2. CASE bindings[new].role # n
                            <8>1. c \in RoleGrants(bindings[new].role)
                                BY <1>1, <1>2, <2>5, <3>3, <7>2
                            <8> QED  BY <3>5, <8>1
                        <7> QED  BY <7>1, <7>2
                    <6> QED  BY <2>1, <2>7, <3>3, <6>1
                <5> QED  BY <1>2, <3>3, <5>1 DEF Yield
            <4> QED  BY <4>2, <4>3
        <3> QED  BY <3>4, <3>5
    <2> QED  BY <2>6, <2>7
<1>7. ReadsAreCurrent' /\ InBetween'
    BY <1>2, <1>4, <1>6 DEF Inv, ReadsAreCurrent, InBetween
<1>8. LeavesGranted'
    BY <1>2, <1>4, <1>5 DEF Inv, LeavesGranted
<1> QED  BY <1>7, <1>8

LEMMA InvKept == Inv /\ [Next]_vars => Inv'
<1> SUFFICES ASSUME Inv, [Next]_vars PROVE Inv'
    OBVIOUS
<1>1. TypeOK'
    BY TypesKept DEF Inv
<1>2. CASE Done \/ UNCHANGED vars
    <2>1. UNCHANGED vars
        BY <1>2 DEF Done
    <2>2. /\ Granted' = Granted
          /\ \A x \in Bindings : Bound(x)' = Bound(x)
          /\ \A m \in Roles : RoleGrants(m)' = RoleGrants(m)
        BY <2>1, SameGrants DEF vars
    <2>3. UNCHANGED <<method, annotations, selected, bindings, roles, pc, todo, found, clmap,
                      failed, always, ever, turns>>
        BY <2>1 DEF vars, rule, rbac, history
    <2>4. method = "bindings" => Yield' = Yield
        BY <2>2, <2>3 DEF Yield, Inv, TypeOK
    <2>5. Applies' = Applies
        BY <2>3 DEF Applies, IfClusterAdmin, User, Groups
    <2>6. \A x \in Bindings :
              Bound(x) => RoleGrants(bindings[x].role)' = RoleGrants(bindings[x].role)
        <3>1. \A x \in Bindings : Bound(x) => bindings[x].role \in Roles
            BY DEF Bound, Inv, TypeOK, Binding
        <3> QED  BY <2>2, <2>3, <3>1
    <2>7. ReadsAreCurrent'
        <3>1. ReadsAreCurrent
            BY DEF Inv
        <3>2. \A x : (Bound(x)' <=> Bound(x)) \/ x \notin Bindings
            BY <2>2
        <3>3. method = "bindings" => todo \subseteq Bindings \X Roles
            BY DEF Inv, TypeOK
        <3> QED  BY <2>2, <2>3, <2>6, <3>1, <3>2, <3>3 DEF ReadsAreCurrent
    <2>8. InBetween' /\ LeavesGranted'
        BY <2>2, <2>3, <2>4, <2>5 DEF Inv, InBetween, LeavesGranted
    <2> QED  BY <1>1, <2>7, <2>8 DEF Inv
<1>3. ASSUME Next, ~Done PROVE ReadsAreCurrent' /\ InBetween' /\ LeavesGranted'
    BY <1>3, FilterStarts, FilterLists, FilterReads, FilterReviews, FilterMisses, FilterEnds,
       BindingChanges, RoleChanges
    DEF Next
<1> QED  BY <1>1, <1>2, <1>3 DEF Inv

\* The invariant holds: what was read so far is as the RBAC was, and is, until the
\* RBAC changes, and then what is found lies between always and ever.
THEOREM FilterInvariant == Spec => []Inv
<1> QED  BY InitInv, InvKept, PTL DEF Spec

\* Every binding is compared, and every role counted, as the RBAC would: the clusters
\* that are left were granted at some moment, and none is missing that was granted
\* throughout, unless two changes meet one run of the filter.
THEOREM FilterIsRight == Spec => []LeavesGranted
<1>1. Inv => LeavesGranted
    BY DEF Inv
<1> QED  BY <1>1, FilterInvariant, PTL

=============================================================================
