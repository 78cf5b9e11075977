----------------------------- MODULE UserFilter -----------------------------
(****************************************************************************)
(* Which of the selected clusters a rule's user may use.  The controller    *)
(* works it out from the cluster role bindings and the roles they name,     *)
(* listing the former and then reading the latter one by one, while the     *)
(* RBAC may change; the library has a second way, an access review for each *)
(* cluster.  Both are here, beside what the RBAC itself says.               *)
(*                                                                          *)
(* Bindings and roles are what the informers have of them, for reviews what *)
(* the API server has.  The API server only stores cluster role bindings    *)
(* that name a ClusterRole.  Names of users and groups are sequences of     *)
(* segments: "a:b" is <<a, b>>.                                             *)
(****************************************************************************)
EXTENDS Naturals, Sequences

CONSTANTS Clusters,    \* the selected clusters come from these
          AdminUsers,  \* last segments of users the code takes for administrators
          AdminGroups, \* and of groups
          Annotations, \* the annotations of rules: see Annotated
          Bindings,    \* names of ClusterRoleBindings
          Roles,       \* names of ClusterRoles
          BindingsOf,  \* BindingsOf[b]: the bindings that may exist as b
          RolesOf,     \* RolesOf[n]: the lists of policy rules role n may have
          Nil,         \* absent: no object, no annotation
          Undecodable, \* an annotation that is not base64
          MaxChanges   \* bound: changes of bindings and roles

\* A subject names a user, a group, or a service account in its namespace; the API
\* server refuses a service account without name or namespace.
Subject == [kind : {"User", "Group"}, name : Seq(STRING)]
           \cup [kind : {"ServiceAccount"}, ns : STRING \ {""}, name : STRING \ {""}]

Binding == [subjects : SUBSET Subject, role : Roles]

\* names: the clusters the rule is restricted to; none means all.
PolicyRule == [apiGroups : SUBSET STRING, resources : SUBSET STRING,
               verbs : SUBSET STRING, names : SUBSET Clusters]

Annotated == [user   : Seq(STRING) \cup {Nil, Undecodable},
              groups : (SUBSET Seq(STRING)) \cup {Nil, Undecodable}]

ASSUME RBACAssumption ==
    /\ \A b \in Bindings : BindingsOf[b] \subseteq Binding \cup {Nil}
    /\ \A n \in Roles : RolesOf[n] \subseteq (SUBSET PolicyRule) \cup {Nil}

ASSUME AnnotationsAssumption == Annotations \subseteq Annotated

ASSUME ChangesAssumption == MaxChanges \in Nat

VARIABLES method,      \* "bindings", or "reviews" for the library's way
          annotations, \* of the rule
          selected,    \* the clusters before the filter
          bindings,    \* the ClusterRoleBindings
          roles,       \* the ClusterRoles
          pc, todo,    \* what is still to be read: <<binding, role>>, or clusters
          found,       \* the clusters found to be granted so far
          clmap,       \* the clusters, in the end without those not granted
          failed,      \* what could not be read: "nothing", "list" or "item"
          always,      \* history: clusters granted ever since the filter began
          ever,        \* history: clusters granted at some moment since then
          turns,       \* history: changes of the RBAC since then
          changes      \* changes of the RBAC so far

rule    == <<method, annotations, selected>>
rbac    == <<bindings, roles>>
history == <<always, ever, turns>>
vars    == <<rule, rbac, pc, todo, found, clmap, failed, history, changes>>

-----------------------------------------------------------------------------
(* Who the rule is for.                                                     *)

\* ExtractUserAndGroup
User   == IF annotations.user \in {Nil, Undecodable} THEN <<"">> ELSE annotations.user
Groups == IF annotations.groups \in {Nil, Undecodable} THEN {} ELSE annotations.groups

Last(name) == name[Len(name)]

IfClusterAdmin == \/ Last(User) \in AdminUsers
                  \/ \E g \in Groups : Last(g) \in AdminGroups

\* Does the filter look at all?  The library does not know administrators.
Applies == annotations.user # Nil /\ (method = "bindings" => ~IfClusterAdmin)

\* Mutant: any group is the user's.
SubjectOfAnyGroup(s) == s.kind = "Group" \/ (s.kind = "User" /\ s.name = User)

SubjectFound(s) ==
    \/ s.kind = "User" /\ s.name = User
    \/ s.kind = "Group" /\ s.name \in Groups
    \/ /\ s.kind = "ServiceAccount" /\ s.ns # "" /\ s.name # ""
       /\ User = <<"system", "serviceaccount", s.ns, s.name>>

Bound(b) == bindings[b] # Nil /\ \E s \in bindings[b].subjects : SubjectFound(s)

-----------------------------------------------------------------------------
(* What a role grants.                                                      *)

\* Mutant: a rule for another verb counts.
GetsWhateverVerb(p) ==
    /\ {"cluster.open-cluster-management.io", "*"} \cap p.apiGroups # {}
    /\ {"managedclusters", "*"} \cap p.resources # {}

GetsManagedClusters(p) ==
    /\ {"cluster.open-cluster-management.io", "*"} \cap p.apiGroups # {}
    /\ {"managedclusters", "*"} \cap p.resources # {}
    /\ {"get", "*"} \cap p.verbs # {}

\* GetManagedClusters; the marker ALL_CLUSTERS stands for every cluster.
GetManagedClusters(policy) ==
    UNION {IF p.names = {} THEN Clusters ELSE p.names :
               p \in {q \in policy : GetsManagedClusters(q)}}

\* A role that does not exist grants nothing.
RoleGrants(n) == IF roles[n] = Nil THEN {} ELSE GetManagedClusters(roles[n])

-----------------------------------------------------------------------------
(* What the RBAC itself says of a request to get a cluster.                 *)

Covers(listed, x) == x \in listed \/ "*" \in listed

RuleAllows(p, c) == /\ Covers(p.apiGroups, "cluster.open-cluster-management.io")
                    /\ Covers(p.resources, "managedclusters")
                    /\ Covers(p.verbs, "get")
                    /\ p.names = {} \/ c \in p.names

\* The subjects that stand for the user.
Identities == {s \in UNION {b.subjects : b \in {bindings[n] : n \in Bindings} \ {Nil}} :
                  \/ s = [kind |-> "User", name |-> User]
                  \/ \E g \in Groups : s = [kind |-> "Group", name |-> g]
                  \/ /\ s.kind = "ServiceAccount"
                     /\ User = <<"system", "serviceaccount", s.ns, s.name>>}

Authorizes(b, c) == /\ bindings[b] # Nil
                    /\ bindings[b].subjects \cap Identities # {}
                    /\ roles[bindings[b].role] # Nil
                    /\ \E p \in roles[bindings[b].role] : RuleAllows(p, c)

Granted == {c \in Clusters : \E b \in Bindings : Authorizes(b, c)}

-----------------------------------------------------------------------------
(* The filter.                                                              *)

TypeOK == /\ method \in {"bindings", "reviews"}
          /\ annotations \in Annotated
          /\ selected \subseteq Clusters
          /\ \A b \in Bindings : bindings[b] \in Binding \cup {Nil}
          /\ \A n \in Roles : roles[n] \in (SUBSET PolicyRule) \cup {Nil}
          /\ DOMAIN bindings = Bindings /\ DOMAIN roles = Roles
          /\ pc \in {"start", "list", "items", "done"}
          /\ todo \subseteq (IF method = "bindings" THEN Bindings \X Roles ELSE selected)
          /\ found \subseteq Clusters
          /\ clmap \subseteq selected
          /\ failed \in {"nothing", "list", "item"}
          /\ always \subseteq Clusters /\ ever \subseteq Clusters
          /\ turns \in 0 .. changes /\ changes \in 0 .. MaxChanges

Init == /\ method \in {"bindings", "reviews"}
        /\ annotations \in Annotations
        /\ selected \in SUBSET Clusters
        /\ bindings \in [Bindings -> UNION {BindingsOf[b] : b \in Bindings}]
        /\ \A b \in Bindings : bindings[b] \in BindingsOf[b]
        /\ roles \in [Roles -> UNION {RolesOf[n] : n \in Roles}]
        /\ \A n \in Roles : roles[n] \in RolesOf[n]
        /\ pc = "start"
        /\ todo = {} /\ found = {} /\ clmap = selected
        /\ failed = "nothing"
        /\ always = Granted /\ ever = Granted
        /\ turns = 0 /\ changes = 0

\* The filter leaves the clusters alone if it does not apply.
Start ==
    /\ pc = "start"
    /\ pc' = IF Applies THEN "list" ELSE "done"
    /\ always' = Granted /\ ever' = Granted /\ turns' = 0
    /\ UNCHANGED <<rule, rbac, todo, found, clmap, failed, changes>>

\* ValidateClustersByClusterRole lists the bindings and notes their roles; the
\* library goes through the clusters.
ListItems ==
    /\ pc = "list"
    /\ todo' = IF method = "bindings"
               THEN {<<b, bindings[b].role>> : b \in {x \in Bindings : Bound(x)}}
               ELSE selected
    /\ pc' = "items"
    /\ UNCHANGED <<rule, rbac, found, clmap, failed, history, changes>>

\* Without the bindings nothing is filtered.
ListFails ==
    /\ pc = "list" /\ method = "bindings"
    /\ failed' = "list"
    /\ pc' = "done"
    /\ UNCHANGED <<rule, rbac, todo, found, clmap, history, changes>>

\* One Get of a role.
ReadRole(b, n) ==
    /\ pc = "items" /\ method = "bindings" /\ <<b, n>> \in todo
    /\ found' = found \cup RoleGrants(n)
    /\ todo' = todo \ {<<b, n>>}
    /\ UNCHANGED <<rule, rbac, pc, clmap, failed, history, changes>>

\* One SubjectAccessReview.
Review(c) ==
    /\ pc = "items" /\ method = "reviews" /\ c \in todo
    /\ found' = found \cup ({c} \cap Granted)
    /\ todo' = todo \ {c}
    /\ UNCHANGED <<rule, rbac, pc, clmap, failed, history, changes>>

\* A Get or a review that fails grants nothing.
ItemFails ==
    /\ pc = "items"
    /\ \E item \in todo : todo' = todo \ {item}
    /\ failed' = "item"
    /\ UNCHANGED <<rule, rbac, pc, found, clmap, history, changes>>

\* Remove what was not found.
Filter ==
    /\ pc = "items" /\ todo = {}
    /\ clmap' = clmap \cap found
    /\ pc' = "done"
    /\ UNCHANGED <<rule, rbac, todo, found, failed, history, changes>>

\* Somebody changes one binding or one role.
Remembered ==
    /\ changes < MaxChanges
    /\ changes' = changes + 1
    /\ UNCHANGED <<rule, pc, todo, found, clmap, failed>>
    /\ always' = always \cap Granted' /\ ever' = ever \cup Granted' /\ turns' = turns + 1

ChangeBinding(b) ==
    /\ \E new \in BindingsOf[b] \ {bindings[b]} : bindings' = [bindings EXCEPT ![b] = new]
    /\ UNCHANGED roles
    /\ Remembered

ChangeRole(n) ==
    /\ \E new \in RolesOf[n] \ {roles[n]} : roles' = [roles EXCEPT ![n] = new]
    /\ UNCHANGED bindings
    /\ Remembered

Done == pc = "done" /\ UNCHANGED vars

Next == \/ Start \/ ListItems \/ ListFails \/ ItemFails \/ Filter \/ Done
        \/ \E b \in Bindings, n \in Roles : ReadRole(b, n)
        \/ \E c \in Clusters : Review(c)
        \/ \E b \in Bindings : ChangeBinding(b)
        \/ \E n \in Roles : ChangeRole(n)

Spec == Init /\ [][Next]_vars

-----------------------------------------------------------------------------
(* Properties.                                                              *)

\* The bindings and the roles are read at different times.  Still, unless the RBAC
\* changes twice while the filter is at it, the clusters it leaves are clusters the
\* user could get at some moment, and all those the user could get throughout, as
\* if each had been reviewed ("Thus normal RBAC users won't need to create
\* SelfSubjectAccessReview", placement.go:296).  Reviews do so however often it
\* changes, and a role or a review that fails only takes clusters away.
LeavesGranted ==
    pc = "done" /\ Applies /\ failed # "list" /\ (turns <= 1 \/ method = "reviews") =>
        /\ clmap \subseteq selected \cap ever
        /\ failed = "nothing" => selected \cap always \subseteq clmap

-----------------------------------------------------------------------------
(* The inductive invariant.                                                 *)

\* Before any change: everything read so far is as it is now.
ReadsAreCurrent ==
    turns = 0 =>
        /\ always = Granted /\ ever = Granted
        /\ found \subseteq Granted
        /\ pc = "items" /\ method = "bindings" =>
              /\ \A i \in todo : Bound(i[1]) /\ i[2] = bindings[i[1]].role
              /\ failed = "nothing" =>
                    \A b \in {x \in Bindings : Bound(x)} :
                        \/ <<b, bindings[b].role>> \in todo
                        \/ RoleGrants(bindings[b].role) \subseteq found

\* What will have been found if nothing else happens.
Yield == found \cup UNION {RoleGrants(item[2]) : item \in todo}

\* What is found, and what is still to be read, lie between always and ever.
InBetween ==
    /\ always \subseteq Granted /\ Granted \subseteq ever
    /\ pc \in {"start", "list"} => found = {} /\ clmap = selected /\ failed = "nothing"
    /\ pc = "items" => clmap = selected
    /\ pc = "items" /\ method = "bindings" /\ turns <= 1 =>
          /\ Yield \subseteq ever
          /\ failed = "nothing" => always \subseteq Yield
    /\ pc = "items" /\ method = "reviews" =>
          /\ found \subseteq ever
          /\ failed = "nothing" => selected \cap always \subseteq found \cup todo

Inv == TypeOK /\ ReadsAreCurrent /\ InBetween /\ LeavesGranted
=============================================================================
