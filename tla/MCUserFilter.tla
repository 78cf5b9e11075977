---------------------------- MODULE MCUserFilter ----------------------------
(* A small instance of UserFilter.                                          *)
EXTENDS UserFilter, TLC

CONSTANTS c1, c2, A, B, b1, b2

Cluster == "cluster.open-cluster-management.io"

Policy(group, resource, verb, names) ==
    [apiGroups |-> {group, "apps"}, resources |-> {resource}, verbs |-> {verb, "list"},
     names |-> names]

GetOne == {Policy(Cluster, "managedclusters", "get", {c1})}
GetAll == {Policy("*", "*", "*", {})}

\* Rules that fail each of the three comparisons.
GetNone == {Policy("other", "managedclusters", "get", {}),
            Policy(Cluster, "other", "get", {}),
            Policy(Cluster, "managedclusters", "update", {c2})}

MCRolesOf == (A :> {Nil, GetOne, GetNone \cup {Policy(Cluster, "managedclusters", "get", {c2})}})
          @@ (B :> {GetOne, GetAll, GetNone})

ann      == <<"ann">>
dev      == <<"oidc", "dev">>
robot    == <<"system", "serviceaccount", "ns", "robot">>
OfUser   == [kind |-> "User", name |-> ann]
OfGroup  == [kind |-> "Group", name |-> dev]
OfRobot  == [kind |-> "ServiceAccount", ns |-> "ns", name |-> "robot"]

MCBindingsOf == (b1 :> {Nil, [subjects |-> {OfUser, OfRobot}, role |-> A],
                             [subjects |-> {OfGroup}, role |-> B]})
             @@ (b2 :> {[subjects |-> {OfGroup}, role |-> A],
                        [subjects |-> {OfUser, OfGroup}, role |-> B]})

For(user, groups) == [user |-> user, groups |-> groups]

\* Nobody, unreadable, a user with and without a group, a service account, and
\* administrators by name and by group.
MCAnnotations == {For(Nil, Nil), For(Undecodable, {dev}), For(ann, Nil), For(ann, {dev}),
                  For(robot, Undecodable), For(<<"kube", "admin">>, {dev}),
                  For(ann, {<<"system", "cluster-admins">>})}
=============================================================================
