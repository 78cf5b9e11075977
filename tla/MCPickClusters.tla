--------------------------- MODULE MCPickClusters ---------------------------
(* Small instances of PickClusters, and what the documentation says of it.  *)
EXTENDS PickClusters, TLC

CONSTANTS c1, c2, c3, available, up, down

Cl(c, status, res) ==
    [labels |-> {c}, conds |-> [t \in CondTypes |-> status], deleting |-> FALSE, res |-> res]

Rule(names, status, replicas, hint) ==
    [scheduler |-> "mcm", names |-> names, selector |-> {}, badSelector |-> FALSE,
     conds |-> [t \in CondTypes |-> status], replicas |-> replicas, hint |-> hint,
     user |-> FALSE]

\* Clusters fail, c1 overtakes c2, and c2 and c3 are equal.
MCStatesOf == (c1 :> {Cl(c1, up, 1), Cl(c1, up, 3), Cl(c1, down, 1)})
           @@ (c2 :> {Cl(c2, up, 2), Cl(c2, down, 2)})
           @@ (c3 :> {Cl(c3, up, 2)})

MCSpecs == {Rule({}, up, n, h) : n \in {Nil, -1, 0, 1, 2}, h \in {"none", "asc", "desc"}}
           \cup {Rule({c1, c2}, Nil, 2, "none")}

D(c, n) == [name |-> c, ns |-> n]

\* Nothing, a decision of ours, another scheduler's with its own namespaces, more of
\* them than any limit, and one that names a cluster twice.
MCDecisions0 == {<<>>, <<D(c2, c2)>>, <<D(c1, c2)>>, <<D(c3, c3), D(c2, c1)>>,
                <<D(c3, c3), D(c2, c2), D(c1, c1)>>, <<D(c2, c1), D(c2, c2)>>}

\* c1 has just been created and has not reported.
UnreportedStates == (c1 :> {Cl(c1, Nil, 0), Cl(c1, up, 0)})
                 @@ (c2 :> {Cl(c2, up, 0), Cl(c2, down, 0)})
                 @@ (c3 :> {Cl(c3, up, 0)})

NoDecisions == {<<>>}
HintSpecs == {Rule({}, Nil, Nil, "desc")}
AllSpecs == {Rule({}, up, Nil, "none")}

\* "ResourceHint is used to sort the output" (placementrule_types.go): after a
\* reconciliation the decisions are in the order of the hint.
HintSortsOutput ==
    Leaves(LAMBDA after : \A i, j \in DOMAIN after :
               i < j => ~Before(spec, view, after[j].name, after[i].name))

\* "Only selects clusters that are online" (examples/all-clusters-placement.yaml):
\* the decisions report the availability the rule asks for.
OnlyOnlineSelected ==
    Leaves(LAMBDA after : \A c \in Names(after) : view[c].conds[available] = up)
=============================================================================
