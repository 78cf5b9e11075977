---------------------- MODULE MCPlacementRuleController ----------------------
(* Small instances of PlacementRuleController.                              *)
EXTENDS PlacementRuleController, TLC

CONSTANTS c1, c2, r1, r2, ready, up, down, prod

MCLabels == {c1, c2, prod}

Cl(c, labels, status, deleting, res) ==
    [labels |-> labels \cup {c}, conds |-> [t \in CondTypes |-> status],
     deleting |-> deleting, res |-> res]

\* c1 is healthy, gains resources, fails or terminates; c2 is healthy, or relabelled
\* to production and its condition no longer reported.
MCStatesOf ==
    (c1 :> {Cl(c1, {prod}, up, FALSE, 1), Cl(c1, {prod}, up, FALSE, 3),
            Cl(c1, {prod}, down, FALSE, 1), Cl(c1, {prod}, up, TRUE, 1)})
    @@ (c2 :> {Cl(c2, {}, up, FALSE, 2), Cl(c2, {prod}, Nil, FALSE, 2)})

\* The clusters differ in resources only, and c1 gains them.
ResourceStates ==
    (c1 :> {Cl(c1, {prod}, up, FALSE, 1), Cl(c1, {prod}, up, FALSE, 3)})
    @@ (c2 :> {Cl(c2, {prod}, up, FALSE, 2)})

Rule(names, selector, status, replicas) ==
    [scheduler |-> "mcm", names |-> names, selector |-> selector,
     badSelector |-> FALSE, conds |-> [t \in CondTypes |-> status],
     replicas |-> replicas, hint |-> "none", user |-> FALSE]

AllReady == Rule({}, {}, up, Nil)
OneReady == Rule({}, {prod}, up, 1)
NoOne    == Rule({}, {}, Nil, 0)
Hinted   == [OneReady EXCEPT !.hint = "desc"]
Foreign  == [OneReady EXCEPT !.scheduler = "other"]
Broken   == [AllReady EXCEPT !.badSelector = TRUE]
ForUser  == [Hinted EXCEPT !.user = TRUE]

\* Limit and selector, another scheduler, a user and a hint.
AllSpecs == r1 :> {OneReady, Foreign, ForUser}

\* Two rules; r2 may never succeed.
TwoRules == (r1 :> {OneReady, NoOne, ForUser}) @@ (r2 :> {Broken})
=============================================================================
