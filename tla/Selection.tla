------------------------------ MODULE Selection ------------------------------
(****************************************************************************)
(* What a PlacementRule selects: the pure part of hubReconcile, on sets.    *)
(*                                                                          *)
(* A cluster is the part of a ManagedCluster the code reads.  Its labels    *)
(* are a set of key=value pairs; the label "name" the code matches cluster  *)
(* lists against is the cluster identifier itself.  conds gives the status  *)
(* of each reported condition type (Nil: not reported), res the allocatable *)
(* amount of the resource a hint ranks by.                                  *)
(****************************************************************************)
EXTENDS Integers, FiniteSets

CONSTANTS Clusters,   \* names of managed clusters
          Labels,     \* label key=value pairs; "name=c" is c itself
          CondTypes,  \* condition types
          Statuses,   \* condition statuses
          Nil         \* absent: no object, no limit, no condition

ClusterState == [labels   : SUBSET Labels,
                 conds    : [CondTypes -> Statuses \cup {Nil}],
                 deleting : BOOLEAN,
                 res      : Nat]

\* The informer's content: a ManagedCluster per name, or none.
View == [Clusters -> ClusterState \cup {Nil}]

\* names: spec.clusters.  selector: matchLabels of spec.clusterSelector.
\* badSelector: names that no label may have, or without names a selector that
\* LabelSelectorAsSelector refuses.
\* user: annotated with a user that is not a cluster administrator.
SpecRecord == [scheduler   : {"mcm", "other"},
               names       : SUBSET Labels,
               selector    : SUBSET Labels,
               badSelector : BOOLEAN,
               conds       : [CondTypes -> Statuses \cup {Nil}],
               replicas    : Int \cup {Nil},
               hint        : {"none", "asc", "desc"},
               user        : BOOLEAN]

Mcm(spec) == spec.scheduler = "mcm"

Unparsable(spec) == spec.badSelector

-----------------------------------------------------------------------------
\* A list of names wins over the selector.
LabelMatch(spec, cl) ==
    IF spec.names # {} THEN cl.labels \cap spec.names # {}
                       ELSE spec.selector \subseteq cl.labels

\* Only a condition that the cluster reports can disqualify it.
ConditionsMatch(spec, cl) ==
    \A t \in CondTypes :
        spec.conds[t] = Nil \/ cl.conds[t] = Nil \/ cl.conds[t] = spec.conds[t]

Listed(spec, view) ==
    {c \in Clusters : /\ view[c] # Nil
                      /\ ~view[c].deleting
                      /\ LabelMatch(spec, view[c])}

Eligible(spec, view) == {c \in Listed(spec, view) : ConditionsMatch(spec, view[c])}

-----------------------------------------------------------------------------
\* The number of clusters pickClustersByReplicas stops at, of n eligible ones.
Total(spec, n) ==
    IF spec.replicas = Nil \/ n <= spec.replicas THEN n
    ELSE IF spec.replicas < 0 THEN 0 ELSE spec.replicas

\* x ranks strictly before y.
Before(spec, view, x, y) ==
    CASE spec.hint = "asc"  -> view[x].res < view[y].res
      [] spec.hint = "desc" -> view[x].res > view[y].res
      [] OTHER              -> FALSE

\* Mutant: existing decisions are not preferred.
PicksAny(spec, view, eligible, old) ==
    {S \in SUBSET eligible : Cardinality(S) = Total(spec, Cardinality(eligible))}

\* The decisions pickClustersByReplicas may return: without a hint it keeps what
\* old has of the eligible clusters and fills up in Go's map order; with one it
\* takes a prefix of a sort that leaves equal clusters in any order.
Picks(spec, view, eligible, old) ==
    LET kept == old \cap eligible
    IN  {S \in SUBSET eligible :
            /\ Cardinality(S) = Total(spec, Cardinality(eligible))
            /\ IF spec.hint = "none"
               THEN S \subseteq kept \/ kept \subseteq S
               ELSE \A x \in S, y \in eligible \ S : ~Before(spec, view, y, x)}

-----------------------------------------------------------------------------
\* Mutant: conditions are taken for heartbeats.
PredicateWithoutConditions(old, new) ==
    old.deleting # new.deleting \/ old.labels # new.labels

\* ClusterPredicateFunc: does an update of a ManagedCluster reach the mapper?
ClusterPredicate(old, new) ==
    \/ old.deleting # new.deleting
    \/ old.labels # new.labels
    \/ old.conds # new.conds

\* What the status of a rule promises about the clusters of a view, when the rule
\* may use the permitted ones: they are eligible, as many as the limit lets in.
Acceptable(spec, view, permitted, decisions) ==
    LET eligible == Eligible(spec, view) \cap permitted
    IN  /\ decisions \subseteq eligible
        /\ Cardinality(decisions) = Total(spec, Cardinality(eligible))

\* No cluster that was left out ranks before one that was taken.
BestRanked(spec, view, permitted, decisions) ==
    \A x \in decisions, y \in (Eligible(spec, view) \cap permitted) \ decisions :
        ~Before(spec, view, y, x)
=============================================================================
