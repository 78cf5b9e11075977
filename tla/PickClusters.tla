---------------------------- MODULE PickClusters ----------------------------
(****************************************************************************)
(* How one Reconcile computes and compares the decisions of a rule, on the  *)
(* ordered lists the code works with: Go's random map order, the sort by    *)
(* resource hint, the pick loops, and the comparison that decides whether   *)
(* the status is written.  Between reconciliations clusters and the spec    *)
(* change.  The concurrency around it is in PlacementRuleController.        *)
(****************************************************************************)
EXTENDS Selection, SequencesExt

CONSTANTS Specs,       \* specs users may give the rule
          StatesOf,    \* StatesOf[c]: the states cluster c may be in
          Decisions0,  \* lists of decisions another scheduler may leave
          MaxChanges   \* bound: changes of clusters and spec

\* A PlacementDecision; this controller gives a cluster its own namespace.
Decision == [name : Clusters, ns : Clusters]

\* Mutant: the namespace is left out.
Nameless(c) == [name |-> c, ns |-> Nil]

Own(c) == [name |-> c, ns |-> c]

\* The rules are this controller's, can be worked on, and are nobody's in particular.
ASSUME InputsAssumption ==
    /\ IsFiniteSet(Clusters)
    /\ Nil \notin Int
    /\ Specs \subseteq {s \in SpecRecord : Mcm(s) /\ ~Unparsable(s) /\ ~s.user}
    /\ \A c \in Clusters : StatesOf[c] \subseteq ClusterState
    /\ Decisions0 \subseteq Seq(Decision)
    /\ MaxChanges \in Nat

VARIABLES spec, view, decisions, changes

vars == <<spec, view, decisions, changes>>

NamesOf(ds) == [i \in DOMAIN ds |-> ds[i].name]
Names(ds) == ToSet(NamesOf(ds))

\* The orders in which a range over a map may visit its keys.
MapOrders(S) == SetToSeqs(S)

TypeOK == /\ spec \in Specs
          /\ view \in View /\ \A c \in Clusters : view[c] \in StatesOf[c] \cup {Nil}
          /\ decisions \in Seq(Decision)
          /\ changes \in 0 .. MaxChanges

-----------------------------------------------------------------------------
(* sortClustersByResourceHint                                               *)

\* Mutant: the order of the hint is not looked at.
LessAscending(x, y) == view[x].res < view[y].res

\* clusterIndex.Less: in descending order equal clusters are less, both ways.
Less(x, y) == LET less == view[x].res < view[y].res
              IN  IF spec.hint = "asc" THEN less ELSE ~less

\* Insertion, the sort.Sort of short lists: x moves left while it is less.
Insert(sorted, x) ==
    LET stays == {i \in DOMAIN sorted : ~Less(x, sorted[i])}
    IN  InsertAt(sorted, 1 + Max({0} \cup stays), x)

Sort(clusters) ==
    LET sorted[n \in 0 .. Len(clusters)] ==
            IF n = 0 THEN <<>> ELSE Insert(sorted[n - 1], clusters[n])
    IN  sorted[Len(clusters)]

-----------------------------------------------------------------------------
(* pickClustersByReplicas                                                   *)

\* The number to pick, of n clusters; negative for negative replicas.
Limit(n) == IF spec.replicas # Nil /\ n > spec.replicas THEN spec.replicas ELSE n

\* A turn of its loops: c is picked if it is in the map, from which what is picked
\* goes, and if total is not reached.
Take(clmap, total, picked, c) ==
    IF c \in clmap \ ToSet(picked) /\ Len(picked) < total THEN Append(picked, c) ELSE picked

\* One loop, over list, when some are picked already.
TakeFrom(clmap, total, picked0, list) ==
    LET picked[n \in 0 .. Len(list)] ==
            IF n = 0 THEN picked0 ELSE Take(clmap, total, picked[n - 1], list[n])
    IN  picked[Len(list)]

\* Mutant: what the map yields comes before the existing decisions.
PickMapFirst(clmap, total, order) ==
    TakeFrom(clmap, total, TakeFrom(clmap, total, <<>>, order), NamesOf(decisions))

\* The existing decisions first, then the map.
PickUnsorted(clmap, total, order) ==
    TakeFrom(clmap, total, TakeFrom(clmap, total, <<>>, NamesOf(decisions)), order)

Pick(clmap, order) ==
    LET total == Limit(Cardinality(clmap))
    IN  IF spec.hint = "none" THEN PickUnsorted(clmap, total, order)
                              ELSE TakeFrom(clmap, total, <<>>, Sort(order))

-----------------------------------------------------------------------------
(* Reconcile                                                                *)

\* orgclmap, of whose entries for one cluster the last one wins.
OldNamespace(c) == decisions[Max({i \in DOMAIN decisions : decisions[i].name = c})].ns

\* The loop over the new decisions deletes from the old map what it finds there.
Updated(new) ==
    \/ \E i \in DOMAIN new :
          \/ new[i].name \notin Names(decisions) \ Names(SubSeq(new, 1, i - 1))
          \/ new[i].ns # OldNamespace(new[i].name)
    \/ Names(decisions) \ Names(new) # {}

\* hubReconcile, with an order for the one range over the map that matters.
Decide(order) ==
    LET clmap == Eligible(spec, view)
        new   == IF spec.replicas = 0 THEN <<>> ELSE Pick(clmap, order)
    IN  [i \in DOMAIN new |-> Own(new[i])]

\* The status after a Reconcile: written only if it has changed.
After(order) == IF Updated(Decide(order)) THEN Decide(order) ELSE decisions

Reconcile(order) ==
    /\ decisions' = After(order)
    /\ UNCHANGED <<spec, view, changes>>

Change == changes < MaxChanges /\ changes' = changes + 1

ChangeCluster(c) ==
    /\ Change
    /\ \E cl \in (StatesOf[c] \cup {Nil}) \ {view[c]} : view' = [view EXCEPT ![c] = cl]
    /\ UNCHANGED <<spec, decisions>>

EditSpec ==
    /\ Change
    /\ spec' \in Specs \ {spec}
    /\ UNCHANGED <<view, decisions>>

Init == /\ spec \in Specs
        /\ view \in [Clusters -> (UNION {StatesOf[c] : c \in Clusters}) \cup {Nil}]
        /\ \A c \in Clusters : view[c] \in StatesOf[c] \cup {Nil}
        /\ decisions \in Decisions0
        /\ changes = 0

Next == \/ \E order \in MapOrders(Eligible(spec, view)) : Reconcile(order)
        \/ \E c \in Clusters : ChangeCluster(c)
        \/ EditSpec

Spec == Init /\ [][Next]_vars

-----------------------------------------------------------------------------
(* Properties.                                                              *)

\* A property of the status that a Reconcile leaves, in whatever order it ranges.
Leaves(Property(_)) == \A order \in MapOrders(Eligible(spec, view)) : Property(After(order))

\* No cluster twice, each with the namespace this controller gives it.
Proper(ds) == /\ \A i, j \in DOMAIN ds : ds[i].name = ds[j].name => i = j
              /\ \A i \in DOMAIN ds : ds[i] = Own(ds[i].name)

\* The loops, the sort with its unusual Less and the comparison by map implement
\* the choice between sets that the other modules reason with.  Whatever another
\* scheduler wrote, the status has this controller's namespaces and names no
\* cluster twice, unless it did so before: the comparison does not see that.
ImplementsPicks ==
    Leaves(LAMBDA after :
        /\ Names(after) \in Picks(spec, view, Eligible(spec, view), Names(decisions))
        /\ after = decisions \/ Proper(after)
        /\ IsInjective(NamesOf(decisions)) => Proper(after))

Untied == spec.hint = "none" \/ \A x, y \in Eligible(spec, view) :
                                    view[x].res = view[y].res => x = y

\* The status update of a reconciliation triggers the next one, which must not
\* write again: a status this controller may have chosen is left as it is, unless
\* a hint has ties to break (then map order may change the choice every time).
SelfTriggerSettles ==
    /\ Untied
    /\ Proper(decisions)
    /\ Names(decisions) \in Picks(spec, view, Eligible(spec, view), Names(decisions))
    => Leaves(LAMBDA after : after = decisions)
=============================================================================
