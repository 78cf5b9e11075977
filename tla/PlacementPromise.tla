-------------------------- MODULE PlacementPromise --------------------------
(****************************************************************************)
(* What the placementrule controller promises.  Caches, events, the work    *)
(* queue, workers, versions, retries and failures are gone: a rule is a     *)
(* spec with decisions, and either due, which means that the controller     *)
(* will look at it without being told to, or not.  A rule stops being due   *)
(* only when its decisions are right, and while it is not due they stay     *)
(* right, unless an error has swallowed the news: then it is missed until   *)
(* the controller begins to look at it again.                               *)
(*                                                                          *)
(* PlacementRuleController implements this.                                 *)
(****************************************************************************)
EXTENDS Selection

CONSTANT Rules

VARIABLES clusters,   \* the managed clusters
          granted,    \* clusters the RBAC lets the annotated user get
          rules,      \* the PlacementRules: Nil, or spec and decisions
          due,        \* rules the controller will look at again by itself
          overlooked, \* rules that changed in what the controller is not told of,
                      \* after it last began to look at them
          missed      \* rules whose news an error has swallowed since then

vars == <<clusters, granted, rules, due, overlooked, missed>>

Existing == {r \in Rules : rules[r] # Nil}

\* Rules the controller decides on: its own, with a selector it understands or
\* nothing to select.
Promised(spec) == Mcm(spec) /\ (Unparsable(spec) => spec.replicas = 0)

Permitted(spec) == IF spec.user THEN granted ELSE Clusters

\* The right decisions: as many eligible clusters as asked for, and, as far as the
\* controller has been told, clusters the user may get and the best by the hint.
Right(r) ==
    rules[r] # Nil /\ Promised(rules[r].spec) =>
        LET spec == rules[r].spec
        IN  /\ ~spec.user \/ r \notin overlooked =>
                  Acceptable(spec, clusters, Permitted(spec), rules[r].decs)
            /\ r \notin overlooked =>
                  BestRanked(spec, clusters, Permitted(spec), rules[r].decs)

Init == /\ clusters \in View
        /\ granted \subseteq Clusters
        /\ DOMAIN rules = Rules
        /\ \A r \in Existing : rules[r].spec \in SpecRecord /\ rules[r].decs = {}
        /\ due = Existing
        /\ overlooked = {}
        /\ missed = {}

-----------------------------------------------------------------------------
\* The clusters change: every rule becomes due, unless the change is one that
\* makes no cluster eligible or ineligible.
ClustersChange ==
    /\ \/ due' = Existing /\ UNCHANGED overlooked
       \/ /\ \A r \in Existing : Eligible(rules[r].spec, clusters')
                                     = Eligible(rules[r].spec, clusters)
          /\ overlooked' = Rules
          /\ UNCHANGED due
    /\ UNCHANGED <<granted, rules, missed>>

GrantsChange ==
    /\ overlooked' = Rules
    /\ UNCHANGED <<clusters, rules, due, missed>>

\* An error swallows the news of the clusters.
NewsLost ==
    /\ due' \subseteq due
    /\ missed' = Rules
    /\ UNCHANGED <<clusters, granted, rules, overlooked>>

\* Users create, edit and delete rules; decisions are for schedulers to write, for
\* the one the rule names.
Written(r) ==
    \/ rules'[r] = Nil
    \/ /\ rules'[r] # Nil
       /\ rules[r] = Nil => rules'[r].decs = {}
       /\ rules[r] # Nil => \/ rules'[r].decs = rules[r].decs
                            \/ ~Mcm(rules[r].spec) /\ rules'[r].spec = rules[r].spec

OthersWrite(r) ==
    /\ rules' = [rules EXCEPT ![r] = rules'[r]]
    /\ Written(r)
    /\ due' = IF rules'[r] = Nil THEN due \ {r} ELSE due \cup {r}
    /\ UNCHANGED <<clusters, granted, overlooked, missed>>

\* A resync or a restart: what is not due may become so.
Remind ==
    /\ due \subseteq due' /\ due' \subseteq Existing
    /\ UNCHANGED <<clusters, granted, rules, overlooked, missed>>

\* The controller begins to look at a rule, or fails to see what it depends on.
Look(r) ==
    /\ rules[r] # Nil => r \in due
    /\ overlooked' \in {overlooked \ {r}, overlooked \cup {r}}
    /\ missed' \in {missed \ {r}, missed \cup {r}}
    /\ UNCHANGED <<clusters, granted, rules, due>>

\* It writes a choice among some clusters, which may be outdated: the rule is still
\* due.  Without a hint, the choice gives up decisions only when it has to.
Schedule(r) ==
    /\ r \in due
    /\ Mcm(rules[r].spec)
    /\ rules' = [rules EXCEPT ![r].decs = rules'[r].decs]
    /\ \E usable \in SUBSET Clusters :
         LET kept == rules[r].decs \cap usable
             decs == rules'[r].decs
         IN  /\ Cardinality(decs) = Total(rules[r].spec, Cardinality(usable))
             /\ rules[r].spec.hint = "none" => kept \subseteq decs \/ decs \subseteq kept
    /\ UNCHANGED <<clusters, granted, due, overlooked, missed>>

\* It is done with a rule whose decisions are right, as far as no error misled it.
Settle(r) ==
    /\ r \in due
    /\ due' = due \ {r}
    /\ overlooked' \in {overlooked, overlooked \cup {r}}
    /\ r \in missed \/ Right(r)'
    /\ UNCHANGED <<clusters, granted, rules, missed>>

Next == \/ ClustersChange \/ GrantsChange \/ NewsLost \/ Remind
        \/ \E r \in Rules : OthersWrite(r) \/ Look(r) \/ Schedule(r) \/ Settle(r)

Spec == Init /\ [][Next]_vars

-----------------------------------------------------------------------------
\* What the promise comes to: whenever a rule is not due, its decisions are right,
\* unless it was missed.
Kept == \A r \in Rules \ (due \cup missed) : Right(r)
=============================================================================
