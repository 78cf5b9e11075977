------------------------ MODULE ApplicationSetObjects ------------------------
(****************************************************************************)
(* What a GitOpsCluster's namespace of Argo CD needs so that ApplicationSets *)
(* can use placements: two ConfigMaps, a Role and a RoleBinding, which       *)
(* reconcileGitOpsCluster creates before it copies secrets (GitOpsCluster).  *)
(* It looks for each in the informer's cache and creates what it does not    *)
(* find; what goes wrong is only logged, and nothing watches the objects.    *)
(****************************************************************************)
EXTENDS Naturals

CONSTANTS GitOpsClusters, Namespaces,
          ArgoOf,      \* ArgoOf[g]: the namespace g names, or Nil
          Nil,
          MaxChanges,  \* bound: objects that others create or delete
          MaxFaults    \* bound: failed requests

\* The ConfigMaps acm-placementrule and acm-placement, the Role, the RoleBinding.
Kinds == {"old", "new", "role", "binding"}

Objects == Namespaces \X Kinds

ASSUME ArgoAssumption == /\ ArgoOf \in [GitOpsClusters -> Namespaces \cup {Nil}]
                         /\ Nil \notin Namespaces
ASSUME BoundsAssumption == MaxChanges \in Nat /\ MaxFaults \in Nat

VARIABLES present,    \* the objects in the API server
          known,      \* ... and in the informers' caches
          misfiled,   \* a ClusterRoleBinding of the RoleBinding's name is found
          wanted,     \* a request is in the work queue
          pc,         \* what is created next, or "idle", "next" GitOpsCluster
          todo,       \* GitOpsClusters left
          ns,         \* the namespace in hand
          disturbed,  \* history: kinds the cache was wrong about, that others
                      \* created or deleted, or for which a request failed
          changes, faults

objects == <<present, known>>
work    == <<wanted, pc, todo, ns, disturbed>>
budget  == <<changes, faults>>
vars    == <<objects, misfiled, work, budget>>

TypeOK == /\ present \subseteq Objects /\ known \subseteq Objects
          /\ misfiled \in BOOLEAN /\ wanted \in BOOLEAN
          /\ pc \in Kinds \cup {"idle", "next"}
          /\ todo \subseteq GitOpsClusters
          /\ ns \in Namespaces \cup {Nil}
          /\ (pc \in Kinds => ns # Nil) /\ (pc = "idle" => ns = Nil)
          /\ disturbed \subseteq Kinds
          /\ changes \in 0 .. MaxChanges /\ faults \in 0 .. MaxFaults

Init == /\ present \in {{}, Objects} /\ known = present
        /\ misfiled \in BOOLEAN
        /\ wanted = TRUE /\ pc = "idle" /\ todo = {} /\ ns = Nil
        /\ disturbed = {}
        /\ changes = 0 /\ faults = 0

-----------------------------------------------------------------------------
(* Others.                                                                  *)

\* An object of another name, or of another's making, does as well.
Disturb(o) ==
    /\ changes < MaxChanges /\ changes' = changes + 1
    /\ present' = IF o \in present THEN present \ {o} ELSE present \cup {o}
    /\ disturbed' = IF o[1] = ns THEN disturbed \cup {o[2]} ELSE disturbed
    /\ UNCHANGED <<known, misfiled, wanted, pc, todo, ns, faults>>

Sync(o) ==
    /\ (o \in known) # (o \in present)
    /\ known' = IF o \in present THEN known \cup {o} ELSE known \ {o}
    /\ UNCHANGED <<present, misfiled, work, budget>>

\* A watch asks for a Reconcile, the informers' resync at the latest.
Request ==
    /\ ~wanted /\ wanted' = TRUE
    /\ UNCHANGED <<objects, misfiled, pc, todo, ns, disturbed, budget>>

-----------------------------------------------------------------------------
(* Reconcile.                                                               *)

Begin ==
    /\ pc = "idle" /\ wanted
    /\ wanted' = FALSE
    /\ pc' = "next" /\ todo' = GitOpsClusters
    /\ UNCHANGED <<objects, misfiled, ns, disturbed, budget>>

\* The next GitOpsCluster; both steps refuse to go on without a namespace.
Take(g) ==
    /\ pc = "next" /\ g \in todo
    /\ todo' = todo \ {g}
    /\ ns' = ArgoOf[g]
    /\ pc' = IF ArgoOf[g] = Nil THEN "next" ELSE "old"
    /\ disturbed' = {k \in Kinds : (<<ArgoOf[g], k>> \in known) # (<<ArgoOf[g], k>> \in present)}
    /\ UNCHANGED <<objects, misfiled, wanted, budget>>

\* All are done, or the rest of reconcileGitOpsCluster fails for the one in hand.
End ==
    /\ pc = "next"
    /\ \/ todo = {} /\ UNCHANGED wanted
       \/ todo # GitOpsClusters /\ wanted' = TRUE
    /\ pc' = "idle" /\ todo' = {} /\ ns' = Nil /\ disturbed' = {}
    /\ UNCHANGED <<objects, misfiled, budget>>

\* Mutant: an object that exists ends its step.
AfterFirst == [old |-> "role", new |-> "role", role |-> "next", binding |-> "next"]

\* Where the code goes once an object exists ...
After == [old |-> "new", new |-> "role", role |-> "binding", binding |-> "next"]

\* Mutant: an error of the ConfigMaps is an error of the reconciliation.
Abandoned(k) == "next"

\* ... and where it goes if it could not be created: a step ends with its first error.
AfterError(k) == IF k \in {"old", "new"} THEN "role" ELSE "next"

\* What Get finds.  A ClusterRoleBinding is looked for in place of the RoleBinding.
Found(k) == IF k = "binding" THEN misfiled ELSE <<ns, k>> \in known

Pass(k) ==
    /\ pc = k /\ Found(k)
    /\ pc' = After[k]
    /\ UNCHANGED <<objects, misfiled, wanted, todo, ns, disturbed, budget>>

\* The API server creates an object once.
Create(k) ==
    /\ pc = k /\ ~Found(k)
    /\ present' = present \cup {<<ns, k>>}
    /\ pc' = IF <<ns, k>> \in present THEN AfterError(k) ELSE After[k]
    /\ UNCHANGED <<known, misfiled, wanted, todo, ns, disturbed, budget>>

Fault(k) ==
    /\ pc = k
    /\ faults < MaxFaults /\ faults' = faults + 1
    /\ disturbed' = disturbed \cup {k}
    /\ UNCHANGED <<known, misfiled, wanted, todo, ns, changes>>

\* An error of Get other than NotFound ends the ConfigMaps; a Role is taken to exist.
GetFails(k) ==
    /\ Fault(k)
    /\ pc' = IF k = "role" THEN After[k] ELSE AfterError(k)
    /\ UNCHANGED present

\* A failed Create may have created.
CreateFails(k) ==
    /\ Fault(k) /\ ~Found(k)
    /\ pc' = AfterError(k)
    /\ present' \in {present, present \cup {<<ns, k>>}}

Steps == \/ Begin \/ End
         \/ \E g \in GitOpsClusters : Take(g)
         \/ \E k \in Kinds : Pass(k) \/ Create(k)

Next == \/ Steps \/ Request
        \/ \E o \in Objects : Disturb(o) \/ Sync(o)
        \/ \E k \in Kinds : GetFails(k) \/ CreateFails(k)

Spec == Init /\ [][Next]_vars

\* Requests come and are worked on; the caches deliver.  The rest of a reconciliation
\* may always fail, but the list is in the random order of a Go map.
Fairness == /\ WF_vars(Request) /\ WF_vars(Steps)
            /\ \A o \in Objects : WF_vars(Sync(o))
            /\ \A g \in GitOpsClusters : SF_vars(todo = GitOpsClusters /\ Take(g))

FairSpec == Spec /\ Fairness

-----------------------------------------------------------------------------
(* Properties.                                                              *)

\* The kinds whose trouble costs k: itself, and what is created before in its step.
Needed == [old |-> {"old"}, new |-> {"old", "new"},
           role |-> {"role"}, binding |-> {"role", "binding"}]

Delivered(k) == \/ <<ns, k>> \in present
                \/ Needed[k] \cap disturbed # {}
                \/ k = "binding" /\ misfiled

\* When both steps are through with a namespace, each object exists but for trouble
\* with it or with the one created before it in the same step ("there was a problem
\* creating the configMaps" is a warning, gitopscluster_controller.go:302): trouble
\* with the ConfigMaps never costs the Role or the RoleBinding.
PassDelivers ==
    pc = "next" /\ ns # Nil => \A k \in Kinds : Delivered(k)

\* A namespace gets all objects in the end, however often requests failed or objects
\* were lost, though every error is swallowed and nothing watches the objects: later
\* Reconciles make up for it.  The RoleBinding is created unless a ClusterRoleBinding
\* of its name can be found (gitopscluster_controller.go:558).
EventuallyThere ==
    <>[](\A g \in GitOpsClusters : ArgoOf[g] # Nil =>
            \A k \in Kinds : <<ArgoOf[g], k>> \in present \/ (k = "binding" /\ misfiled))

-----------------------------------------------------------------------------
(* The inductive invariant.                                                 *)

\* What the steps are through with.
Passed == [idle |-> {}, old |-> {}, new |-> {"old"}, role |-> {"old", "new"},
           binding |-> {"old", "new", "role"}, next |-> Kinds]

\* The steps have delivered so far, and the cache is right about what is undisturbed.
DeliversSoFar ==
    pc # "idle" /\ ns # Nil =>
        /\ \A k \in Passed[pc] : Delivered(k)
        /\ \A k \in Kinds \ (Passed[pc] \cup disturbed) :
               <<ns, k>> \in known <=> <<ns, k>> \in present

Inv == TypeOK /\ DeliversSoFar
=============================================================================
