----------------------- MODULE PlacementRuleController -----------------------
(****************************************************************************)
(* The placementrule controller: two workers reconcile PlacementRules from  *)
(* informer caches while users, clusters, grants and other schedulers       *)
(* change, watch events are delayed, requests fail and the process          *)
(* restarts.  What a reconciliation selects is in Selection.                *)
(*                                                                          *)
(* The work queue never hands one key to two workers, so a worker is        *)
(* identified with the rule it works on: job[r], at most MaxConcurrent of   *)
(* them busy at a time.                                                     *)
(****************************************************************************)
EXTENDS Selection

CONSTANTS Rules,          \* names of PlacementRules
          SpecsOf,        \* SpecsOf[r]: the specs users may give rule r
          StatesOf,       \* StatesOf[c]: the states cluster c may be in
          Grants,         \* the sets of clusters the RBAC may let the user get
          MaxConcurrent,  \* MaxConcurrentReconciles
          MaxTries,       \* attempts of retry.DefaultBackoff
          MaxChanges,     \* bound: changes of the environment
          MaxFaults       \* bound: failed requests and restarts

ASSUME BoundsAssumption ==
    /\ MaxConcurrent \in Nat \ {0}
    /\ MaxTries \in Nat \ {0}
    /\ MaxChanges \in Nat
    /\ MaxFaults \in Nat

ASSUME InputsAssumption ==
    /\ \A r \in Rules : SpecsOf[r] \subseteq SpecRecord
    /\ \A c \in Clusters : StatesOf[c] \subseteq ClusterState
    /\ Grants \subseteq SUBSET Clusters

ASSUME NilAssumption ==
    /\ Nil \notin Int
    /\ Nil \notin [spec : SpecRecord, decs : SUBSET Clusters]
    /\ Nil \notin [spec : SpecRecord, decs : SUBSET Clusters, rv : Nat]

ASSUME ClustersAssumption == IsFiniteSet(Clusters)

VARIABLES clusters,   \* informer cache of ManagedClusters
          clEvents,   \* clusters with an undelivered watch event
          granted,    \* clusters the RBAC lets the annotated user get
          api,        \* PlacementRules in the API server
          rev,        \* last resourceVersion given to each name
          ruleCache,  \* informer cache of PlacementRules
          queue,      \* rules waiting in the work queue
          job,        \* what a worker has done so far for each rule
          overlooked, \* history: rules something has changed for, since a worker
                      \* last took them, that no watch reports
          missed,     \* history: rules whose news an error has swallowed since
                      \* a worker last took them
          changes,    \* changes of the environment so far
          faults      \* failures so far

env      == <<changes, faults>>
history  == <<overlooked, missed>>
cluster  == <<clusters, clEvents, granted>>
store    == <<api, rev>>
vars     == <<clusters, clEvents, granted, api, rev, ruleCache, queue, job,
              overlooked, missed, changes, faults>>

-----------------------------------------------------------------------------
RuleObject(r) == [spec : SpecsOf[r], decs : SUBSET Clusters, rv : Nat]

NewRules(r) == [spec : SpecsOf[r], decs : {{}}, rv : {0}]

NoView == [c \in Clusters |-> Nil]

\* inst: the object read.  seen: the clusters listed.  clmap: those left after
\* the filters.  new: the decisions to write.  tries: attempts that conflicted.
Job(r) == [pc    : {"idle", "get", "list", "decide", "update"},
           inst  : RuleObject(r) \cup {Nil},
           seen  : View,
           clmap : SUBSET Clusters,
           new   : SUBSET Clusters,
           tries : 0 .. MaxTries]

IdleJob == [pc |-> "idle", inst |-> Nil, seen |-> NoView, clmap |-> {},
            new |-> {}, tries |-> 0]

TypeOK == /\ clusters \in [Clusters -> ClusterState \cup {Nil}]
          /\ clEvents \subseteq Clusters
          /\ granted \subseteq Clusters
          /\ \A r \in Rules : /\ api[r] \in RuleObject(r) \cup {Nil}
                              /\ ruleCache[r] \in RuleObject(r) \cup {Nil}
                              /\ job[r] \in Job(r)
          /\ DOMAIN api = Rules /\ DOMAIN ruleCache = Rules /\ DOMAIN job = Rules
          /\ rev \in [Rules -> Nat]
          /\ queue \subseteq Rules
          /\ overlooked \subseteq Rules
          /\ missed \subseteq Rules
          /\ changes \in 0 .. MaxChanges
          /\ faults \in 0 .. MaxFaults

\* The controller starts: users have created rules that nobody has decided on,
\* the caches are filled, and every object in them is a create event.
Init == /\ clusters \in [Clusters -> (UNION {StatesOf[c] : c \in Clusters}) \cup {Nil}]
        /\ \A c \in Clusters : clusters[c] \in StatesOf[c] \cup {Nil}
        /\ clEvents = {c \in Clusters : clusters[c] # Nil}
        /\ granted \in Grants
        /\ api \in [Rules -> (UNION {NewRules(r) : r \in Rules}) \cup {Nil}]
        /\ \A r \in Rules : api[r] \in NewRules(r) \cup {Nil}
        /\ rev = [r \in Rules |-> 0]
        /\ ruleCache = api
        /\ queue = {r \in Rules : api[r] # Nil}
        /\ job = [r \in Rules |-> IdleJob]
        /\ overlooked = {}
        /\ missed = {}
        /\ changes = 0
        /\ faults = 0

-----------------------------------------------------------------------------
(* The environment: clusters, grants, users, other schedulers.              *)

Change == changes < MaxChanges /\ changes' = changes + 1 /\ UNCHANGED faults
Fault  == faults < MaxFaults /\ faults' = faults + 1 /\ UNCHANGED changes

\* A create or a delete passes the predicate, an update only if it is relevant:
\* of the others, a hint may have wanted to know the resources.
SetCluster(c, new) ==
    /\ Change
    /\ new # clusters[c]
    /\ clusters' = [clusters EXCEPT ![c] = new]
    /\ IF clusters[c] # Nil /\ new # Nil /\ ~ClusterPredicate(clusters[c], new)
       THEN overlooked' = Rules /\ UNCHANGED clEvents
       ELSE clEvents' = clEvents \cup {c} /\ UNCHANGED overlooked
    /\ UNCHANGED <<granted, store, ruleCache, queue, job, missed>>

CreateCluster(c) ==
    /\ clusters[c] = Nil
    /\ \E cl \in StatesOf[c] : ~cl.deleting /\ SetCluster(c, cl)

\* Labels, conditions and resources change; a deletion mark is never withdrawn.
UpdateCluster(c) ==
    /\ clusters[c] # Nil
    /\ \E cl \in StatesOf[c] : (clusters[c].deleting => cl.deleting) /\ SetCluster(c, cl)

RemoveCluster(c) == clusters[c] # Nil /\ SetCluster(c, Nil)

\* Nothing watches roles and bindings.
ChangeGrants(g) ==
    /\ Change
    /\ g \in Grants \ {granted}
    /\ granted' = g
    /\ overlooked' = Rules
    /\ UNCHANGED <<clusters, clEvents, store, ruleCache, queue, job, missed>>

\* A write of the API server: a fresh resourceVersion, and the cache lags.
Put(r, spec, decs) ==
    /\ rev' = [rev EXCEPT ![r] = @ + 1]
    /\ api' = [api EXCEPT ![r] = [spec |-> spec, decs |-> decs, rv |-> rev[r] + 1]]

CreateRule(r) ==
    /\ Change
    /\ api[r] = Nil
    /\ \E spec \in SpecsOf[r] : Put(r, spec, {})
    /\ UNCHANGED <<cluster, ruleCache, queue, job, history>>

EditRule(r) ==
    /\ Change
    /\ api[r] # Nil
    /\ \E spec \in SpecsOf[r] : spec # api[r].spec /\ Put(r, spec, api[r].decs)
    /\ UNCHANGED <<cluster, ruleCache, queue, job, history>>

DeleteRule(r) ==
    /\ Change
    /\ api[r] # Nil
    /\ api' = [api EXCEPT ![r] = Nil]
    /\ UNCHANGED <<cluster, rev, ruleCache, queue, job, history>>

\* Another scheduler writes the decisions of a rule that names it.
ForeignSchedule(r) ==
    /\ Change
    /\ api[r] # Nil
    /\ ~Mcm(api[r].spec)
    /\ \E decs \in SUBSET Clusters : decs # api[r].decs /\ Put(r, api[r].spec, decs)
    /\ UNCHANGED <<cluster, ruleCache, queue, job, history>>

\* Mutant: the watch of rules has a predicate that passes changed specs only.
ResyncFiltered(r) ==
    /\ ruleCache[r] # Nil
    /\ UNCHANGED <<cluster, store, ruleCache, queue, job, history, env>>

\* The informers' periodic resync: an update event without a change, which
\* ClusterPredicate drops for clusters and nothing drops for rules.  Its period
\* is set nowhere: it is controller-runtime's, ten hours.
Resync(r) ==
    /\ ruleCache[r] # Nil
    /\ queue' = queue \cup {r}
    /\ UNCHANGED <<cluster, store, ruleCache, job, history, env>>

\* The process dies and starts again: queue, workers and undelivered events are
\* lost, the caches are listed anew, and every listed object is a create event.
Restart ==
    /\ Fault
    /\ ruleCache' = api
    /\ queue' = {r \in Rules : api[r] # Nil}
    /\ job' = [r \in Rules |-> IdleJob]
    /\ clEvents' = {c \in Clusters : clusters[c] # Nil}
    /\ UNCHANGED <<clusters, granted, store, history>>

-----------------------------------------------------------------------------
(* Watches.                                                                 *)

\* The rule informer catches up with the API server and enqueues the key.
SyncRule(r) ==
    /\ ruleCache[r] # api[r]
    /\ ruleCache' = [ruleCache EXCEPT ![r] = api[r]]
    /\ queue' = queue \cup {r}
    /\ UNCHANGED <<cluster, store, job, history, env>>

\* Mutant: the mapper leaves out rules that have decisions.
MapClusterToEmpty(c) ==
    /\ c \in clEvents
    /\ clEvents' = clEvents \ {c}
    /\ queue' = queue \cup {r \in Rules : ruleCache[r] # Nil /\ ruleCache[r].decs = {}}
    /\ UNCHANGED <<clusters, granted, store, ruleCache, job, history, env>>

\* ClusterPlacementRuleMapper.Map: any cluster event enqueues every cached rule.
MapCluster(c) ==
    /\ c \in clEvents
    /\ clEvents' = clEvents \ {c}
    /\ queue' = queue \cup {r \in Rules : ruleCache[r] # Nil}
    /\ UNCHANGED <<clusters, granted, store, ruleCache, job, history, env>>

\* Its list of the rules fails: the error is logged, no request is made, and the
\* event is gone.
MapClusterFails(c) ==
    /\ Fault
    /\ c \in clEvents
    /\ clEvents' = clEvents \ {c}
    /\ missed' = Rules
    /\ UNCHANGED <<clusters, granted, store, ruleCache, queue, job, overlooked>>

-----------------------------------------------------------------------------
(* A worker.                                                                *)

Busy == {r \in Rules : job[r].pc # "idle"}

Take(r) ==
    /\ r \in queue
    /\ job[r].pc = "idle"
    /\ Cardinality(Busy) < MaxConcurrent
    /\ queue' = queue \ {r}
    /\ job' = [job EXCEPT ![r].pc = "get"]
    /\ overlooked' = overlooked \ {r}
    /\ missed' = missed \ {r}
    /\ UNCHANGED <<cluster, store, ruleCache, env>>

\* Reconcile returns nil, or an error and the key goes back to the queue.
Finish(r) == job' = [job EXCEPT ![r] = IdleJob] /\ UNCHANGED queue
Requeue(r) == job' = [job EXCEPT ![r] = IdleJob] /\ queue' = queue \cup {r}

\* After hubReconcile has decided new: is there anything to write?
Compare(r, inst, clmap, new) ==
    IF new = inst.decs THEN Finish(r)
    ELSE /\ job' = [job EXCEPT ![r] = [pc |-> "update", inst |-> inst, seen |-> NoView,
                                        clmap |-> clmap, new |-> new, tries |-> 0]]
         /\ UNCHANGED queue

\* Get, the scheduler guard and the shortcut for zero replicas.
GetRule(r) ==
    /\ job[r].pc = "get"
    /\ LET inst == ruleCache[r] IN
         IF inst = Nil \/ ~Mcm(inst.spec) THEN Finish(r)
         ELSE IF inst.spec.replicas = 0 THEN Compare(r, inst, {}, {})
         ELSE /\ job' = [job EXCEPT ![r].pc = "list", ![r].inst = inst]
              /\ UNCHANGED queue
    /\ UNCHANGED <<cluster, store, ruleCache, history, env>>

\* PlaceByGenericPlacmentFields: parse the selector, list the clusters.
ListClusters(r) ==
    /\ job[r].pc = "list"
    /\ IF Unparsable(job[r].inst.spec) THEN Requeue(r)
       ELSE /\ job' = [job EXCEPT ![r].pc = "decide", ![r].seen = clusters]
            /\ UNCHANGED queue
    /\ UNCHANGED <<cluster, store, ruleCache, history, env>>

\* An IsNotFound of that list is no error: there are no clusters.
ListsNothing(r) ==
    /\ Fault
    /\ job[r].pc = "list"
    /\ ~Unparsable(job[r].inst.spec)
    /\ job' = [job EXCEPT ![r].pc = "decide", ![r].seen = NoView]
    /\ missed' = missed \cup {r}
    /\ UNCHANGED <<cluster, store, ruleCache, queue, overlooked>>

\* The user filter, then the pick.
Decide(r, permitted) ==
    /\ job[r].pc = "decide"
    /\ LET inst  == job[r].inst
           clmap == Eligible(inst.spec, job[r].seen) \cap permitted
       IN  \E new \in Picks(inst.spec, job[r].seen, clmap, inst.decs) :
               Compare(r, inst, clmap, new)
    /\ UNCHANGED <<cluster, store, ruleCache>>

DecideForAll(r) == Decide(r, Clusters) /\ ~job[r].inst.spec.user /\ UNCHANGED <<history, env>>

DecideForUser(r) == Decide(r, granted) /\ job[r].inst.spec.user /\ UNCHANGED <<history, env>>

\* A failed list of the bindings filters nothing; a role that cannot be read
\* grants nothing.
DecideDespiteFault(r) ==
    /\ Fault
    /\ job[r].inst # Nil /\ job[r].inst.spec.user
    /\ \E permitted \in {Clusters} \cup SUBSET granted : Decide(r, permitted)
    /\ overlooked' = overlooked \cup {r}
    /\ UNCHANGED missed

\* Mutant: an update that overwrites whatever is stored.
CurrentAlways(r) == api[r] # Nil /\ job[r].inst # Nil

\* UpdateStatus: one attempt.  The API server accepts the object it last stored.
Current(r) == api[r] # Nil /\ job[r].inst # Nil /\ api[r].rv = job[r].inst.rv

Store(r) == /\ job[r].pc = "update"
            /\ Current(r)
            /\ Put(r, api[r].spec, job[r].new)

WriteStatus(r) ==
    /\ Store(r)
    /\ Finish(r)
    /\ UNCHANGED <<cluster, ruleCache, history, env>>

\* The write is applied and its answer is lost.
WriteStatusUnheard(r) ==
    /\ Fault
    /\ Store(r)
    /\ Requeue(r)
    /\ UNCHANGED <<cluster, ruleCache, history>>

\* Mutant: a retry that sends the decisions with the version stored now.
ConflictRefresh(r) ==
    /\ job[r].pc = "update"
    /\ api[r] # Nil /\ ~Current(r)
    /\ IF job[r].tries + 1 < MaxTries
       THEN /\ job' = [job EXCEPT ![r].tries = @ + 1, ![r].inst.rv = api[r].rv]
            /\ UNCHANGED queue
       ELSE Requeue(r)
    /\ UNCHANGED <<cluster, store, ruleCache, history, env>>

\* RetryOnConflict repeats the call with the same object.
Conflict(r) ==
    /\ job[r].pc = "update"
    /\ api[r] # Nil /\ ~Current(r)
    /\ IF job[r].tries + 1 < MaxTries
       THEN job' = [job EXCEPT ![r].tries = @ + 1] /\ UNCHANGED queue
       ELSE Requeue(r)
    /\ UNCHANGED <<cluster, store, ruleCache, history, env>>

UpdateGone(r) ==
    /\ job[r].pc = "update"
    /\ api[r] = Nil
    /\ Requeue(r)
    /\ UNCHANGED <<cluster, store, ruleCache, history, env>>

\* Mutant: the error is logged, and Reconcile returns nil.
RequestFailsForGood(r) ==
    /\ Fault
    /\ job[r].pc \in {"get", "list", "update"}
    /\ Finish(r)
    /\ UNCHANGED <<cluster, store, ruleCache, history>>

\* Any read or write fails otherwise: Reconcile returns the error.
RequestFails(r) ==
    /\ Fault
    /\ job[r].pc \in {"get", "list", "update"}
    /\ Requeue(r)
    /\ UNCHANGED <<cluster, store, ruleCache, history>>

-----------------------------------------------------------------------------
Environment ==
    \/ \E c \in Clusters : CreateCluster(c) \/ UpdateCluster(c) \/ RemoveCluster(c)
    \/ \E g \in Grants : ChangeGrants(g)
    \/ \E r \in Rules : \/ CreateRule(r) \/ EditRule(r) \/ DeleteRule(r)
                        \/ ForeignSchedule(r) \/ Resync(r)
    \/ Restart

Worker(r) ==
    \/ GetRule(r) \/ ListClusters(r)
    \/ DecideForAll(r) \/ DecideForUser(r)
    \/ WriteStatus(r) \/ Conflict(r) \/ UpdateGone(r)

Failing(r) ==
    \/ ListsNothing(r) \/ DecideDespiteFault(r)
    \/ WriteStatusUnheard(r) \/ RequestFails(r)

\* Nothing to do until the environment moves.
Quiet == /\ clEvents = {} /\ queue = {} /\ Busy = {} /\ ruleCache = api
         /\ UNCHANGED vars

Next == \/ Environment
        \/ \E c \in Clusters : MapCluster(c) \/ MapClusterFails(c)
        \/ \E r \in Rules : SyncRule(r) \/ Take(r) \/ Worker(r) \/ Failing(r)
        \/ Quiet

Spec == Init /\ [][Next]_vars

\* Informers deliver, and a worker that has a key runs on.  The queue is FIFO:
\* a key that waits is taken even if other keys keep coming.
Fairness == /\ \A c \in Clusters : WF_vars(MapCluster(c))
            /\ \A r \in Rules : /\ WF_vars(SyncRule(r))
                                /\ WF_vars(Worker(r))
                                /\ SF_vars(Take(r))

FairSpec == Spec /\ Fairness

\* The informers go on resyncing.
Resyncs == \A r \in Rules : WF_vars(Resync(r))

-----------------------------------------------------------------------------
(* Properties.                                                              *)

\* Rules this controller decides on and can: Reconcile does not fail on the spec.
Promised(spec) == Mcm(spec) /\ (Unparsable(spec) => spec.replicas = 0)

Permitted(spec) == IF spec.user THEN granted ELSE Clusters

\* Nothing promises a rule that has been overlooked that grants and resources are
\* looked at once more; all that other rules depend on is watched.
Right(r, decisions) ==
    api[r] # Nil /\ Promised(api[r].spec) =>
        LET spec == api[r].spec
        IN  /\ ~spec.user \/ r \notin overlooked =>
                  Acceptable(spec, clusters, Permitted(spec), decisions)
            /\ r \notin overlooked =>
                  BestRanked(spec, clusters, Permitted(spec), decisions)

RightDecisions(r) == Right(r, IF api[r] = Nil THEN {} ELSE api[r].decs)

\* Something that will make a worker look at r again.
Awaited(r) == ruleCache[r] # api[r] \/ r \in queue \/ clEvents # {}

\* No event, stale read, conflict, restart or request that fails in Reconcile is the
\* last word: whenever no work is pending for a rule, its decisions are clusters
\* that exist, match and are not terminating, as many as asked for; and unless a
\* grant or a resource has changed behind the watches' backs, they are clusters its
\* user may use and none of them is outranked.  Excepted, until it is looked at
\* again, is a rule that one of the two swallowed errors has hit: the mapper's list
\* of rules failed (placementrule_controller.go:111) or the list of clusters gave
\* IsNotFound (utils/placement.go:80).
NoLostWakeup ==
    \A r \in Rules \ missed : ~Awaited(r) /\ job[r].pc = "idle" => RightDecisions(r)

\* A write of a worker.
Writes(r) == WriteStatus(r) \/ WriteStatusUnheard(r)

\* The decisions are a pick from the worker's clmap for the object.
PickedAnew(r, object, decs) ==
    LET kept == object.decs \cap job[r].clmap
    IN  /\ Cardinality(decs) = Total(object.spec, Cardinality(job[r].clmap))
        /\ object.spec.hint = "none" => kept \subseteq decs \/ decs \subseteq kept

\* A write replaces the decisions it was computed from: it stores a selection of
\* the current spec that gives up a current decision only when the limit or the
\* cluster's ineligibility forces it.  (Reconcile computes from a cached object;
\* only the resourceVersion ties the write to it.)
KeepsDecisions ==
    [][\A r \in Rules : Writes(r) => PickedAnew(r, api[r], api'[r].decs)]_vars

\* A rule that names another scheduler is never written, even when the scheduler
\* is changed while the rule is being reconciled ("This placement will be ignored
\* by the default controller", examples/noop-scheduler-placement.yaml).
LeavesOthersAlone == [][\A r \in Rules : Writes(r) => Mcm(api[r].spec)]_vars

\* After one conflict every further attempt of RetryOnConflict conflicts too: the
\* retries only delay the requeue that re-reads the rule.
RetryIsFutile ==
    \A r \in Rules : job[r].pc = "update" /\ job[r].tries > 0 => ~Current(r)

\* When the environment leaves them alone, all rules that no swallowed error has hit
\* end up with right decisions and keep them, and so does one next to a rule whose
\* reconciliation always fails; no resync is needed for it.
Converges == <>[](\A r \in Rules \ missed : RightDecisions(r))

\* The resync, if it goes on, makes good what no watch reports and what errors have swallowed: in
\* the end every rule has the best of the clusters that its user may use now.
ResyncRepairs ==
    Resyncs =>
        <>[](\A r \in Rules : api[r] # Nil /\ Promised(api[r].spec) =>
                 LET spec == api[r].spec
                 IN  /\ Acceptable(spec, clusters, Permitted(spec), api[r].decs)
                     /\ BestRanked(spec, clusters, Permitted(spec), api[r].decs))

-----------------------------------------------------------------------------
(* The promise this keeps: without caches, queue, workers and versions.     *)

\* The rules as users see them.
Shown == [r \in Rules |-> IF api[r] = Nil THEN Nil
                         ELSE [spec |-> api[r].spec, decs |-> api[r].decs]]

\* The rules the controller will look at without being told to.
Due == {r \in Rules : api[r] # Nil /\ (Awaited(r) \/ job[r].pc # "idle")}

Promise == INSTANCE PlacementPromise WITH rules <- Shown, due <- Due

\* Every step of the informers, the mappers, the workers and the failures is a step
\* of the promise or invisible in it: no rule is dropped before its decisions are
\* right, unless an error is swallowed, and nothing but a worker with work to do
\* writes decisions of a rule that is this controller's.
ImplementsPromise == Promise!Spec

-----------------------------------------------------------------------------
(* The inductive invariant behind the safety properties.                    *)

\* A resourceVersion identifies what the API server stored under a name.
SameVersion(r, x, y) == x # Nil /\ y # Nil /\ x.rv = y.rv => x = y

VersionsIdentify ==
    \A r \in Rules :
        /\ \A x \in {api[r], ruleCache[r], job[r].inst} : x # Nil => x.rv <= rev[r]
        /\ SameVersion(r, api[r], ruleCache[r])
        /\ SameVersion(r, api[r], job[r].inst)

\* A worker past Get holds the cached rule, unless the rule is queued again.
InstIsCached ==
    \A r \in Rules : job[r].pc \in {"list", "decide", "update"} =>
        /\ job[r].inst # Nil
        /\ Mcm(job[r].inst.spec)
        /\ job[r].inst = ruleCache[r] \/ r \in queue

\* If nothing will wake a rule up again, what its worker has computed is right.
WorkIsCurrent ==
    \A r \in Rules \ missed : ~Awaited(r) =>
        /\ job[r].pc = "idle" => RightDecisions(r)
        /\ job[r].pc = "decide" /\ api[r] # Nil =>
              /\ Eligible(api[r].spec, job[r].seen) = Eligible(api[r].spec, clusters)
              /\ r \notin overlooked => job[r].seen = clusters
        /\ job[r].pc = "update" => Right(r, job[r].new)

\* What a worker is about to write was picked from its clmap for its inst.
PickedFromInst ==
    \A r \in Rules : job[r].pc = "update" => PickedAnew(r, job[r].inst, job[r].new)

\* The conjunction is preserved by every step.
Inv == /\ TypeOK /\ VersionsIdentify /\ InstIsCached /\ WorkIsCurrent
       /\ PickedFromInst /\ RetryIsFutile
=============================================================================
