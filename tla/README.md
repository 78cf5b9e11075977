# multicloud-operators-placementrule in TLA+

This directory models the two controllers of the repository, checks the models with TLC
on small instances, and proves their safety properties with TLAPS for every value of the
constants. Paths below are relative to the repository; `PROJECT.json` maps each
definition to the lines it stands for and lists runs, mutants, findings, hazards and
theorems.

## 1. The system

Two processes run on the hub cluster of Advanced Cluster Management (ACM). They
share no memory and exchange nothing; both only talk to the API server, through
informer caches (reads) and requests (writes).

| Component | Source | State | Operations |
|---|---|---|---|
| placementrule controller | `pkg/controller/placementrule/placementrule_controller.go` | informer caches, work queue, two workers; `status.decisions` in the API server | watch events, `ClusterPlacementRuleMapper.Map`, `Reconcile`, `UpdateStatus` |
| cluster selection | `placementrule/placement.go`, `pkg/utils/placement.go` | none between calls | `hubReconcile`: selector, status filter, user filter, sort by hint, pick |
| user filter | `placement.go` 270-435, `pkg/utils/auth.go` | none | which clusters the roles of the annotated user let it get: from bindings and roles, or by an access review for each cluster |
| gitopscluster controller | `pkg/controller/gitopscluster/gitopscluster_controller.go` | informer caches, queue, one worker, the list of possible orphans during a `Reconcile`; copies of secrets and `status.phase` in the API server | watches, `placementDecisionMapper.Map`, `Reconcile`, `reconcileGitOpsCluster`, `cleanupOrphanSecrets` |
| ApplicationSet objects | same file, 458-569 | two ConfigMaps, a Role, a RoleBinding per namespace | create if missing |
| watch predicates | `pkg/utils/cluster.go` | none | which events reach a queue |
| registry detection | `pkg/utils/placement.go` 117-146, `cmd/*/exec/manager.go` | watches and poller of a process | two readiness checks at start, poller, exit |

Interactions: a ManagedCluster event enqueues every PlacementRule; a status update
of a rule comes back as an event of that rule; other schedulers write the status of
rules that name them. A change of a PlacementDecision, of a managed cluster's
secret, of a GitOpsCluster, or the deletion of a copy enqueues one request, which
processes all GitOpsClusters. Both controllers watch ManagedClusters and GitOps
objects only if the registry's API answered when they started.

What is hard: reads from caches that lag behind the controller's own writes; two
workers and events that arrive in the middle of a reconciliation; a rule changing
hands in between; predicates that drop events on purpose; random orders (Go maps)
in a loop that triggers itself; snapshots (orphans) used long after they were taken;
errors that are retried, swallowed, or end a pass half way; restarts. `hazards` in
`PROJECT.json` lists each at its line with the properties that cover it.

What makes each component correct:

- placementrule controller: no event is lost but by two errors the code swallows, so
  decisions are right when nothing is pending (`NoLostWakeup`) and become so
  (`Converges`); what was lost or is not watched, the informers' resync makes good
  (`ResyncRepairs`); decisions are not reshuffled without need (`KeepsDecisions`); rules
  of other schedulers are untouched (`LeavesOthersAlone`); and it is an implementation
  of a specification without caches, queue and workers (`ImplementsPromise`).
- selection: lists and loops implement the choice between sets (`ImplementsPicks`),
  and the self-triggered pass comes to rest (`SelfTriggerSettles`).
- user filter: the clusters left are those the RBAC grants, though bindings and roles
  are read at different times (`LeavesGranted`).
- gitopscluster controller: copies asked for are there (`ProvidedWhenSettled`,
  `EventuallyProvided`), cleanup takes none of them (`KeepsClaimed`), and what nobody
  asks for goes (`NothingLeftOver`), save what a stale list misses; what the controller
  does not come back for by itself, that list included, the informers' resync makes
  good (`ResyncTidies`); and it is an implementation of a specification without caches,
  queue, loops and status updates, which comes to rest only when the copies are those
  asked for (`ImplementsKeeper`).
- ApplicationSet objects: trouble with one step costs the other nothing
  (`PassDelivers`), and all objects are there in the end (`EventuallyThere`).
- registry detection: a manager that runs watches or has the poller that will end it,
  unless the API came between its two checks (`WatchesOrPolls`), and ends up watching
  (`EventuallyAllButRaced`; without that exception, `EventuallyWatching`, it is false).

## 2. The modules

| Module | Models | Extends |
|---|---|---|
| `Selection` | what a rule selects, on sets: filters, number, preference, cluster predicate | |
| `PlacementPromise` | what the placementrule controller promises, abstractly | `Selection` |
| `PlacementPromiseProofs` | the controller implements the promise | the controller's proofs |
| `PlacementRuleController` | queue, caches, workers, API server, environment | `Selection`; instance of `PlacementPromise` |
| `PlacementRuleControllerProofs` | its invariants and action properties | it, TLAPS |
| `PickClusters` | one reconciliation on ordered lists: sort, pick loops, comparison | `Selection` |
| `PickClustersProofs` | the lists and loops make the choice that `Picks` allows | it, TLAPS |
| `UserFilter` | the clusters a rule's user may get, while the RBAC changes | |
| `UserFilterProofs` | the filter agrees with the RBAC | it, TLAPS |
| `CopyRequests` | who asks for which copies | |
| `CopyKeeper` | what the gitopscluster controller promises, abstractly | `CopyRequests` |
| `GitOpsCluster` | the gitopscluster controller | `CopyRequests`; instance of `CopyKeeper` |
| `GitOpsClusterProofs` | types; cleanup spares what was asked for | it, TLAPS |
| `GitOpsSettledProofs` | copies asked for are there when it is settled, and no others; the controller implements `CopyKeeper` | the former |
| `ApplicationSetObjects` | steps 1a and 1b of `reconcileGitOpsCluster` | |
| `ApplicationSetObjectsProofs` | what a pass delivers | it, TLAPS |
| `RegistryDetection` | start of both managers | |
| `RegistryDetectionProofs` | nobody but who was raced is left without watches and poller | it, TLAPS |
| `MC...` | instances for TLC, and what documents say (`MCPickClusters`) | |

How they fit together: `UserFilter` works out what `PlacementRuleController` has as
`granted`; `PickClusters` refines the choice `Picks` that the controller takes in one
step; `ApplicationSetObjects` is what `GitOpsCluster` does between `VerifyArgo` and
`GetManagedClusters`, on objects of its own and with errors that are only logged, so
that neither can disturb the other. `RegistryDetection` comes before all of it.

### Selection
`hubReconcile` without orders. A cluster is what the code reads of a ManagedCluster:
labels (the label `name`, by which `spec.clusters` is matched, is the identifier
itself), the status of each reported condition, the deletion timestamp, one
allocatable resource. `ConditionsMatch` keeps the code's asymmetry: only a reported
condition can disqualify. `Picks` is the set of decision sets that
`pickClustersByReplicas` may return; that it returns nothing else is checked and
proved in `PickClusters`.

### PlacementRuleController
`ruleCache`/`api` are the two views of the rules; an API write gives a fresh version
and the cache follows in `SyncRule`, which enqueues the rule. `clusters` is the
informer's content, `clEvents` the events not yet mapped. A worker is the record
`job[r]`; its steps are the requests of `Reconcile`: `GetRule` (lines 171-202),
`ListClusters`, `DecideForAll`/`DecideForUser` (filters, pick and comparison work on
local data and are one step), `WriteStatus`/`Conflict`/`UpdateGone` (one attempt of
`RetryOnConflict` each). `Finish` and `Requeue` are the two ways to return. Faults:
failed requests, a write whose answer is lost (`WriteStatusUnheard`), a binding list
or role that cannot be read (`DecideDespiteFault`), `Restart`. Environment:
clusters come, change, terminate and go; users create, edit and delete rules; other
schedulers write; roles change (`granted`).

Two history variables say where the properties end; both are reset when the rule is
looked at again. `missed`: the rules hit by an error that the code swallows, of which
there are two. The mapper only logs that it cannot list the rules, and the cluster's event
is gone (`MapClusterFails`, lines 109-113); `PlaceByGenericPlacmentFields` takes
IsNotFound of the list of clusters for no clusters (`ListsNothing`). Of such a rule
nothing is promised. `overlooked`: the rules for which something has changed that
the controller is not told of, since it last began to look at them. That is a change
of the RBAC, which nothing watches; a change of allocatable resources, which
`ClusterPredicateFunc` drops; and a binding list that could not be read. For such a
rule nothing is promised about the user or the best cluster by the hint. `ResyncRepairs`
has no exceptions: the informers' resync enqueues every rule from time to time, and in
the end every rule has the best decisions. `DecideForUser` takes the RBAC's answer in
one step: `UserFilter` shows that reading it piece by piece comes to the same, unless
the RBAC changes meanwhile, and then the rule is overlooked. `Unparsable` is that the
selector cannot be converted, for whichever reason: a bad `clusterSelector`, or a
name in `spec.clusters` that is no label value.

### PlacementPromise
The abstract specification: a rule is a spec with decisions and is either due or not. It
stops being due only when its decisions are right (`Settle`), and what could make them
wrong makes it due again (`ClustersChange`, `OthersWrite`), or overlooked, or missed
(`NewsLost`). The refinement mapping takes the clusters, the RBAC and the rules from the
API server's side (`Shown`) and calls a rule due when its key is queued, a worker has
it, or an event on its way will enqueue it (`Due`). Taking a key, conflicts, retries,
cache updates and lost answers all become steps that change nothing.

### PickClusters
`Less` is the code's, so "descending" is reflexive on ties; `Sort` is the insertion
sort that `sort.Sort` is on slices of up to 12 elements; every `range` over a map takes
any order. `Take` is a turn of the pick loops, which differ in nothing but the list they
go over (`TakeFrom`). `Updated` is the comparison through `orgclmap`, in which the
namespace of the last entry stands for a cluster named twice (`OldNamespace`); so a
status in which another scheduler named a cluster twice may stay as it is, and
`ImplementsPicks` says so.

### UserFilter
The variable `method` is `"bindings"` for `filteClustersByUser` and
`ValidateClustersByClusterRole`, `"reviews"` for `FilteClustersByIdentity` of
`auth.go`, which only tests call and a comment of the former compares itself with.
`SubjectFound`, `GetsManagedClusters` and `GetManagedClusters` are the code's three
comparisons. `Identities`, `RuleAllows` and `Granted` are the other side, Kubernetes'
RBAC, and know nothing of the code. Bindings are listed at once (`ListItems`), roles
read one by one (`ReadRole`), each read may fail, and the RBAC may change between any
two. `always` and `ever` remember what was granted at every moment and at some moment
since the filter began. If the list fails nothing is filtered, as in the code. Names
are sequences of their segments, which is all the code takes them apart into.

### GitOpsCluster
`crs`/`crCache` with `news` (what the informer has still to deliver: something the
predicate passes, or not) and `secrets`/`secretCache` with `gone` (undelivered
deletions) are the two views of the objects the controller itself writes. `work` is the
`Reconcile` under way; actions follow its requests in order: `ListCopies`, `ListCRs`,
`NextCR`, `VerifyArgo`, `GetManagedClusters`, `CopySecret` per cluster, `FinishCR`,
`StartCleanup`, `DeleteOrphan` per key, `Finish`. `NoClusters` keeps what the code does
after an error of `GetManagedClusters`: it notes the failure and goes on with no
clusters. Decisions and sources are read without lag: the events they cause come with
the change, and a later read sees at least as much. The Placement that
`GetManagedClusters` reads first (lines 578-584) is an object of its own in an informer
of its own, `present`, which nothing watches: `MovePlacement` is that one is created,
comes to the informer after its decisions, or goes. Without it, or without a decision, a
Reconcile goes on with no clusters. All requests are one bit, since `Reconcile` only
logs which one it got.

A create, update or delete that fails may have been applied (`CopyFails`, `UpdateFails`,
`DeleteFails`). Three errors are swallowed: the mapper's list of GitOpsClusters
(`MapDecisionFails`), the lists at the start of `Reconcile` (`ListFails`), and the Get of
an orphan, which is passed over as if it were gone (`SkipOrphan`).

Two history variables say where the properties end. `unnoticed`: something for which
the code does not come back has happened since the last `Reconcile` began (an error
that was swallowed or taken for an answer; a Placement, a service or an annotation,
which nothing watches). The properties promise nothing then until the next `Reconcile`
begins, and the full promise after it. `missed`: copies that the last list of copies
lacked, because the cache did, or that have not been listed since the process started.
`ResyncTidies` has neither exception: as long as some managed cluster has a secret, the
informers repeat it, its predicate passes the update, and in the end everything asked
for is there. Then nothing else is, unless a copy asked for has no source: every
Reconcile fails on it before it comes to the cleanup.

### CopyKeeper
The abstract specification: a pass is under way or not (`busy`), and the controller has
been told to make another one or not (`told`). In a pass it claims copies, those that
GitOpsClusters ask for unless something has changed; it makes only claimed copies and
deletes only others, in any order and with any interruption. `End` requires that, if
nothing is to follow, the copies are those asked for (`Kept`); and a change of what is
asked for makes `told` true, or else `unnoticed` (`SpecChanges`, `DecisionsChange`,
`SourceChanges`, `UnwatchedChange`). In `GitOpsCluster`, `busy` is that a `Reconcile` is
under way; `told` that a request is in the queue or news that will make one is on its
way; `claimed` is `work.claims`. The loops, the reads of the cache, status updates and
their conflicts, and failures that are retried become steps that change nothing. What
`Settled` of the detailed properties asks for on top, caches in step with the API server,
`Kept` does not need. After a `Restart` with nothing to ask for anything, the controller
may rest without having looked: the copies it leaves then are `missed`.

### ApplicationSetObjects
`present`/`known` are the four objects of each namespace in the API server and in
the caches. `Take` is the beginning of a GitOpsCluster; `Pass`, `Create`, `GetFails`
and `CreateFails` are the ways through each of the four objects, in the order of the
code; `After` and `AfterError` are its control flow, in which an error of the first
ConfigMap skips the second, one of the Role skips the RoleBinding, and an error of Get
for the Role counts as "exists". `CreateFails` may have created. `misfiled` says
that a ClusterRoleBinding of the RoleBinding's name is found, since that is what
line 558 looks for. `disturbed` is history: kinds with which there was trouble.

### RegistryDetection
`Add` (the watches), `Detect` (the second check and the poller), `Poll`, `Crash`. The
API may come or go at any moment (`Flip`). `came` is history: the managers for which it
has come between the two checks of their start. Those alone may be left without watches
and poller (`WatchesOrPolls`, `EventuallyAllButRaced`), and they are (`registry_race`).

## 3. Runs, bounds, results

| Run | Instance | Shows |
|---|---|---|
| `placementrule_safety` | 1 rule of 3 specs, 2 grants, 2 clusters with 4 and 2 states, 2 workers, 2 attempts, 2 changes, 1 fault | `Inv`, `NoLostWakeup`, `KeepsDecisions`, `LeavesOthersAlone`, `ImplementsPromise` |
| `placementrule_liveness` | 2 rules, one of 3 specs and one that always fails, 2 grants, 1 worker, 1 change, 1 fault | `Converges`, `ResyncRepairs` |
| `pick_clusters` | 3 clusters, 16 specs, 6 initial statuses, 2 changes | `TypeOK`, `ImplementsPicks`, `SelfTriggerSettles` |
| `user_filter` | 2 bindings, 2 roles, 2 clusters, 7 annotations, 2 changes of the RBAC | `Inv`, `LeavesGranted` |
| `gitops_safety` | 2 GitOpsClusters, 2 Argo CD namespaces, 2 Placements, 1 cluster, 1 change, 1 fault | `Inv`, `ProvidedWhenSettled`, `NothingLeftOver` |
| `gitops_sequences` | 2 GitOpsClusters with annotations, 1 namespace, 1 Placement, 1 cluster with 2 contents, 2 changes, 1 fault | `Inv` |
| `gitops_liveness` | 2 GitOpsClusters, 1 namespace, 1 Placement or none, 1 cluster with 2 contents, 1 change, 1 fault | `EventuallyProvided`, `ResyncTidies`, `KeepsClaimed`, `ImplementsKeeper` |
| `appset_objects` | 3 GitOpsClusters, two of one namespace and one of none, 2 changes, 2 faults | `Inv`, `PassDelivers`, `EventuallyThere` |
| `registry_detection` | 2 managers, 3 flips of the API at any moment, 1 crash | `TypeOK`, `WatchesOrPolls`, `EventuallyAllButRaced` |

Why these bounds are enough: `MaxChanges` and `MaxFaults` count what the environment
does, never what the controllers do. The hazards are races of one reconciliation
with one or two events, so two changes (one to start work, one to arrive in the
middle) or a change and a fault show each of them; the mutants, one per property,
confirm that a plausible bug of each kind is found within the bounds. Two clusters let
a limit of one matter, two rules or GitOpsClusters compete for a worker or a
namespace; two bindings to two roles can grant what either alone does not, and two
changes in one filter are where its promise ends. The initial states add what further
changes would have made: any caches, rules present or not, copies left by a former
process. A fault is any failed request, lost answer, swallowed
error or restart, and every safety run has one. `gitops_sequences` trades the second
namespace and Placement of `gitops_safety` for a second change. For all safety
properties and both refinements the theorems remove the bounds altogether.

Three runs expect a violation, each of something the repository says:

- `pick_hint_order`: "ResourceHint is used to sort the output"
  (`placementrule_types.go:71`), but a list with the same clusters in another order
  is not written (`placementrule_controller.go:204-218`).
- `pick_only_online`: "Only selects clusters that are online"
  (`examples/all-clusters-placement.yaml:8`), but a cluster without the condition
  passes.
- `registry_race`: "the controller will be exited when it is ready"
  (`pkg/utils/placement.go:135`), but an API that becomes ready between `add` and
  `DetectClusterRegistry` starts neither watches nor poller.

### Fairness
Informers deliver (`MapCluster`, `SyncRule`, `SyncCR`, `SyncCopy`, `Sync`) and a worker
that has a key takes its next step (WF). `Take` of the placementrule controller is
strongly fair because the work queue is FIFO: a key that waits is taken even while
another keeps coming back. Returning an error puts the key back with a delay, which the
models leave out. In `GitOpsCluster` and `ApplicationSetObjects` being first in the loop
is strongly fair for each GitOpsCluster, since the informer cache lists a Go map, whose
order is random; without it one that always fails could shut out the others. `Request`
of `ApplicationSetObjects` is weakly fair: nothing watches those objects, but the
informers' resync sends an update of every managed cluster's secret and its predicate
passes it. That same resync, and the one of PlacementRules, is `Resync` of the two
controllers' models; only `ResyncRepairs` and `ResyncTidies` assume that it goes on
(`Resyncs`, in the properties themselves), the other liveness properties hold without
it. `ResyncTidies` needs one thing more, `BacksOff`: a request that fails again and
again is retried after longer and longer times, so that some of the passes begin when
the informer of GitOpsClusters has caught up. Without it two GitOpsClusters that can
never be served, and a cache always one status update behind, may conflict in turns for
ever, and the cleanup is not reached. That a reconciliation fails afterwards is never
excluded. No fairness is assumed of the environment or of faults, and both are finite.
In `RegistryDetection` processes start and the poller polls.

## 4. Proofs

All theorems hold for any sets of rules, clusters, GitOpsClusters, namespaces,
bindings, roles, contents and managers, any bounds, and any number of workers. Every
invariant and action property that a passing run checks is a theorem.

| Module | Theorems |
|---|---|
| `PlacementRuleControllerProofs` | `Invariance`, `TypeCorrect`, `WakeupsAreNotLost`, `RetriesAreFutile`, `DecisionsAreKept`, `OthersAreLeftAlone` |
| `PlacementPromiseProofs` | `Implementation` (the refinement), `PromiseIsKept` |
| `PickClustersProofs` | `TypeCorrect`, `LoopsImplementPicks`, `SelfTriggersSettle`, `AlwaysAChoice` |
| `UserFilterProofs` | `FilterTypeCorrect`, `FilterInvariant`, `FilterIsRight` |
| `GitOpsClusterProofs` | `OrphansInvariant`, `ClaimsAreKept` |
| `GitOpsSettledProofs` | `ServedInvariant`, `CopiesAreProvided`, `Invariance`, `NoLeftOvers`, `Implementation` (the refinement), `KeeperKeeps`, `RestsOnlyWhenKept` |
| `ApplicationSetObjectsProofs` | `DeliveryInvariant`, `Delivery` |
| `RegistryDetectionProofs` | `TypeCorrect`, `OnlyRacedAreStranded` |

The placementrule controller. That a rule's decisions are right when nothing is pending
depends on what its worker is about to write, which depends on what it has read. `Inv`
therefore says: a resourceVersion identifies an object (`VersionsIdentify`), so that a
write that is accepted was computed from the object it replaces; a worker past `Get`
holds the cached rule or the rule is queued again (`InstIsCached`); if nothing will wake
a rule up and no swallowed error has hit it, its worker's list and choice agree with the
clusters there are (`WorkIsCurrent`); the choice was picked from the worker's object
(`PickedFromInst`); an attempt after a conflict conflicts again (`RetryIsFutile`). The
heart of the argument is that `ClusterPredicate` passes every change that `Eligible`
depends on, so a worker with an outdated list is awaited. The refinement uses the same
invariant: each action, in states that satisfy it, is a named step of `PlacementPromise`
or changes nothing there; `Finish` is `Settle`, where `NoLostWakeup` of the next state
is needed.

The selection. What a loop over a list does is proved by induction over the list. The
library's induction theorems take an operator as a parameter and cannot be used, so
`Induction` is derived for sets of numbers from `WFMin` and `NatLessThanWellFounded`
(the least number outside the set has a predecessor inside it), and so is that a
recursive function as `PickClusters` writes them exists and equals its equation
(`Recursion`). For a loop over a list the invariant is what has been picked: without
repetition, from the map, no more than the limit, and all of the list that can be, in its
order, while there is room (`LoopTurn`, `LoopResult`). The sort keeps the list ranked by
`Before`, though `Less` is no order when it descends: an insertion needs only that what
stays in front may stay there (`LessAgrees`). With that the names picked from both lists,
existing decisions first, are a choice of `Picks`, and so are those of the ranked list
(`UnsortedResult`, `SortedResult`). A status of this controller is left alone because
without ties the choice that keeps what it can is unique (`OneChoice`), and the
comparison by map sees no difference between equal sets (`NotUpdated`).

The user filter. First the three comparisons of the code are shown to be those of the
RBAC, so that `Granted` is the union of what the roles of the bound bindings grant.
Until the first change everything read is as it is (`ReadsAreCurrent`); from then on
what has been and what will be found (`Yield`) lies between `always` and `ever`
(`InBetween`), because one change is of one binding or of one role, not of both.

The gitopscluster controller. Cleanup: no orphan was asked for, but for copies of the
GitOpsCluster in hand that are still to be made or whose failure ends the Reconcile
(`OrphansUnclaimed`). For the other two, the idea is a Reconcile nothing has interfered
with (`Undisturbed`): no request waits, no news is on its way and nothing unnoticed has
happened. Whatever makes a Reconcile's work worthless disturbs it, and it stays
disturbed until the next begins; so it is enough that undisturbed ones keep account.
They work on current specs (`CacheIsCurrent`), have served whom they are done with
(`ServedSoFar`), and know of every copy why it is there (`OrphansAreAll`); the last
needs that deletions of copies do not go unseen (`DeletionsAreNews`).

That it implements `CopyKeeper` follows from the same invariant, with `ListIsClaimed`:
what is still to be copied has been claimed. Each action is shown to be one named step of
`CopyKeeper` or unseen by it. The steps that need the invariant are `GetManagedClusters`
(an undisturbed pass claims what is really asked for), `CopySecret` and `DeleteOrphan`
(which keep to the claims), a change of a decision (the mapper looks at the cache, and
that lacks only annotations when nothing is on its way), and the ends of a pass, where
the invariant of the next state gives `Kept`. `KeeperKeeps` proves `Kept` of `CopyKeeper`
itself, so that the two together say when the controller may rest.

Registry detection: between its two questions a manager watches just if the API is ready
and has no poller (`AddedKnows`), unless it has come since; so a second question that
finds it ready leaves only watches or `came`.

ApplicationSet objects: what the steps are through with is there, and the cache is
right about what is undisturbed (`DeliversSoFar`), so that a Create is not refused.

Assumptions: the bounds are natural numbers, inputs have their types, `Nil` is no
integer, no spec and no namespace, `Clusters` of a rule is finite; the specs of
`PickClusters` are for this controller, have a selector that can be parsed, and no user,
since the rest is not its subject. TLC evaluates all.

Only model-checked: liveness (`Converges`, `ResyncRepairs`, `EventuallyProvided`,
`ResyncTidies`, `EventuallyThere`, `EventuallyAllButRaced`), which the prover does not
reach: the theorems say that the controllers do not come to rest too early, the runs
that they come to rest.

## 5. What is not modelled

- Dead code: the migration of secrets (`gitopscluster_controller.go` 735-950;
  `migrationDone` starts true), `filteClustersByIdentityAnno` (called by a test only),
  `PolicyPlacementRuleMapper` (registered nowhere), three predicates,
  `filteClustersByPolicies` (filters nothing).
- A nil `placementRef` and an error other than "not found" of the second Get in the
  GitOps loop, which would be dereferenced.
- Generated deep copies, scheme registration, event recorder, label and CRD helpers:
  no state, or not called by the controllers.
- Leader election (one replica), delays and rate limits, logging, command lines. The
  cached client and its filters are the informers of the models.
- In `PlacementRuleController` a hint with ties rewrites a status again and again;
  `Converges` allows it, since each choice is right.
- What `status.phase` says: it is in the model for the conflicts and events it causes,
  but neither code nor documents say what it must be after an error of
  `GetManagedClusters` (`hazards`).

## 6. Plan

Done: the selection with its lists, the placementrule controller with its promise, the
user filter, the gitopscluster controller with its promise, ApplicationSet objects,
registry detection; all their safety properties and both refinements are proved.

Left, in this order: that `ApplicationSetObjects` implements a specification in which a
pass delivers what it can to each namespace, without the order of the four steps; what a
user sees of `UserFilter` when the RBAC changes more than once; the migration, if it is
ever switched on.
