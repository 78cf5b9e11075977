----------------------- MODULE PlacementPromiseProofs -----------------------
(****************************************************************************)
(* PlacementRuleController implements PlacementPromise, for every number of *)
(* rules, clusters, workers, retries, changes and failures; and the promise *)
(* is worth having: under it, decisions of rules that are not due are right.*)
(****************************************************************************)
EXTENDS PlacementRuleControllerProofs

-----------------------------------------------------------------------------
(* The mapping.                                                             *)

\* A rule is shown exactly if it exists, with its spec and decisions.
LEMMA ShownRules ==
  TypeOK => /\ DOMAIN Shown = Rules
            /\ \A r \in Rules : /\ Shown[r] # Nil <=> api[r] # Nil
                                /\ api[r] # Nil => /\ Shown[r].spec = api[r].spec
                                                   /\ Shown[r].decs = api[r].decs
  <1> SUFFICES ASSUME TypeOK, NEW r \in Rules
               PROVE  /\ Shown[r] # Nil <=> api[r] # Nil
                      /\ api[r] # Nil => /\ Shown[r].spec = api[r].spec
                                         /\ Shown[r].decs = api[r].decs
    BY DEF Shown
  <1>1. CASE api[r] = Nil
    BY <1>1 DEF Shown
  <1>2. CASE api[r] # Nil
    <2>1. Shown[r] = [spec |-> api[r].spec, decs |-> api[r].decs]
      BY <1>2 DEF Shown
    <2>2. api[r].spec \in SpecRecord /\ api[r].decs \in SUBSET Clusters
      BY <1>2, InputsAssumption DEF TypeOK, RuleObject
    <2>3. Shown[r] # Nil
      BY <2>1, <2>2, NilAssumption
    <2> QED
      BY <1>2, <2>1, <2>3
  <1> QED
    BY <1>1, <1>2

LEMMA ExistingRules == TypeOK => Promise!Existing = {r \in Rules : api[r] # Nil}
  BY ShownRules DEF Promise!Existing

\* Both modules choose clusters by the same definitions.
LEMMA SameSelection ==
  /\ \A spec, view : Promise!Eligible(spec, view) = Eligible(spec, view)
  /\ \A spec : Promise!Mcm(spec) = Mcm(spec)
  /\ \A spec : Promise!Unparsable(spec) = Unparsable(spec)
  /\ \A spec, n : Promise!Total(spec, n) = Total(spec, n)
  /\ \A spec, view, x, y : Promise!Before(spec, view, x, y) = Before(spec, view, x, y)
  <1>1. \A spec, cl : /\ Promise!LabelMatch(spec, cl) = LabelMatch(spec, cl)
                      /\ Promise!ConditionsMatch(spec, cl) = ConditionsMatch(spec, cl)
    BY DEF Promise!LabelMatch, LabelMatch, Promise!ConditionsMatch, ConditionsMatch
  <1>2. \A spec, view : Promise!Listed(spec, view) = Listed(spec, view)
    BY <1>1 DEF Promise!Listed, Listed
  <1>3. \A spec, view : Promise!Eligible(spec, view) = Eligible(spec, view)
    BY <1>1, <1>2 DEF Promise!Eligible, Eligible
  <1> QED
    BY <1>3 DEF Promise!Mcm, Mcm, Promise!Unparsable, Unparsable, Promise!Total, Total,
                Promise!Before, Before

LEMMA SameCardinality == \A S : Promise!Cardinality(S) = Cardinality(S)
  BY DEF Promise!Cardinality, Cardinality

LEMMA SamePromised ==
  \A spec : /\ Promise!Promised(spec) <=> Promised(spec)
            /\ Promise!Permitted(spec) = Permitted(spec)
  BY SameSelection DEF Promise!Promised, Promised, Promise!Permitted, Permitted

LEMMA SameRight ==
  TypeOK => \A r \in Rules : Promise!Right(r) <=> RightDecisions(r)
  <1> SUFFICES ASSUME TypeOK, NEW r \in Rules
               PROVE  Promise!Right(r) <=> RightDecisions(r)
    OBVIOUS
  <1>1. CASE api[r] = Nil
    BY <1>1, ShownRules DEF Promise!Right, RightDecisions, Right
  <1>2. CASE api[r] # Nil
    <2>1. Shown[r] # Nil /\ Shown[r].spec = api[r].spec /\ Shown[r].decs = api[r].decs
      BY <1>2, ShownRules
    <2>2. \A spec, permitted, decs :
            /\ Promise!Acceptable(spec, clusters, permitted, decs)
                   <=> Acceptable(spec, clusters, permitted, decs)
            /\ Promise!BestRanked(spec, clusters, permitted, decs)
                   <=> BestRanked(spec, clusters, permitted, decs)
      BY SameSelection, SameCardinality
         DEF Promise!Acceptable, Acceptable, Promise!BestRanked, BestRanked
    <2> DEFINE spec == api[r].spec
               decs == api[r].decs
    <2>3. RightDecisions(r) <=> Right(r, decs)
      BY <1>2 DEF RightDecisions
    <2>4. Promise!Right(r) <=>
            (Promise!Promised(spec) =>
                /\ ~spec.user \/ r \notin overlooked =>
                      Promise!Acceptable(spec, clusters, Promise!Permitted(spec), decs)
                /\ r \notin overlooked =>
                      Promise!BestRanked(spec, clusters, Promise!Permitted(spec), decs))
      BY <2>1 DEF Promise!Right
    <2>5. Right(r, decs) <=>
            (Promised(spec) =>
                /\ ~spec.user \/ r \notin overlooked =>
                      Acceptable(spec, clusters, Permitted(spec), decs)
                /\ r \notin overlooked => BestRanked(spec, clusters, Permitted(spec), decs))
      BY <1>2 DEF Right
    <2> QED
      BY <2>2, <2>3, <2>4, <2>5, SamePromised
  <1> QED
    BY <1>1, <1>2

LEMMA SameRightNext ==
  (TypeOK => \A r \in Rules : Promise!Right(r) <=> RightDecisions(r))'
  BY SameRight, PTL

-----------------------------------------------------------------------------
(* The environment and the watches.                                         *)

LEMMA SetClusterPromise ==
  ASSUME TypeOK, NEW c \in Clusters, NEW new \in StatesOf[c] \cup {Nil}, SetCluster(c, new)
  PROVE  Promise!ClustersChange
  <1>1. UNCHANGED <<granted, api, ruleCache, queue, job, missed>> /\ Shown' = Shown
    BY DEF SetCluster, store, Shown
  <1>2. CASE ~(clusters[c] # Nil /\ new # Nil /\ ~ClusterPredicate(clusters[c], new))
    <2>1. clEvents' # {} /\ UNCHANGED overlooked
      BY <1>2 DEF SetCluster
    <2>2. Due' = {r \in Rules : api[r] # Nil}
      BY <1>1, <2>1 DEF Due, Awaited
    <2> QED
      BY <1>1, <2>1, <2>2, ExistingRules DEF Promise!ClustersChange
  <1>3. CASE clusters[c] # Nil /\ new # Nil /\ ~ClusterPredicate(clusters[c], new)
    <2>1. UNCHANGED clEvents /\ overlooked' = Rules /\ clusters' = [clusters EXCEPT ![c] = new]
      BY <1>3 DEF SetCluster
    <2>2. Due' = Due
      BY <1>1, <2>1 DEF Due, Awaited
    <2>3. \A spec : Eligible(spec, clusters') = Eligible(spec, clusters)
      BY <1>3, <2>1, InputsAssumption, DroppedUpdate
    <2> QED
      BY <1>1, <2>1, <2>2, <2>3, SameSelection DEF Promise!ClustersChange
  <1> QED
    BY <1>2, <1>3

\* A rule that was stored is due: the cache has yet to see it.
LEMMA PutPromise ==
  ASSUME TypeOK, VersionsIdentify, NEW r \in Rules, NEW spec \in SpecsOf[r],
         NEW decs \in SUBSET Clusters, Put(r, spec, decs),
         UNCHANGED <<clEvents, ruleCache, queue, job>>,
         \/ api[r] = Nil /\ decs = {}
         \/ api[r] # Nil /\ decs = api[r].decs
         \/ api[r] # Nil /\ spec = api[r].spec /\ ~Mcm(spec)
  PROVE  /\ Shown' = [Shown EXCEPT ![r] = Shown'[r]]
         /\ Promise!Written(r)
         /\ Shown'[r] # Nil
         /\ Due' = Due \cup {r}
  <1>1. api'[r] = [spec |-> spec, decs |-> decs, rv |-> rev[r] + 1]
    BY DEF Put, TypeOK
  <1>2. \A q \in Rules \ {r} : api'[q] = api[q]
    BY DEF Put, TypeOK
  <1>3. spec \in SpecRecord /\ rev[r] + 1 \in Nat
    BY InputsAssumption DEF TypeOK
  <1>4. api'[r] # Nil
    BY <1>1, <1>3, NilAssumption
  <1>5. Shown'[r] = [spec |-> spec, decs |-> decs]
    BY <1>1, <1>4 DEF Shown
  <1>6. Shown'[r] # Nil
    BY <1>3, <1>5, NilAssumption
  <1>7. Shown' = [Shown EXCEPT ![r] = Shown'[r]]
    BY <1>2 DEF Shown
  <1>8. Promise!Written(r)
    BY <1>5, <1>6, ShownRules, SameSelection DEF Promise!Written
  <1>9. ruleCache'[r] # api'[r]
    BY <1>1, <1>4, StoredIsNews
  <1>10. Due' = Due \cup {r}
    BY <1>2, <1>4, <1>9 DEF Due, Awaited
  <1> QED
    BY <1>6, <1>7, <1>8, <1>10

LEMMA EnvironmentPromise ==
  ASSUME TypeOK, VersionsIdentify, Environment
  PROVE  Promise!Next \/ UNCHANGED <<clusters, granted, Shown, Due, overlooked, missed>>
  <1> USE DEF cluster, store, env, history
  <1>1. ASSUME NEW c \in Clusters, CreateCluster(c) \/ UpdateCluster(c) \/ RemoveCluster(c)
        PROVE  Promise!Next
    <2>1. PICK new \in StatesOf[c] \cup {Nil} : SetCluster(c, new)
      BY <1>1 DEF CreateCluster, UpdateCluster, RemoveCluster
    <2> QED
      BY <2>1, SetClusterPromise DEF Promise!Next
  <1>2. ASSUME NEW g \in Grants, ChangeGrants(g)
        PROVE  Promise!Next
    <2>1. Shown' = Shown /\ Due' = Due
      BY <1>2 DEF ChangeGrants, Shown, Due, Awaited
    <2> QED
      BY <1>2, <2>1 DEF ChangeGrants, Promise!Next, Promise!GrantsChange
  <1>3. ASSUME NEW r \in Rules, CreateRule(r) \/ EditRule(r) \/ ForeignSchedule(r)
        PROVE  Promise!Next
    <2>1. /\ UNCHANGED <<clusters, granted, overlooked, missed, clEvents, ruleCache, queue, job>>
          /\ \E spec \in SpecsOf[r], decs \in SUBSET Clusters :
                /\ Put(r, spec, decs)
                /\ \/ api[r] = Nil /\ decs = {}
                   \/ api[r] # Nil /\ decs = api[r].decs
                   \/ api[r] # Nil /\ spec = api[r].spec /\ ~Mcm(spec)
      BY <1>3 DEF CreateRule, EditRule, ForeignSchedule, TypeOK, RuleObject
    <2>2. /\ Shown' = [Shown EXCEPT ![r] = Shown'[r]]
          /\ Promise!Written(r) /\ Shown'[r] # Nil /\ Due' = Due \cup {r}
      BY <2>1, PutPromise
    <2> QED
      BY <2>1, <2>2 DEF Promise!Next, Promise!OthersWrite
  <1>4. ASSUME NEW r \in Rules, DeleteRule(r)
        PROVE  Promise!Next
    <2>1. api' = [api EXCEPT ![r] = Nil]
          /\ UNCHANGED <<clusters, granted, overlooked, missed, clEvents, ruleCache, queue, job>>
      BY <1>4 DEF DeleteRule
    <2>2. api'[r] = Nil /\ \A q \in Rules \ {r} : api'[q] = api[q]
      BY <2>1 DEF TypeOK
    <2>3. Shown'[r] = Nil /\ Shown' = [Shown EXCEPT ![r] = Shown'[r]]
      BY <2>2 DEF Shown
    <2>4. Due' = Due \ {r}
      BY <2>1, <2>2 DEF Due, Awaited
    <2> QED
      BY <2>1, <2>3, <2>4 DEF Promise!Next, Promise!OthersWrite, Promise!Written
  <1>5. ASSUME NEW r \in Rules, Resync(r)
        PROVE  Promise!Next
    <2>1. Shown' = Shown /\ UNCHANGED <<clusters, granted, overlooked, missed>>
      BY <1>5 DEF Resync, Shown
    <2>2. Due \subseteq Due' /\ Due' \subseteq {q \in Rules : api[q] # Nil}
      BY <1>5 DEF Resync, Due, Awaited
    <2> QED
      BY <2>1, <2>2, ExistingRules DEF Promise!Next, Promise!Remind
  <1>6. CASE Restart
    <2>1. Shown' = Shown /\ UNCHANGED <<clusters, granted, overlooked, missed>>
      BY <1>6 DEF Restart, Shown
    <2>2. Due' = {q \in Rules : api[q] # Nil} /\ Due \subseteq Due'
      BY <1>6 DEF Restart, Due, Awaited
    <2> QED
      BY <2>1, <2>2, ExistingRules DEF Promise!Next, Promise!Remind
  <1> QED
    BY <1>1, <1>2, <1>3, <1>4, <1>5, <1>6 DEF Environment

\* Delivering an event moves work, and hides none.
LEMMA WatchPromise ==
  ASSUME TypeOK,
         (\E c \in Clusters : MapCluster(c)) \/ (\E r \in Rules : SyncRule(r))
  PROVE  UNCHANGED <<clusters, granted, Shown, Due, overlooked, missed>>
  <1>1. UNCHANGED <<clusters, granted, api, overlooked, missed, job>>
    BY DEF MapCluster, SyncRule, store, cluster, history
  <1>2. \A q \in Rules : api[q] # Nil => (Awaited(q)' <=> Awaited(q))
    <2>1. ASSUME NEW c \in Clusters, MapCluster(c), NEW q \in Rules, api[q] # Nil
          PROVE  Awaited(q)' /\ Awaited(q)
      BY <2>1 DEF MapCluster, Awaited, store
    <2>2. ASSUME NEW r \in Rules, SyncRule(r), NEW q \in Rules
          PROVE  Awaited(q)' <=> Awaited(q)
      BY <2>2 DEF SyncRule, Awaited, store, cluster, TypeOK
    <2> QED
      BY <2>1, <2>2
  <1> QED
    BY <1>1, <1>2 DEF Shown, Due

\* An event that is dropped is news lost: no rule becomes due by it.
LEMMA LossPromise ==
  ASSUME TypeOK, NEW c \in Clusters, MapClusterFails(c)
  PROVE  Promise!NewsLost
  <1>1. UNCHANGED <<clusters, granted, api, overlooked, ruleCache, queue, job>>
    BY DEF MapClusterFails, store
  <1>2. clEvents' \subseteq clEvents /\ missed' = Rules
    BY DEF MapClusterFails
  <1>3. Shown' = Shown /\ Due' \subseteq Due
    BY <1>1, <1>2 DEF Shown, Due, Awaited
  <1> QED
    BY <1>1, <1>2, <1>3 DEF Promise!NewsLost

LEMMA TakePromise ==
  ASSUME TypeOK, NEW r \in Rules, Take(r)
  PROVE  Promise!Look(r)
  <1>1. /\ UNCHANGED <<clusters, clEvents, granted, api, ruleCache>>
        /\ overlooked' = overlooked \ {r} /\ missed' = missed \ {r}
        /\ job'[r].pc = "get" /\ Alone(r)
        /\ queue' = queue \ {r} /\ r \in queue
    BY TakeEffect DEF Take
  <1>2. Shown' = Shown
    BY <1>1 DEF Shown
  <1>3. Due' = Due
    BY <1>1 DEF Due, Awaited, Alone
  <1>4. Shown[r] # Nil => r \in Due
    BY <1>1, ShownRules DEF Due, Awaited
  <1> QED
    BY <1>1, <1>2, <1>3, <1>4 DEF Promise!Look

-----------------------------------------------------------------------------
(* The workers.                                                             *)

\* A worker queues no rule but its own.
LEMMA WorkerQueue ==
  ASSUME NEW r \in Rules, Worker(r) \/ Failing(r)
  PROVE  queue' \in {queue, queue \cup {r}} /\ job[r].pc # "idle"
  <1> USE DEF Finish, Requeue, Compare
  <1>1. CASE GetRule(r) \/ ListClusters(r) \/ ListsNothing(r)
    BY <1>1 DEF GetRule, ListClusters, ListsNothing
  <1>2. CASE DecideForAll(r) \/ DecideForUser(r) \/ DecideDespiteFault(r)
    BY <1>2 DEF DecideForAll, DecideForUser, DecideDespiteFault, Decide
  <1>3. CASE WriteStatus(r) \/ WriteStatusUnheard(r)
    BY <1>3 DEF WriteStatus, WriteStatusUnheard, Store
  <1>4. CASE Conflict(r) \/ UpdateGone(r) \/ RequestFails(r)
    BY <1>4 DEF Conflict, UpdateGone, RequestFails
  <1> QED
    BY <1>1, <1>2, <1>3, <1>4 DEF Worker, Failing

\* Other rules are as due as they were.
LEMMA OthersDue ==
  ASSUME TypeOK, NEW r \in Rules, Worker(r) \/ Failing(r)
  PROVE  \A q \in Rules \ {r} : (q \in Due)' <=> q \in Due
  BY WorkerFrame, WorkerQueue DEF Due, Awaited, Alone

\* A write goes to a rule that is the controller's at that moment, and keeps what
\* it must of the decisions it replaces.
LEMMA WritePromise ==
  ASSUME Inv, NEW r \in Rules, Writes(r)
  PROVE  Promise!Schedule(r)
  <1>1. TypeOK /\ VersionsIdentify
    BY DEF Inv
  <1>2. /\ job[r].pc = "update" /\ Current(r)
        /\ Put(r, api[r].spec, job[r].new)
        /\ UNCHANGED <<clusters, granted, clEvents, ruleCache, overlooked, missed>>
    BY <1>1, WriteEffect
  <1>3. job[r].inst = api[r] /\ api[r] # Nil
    BY <1>2, WriteReplacesInst DEF Current
  <1>4. Mcm(api[r].spec) /\ PickedAnew(r, api[r], job[r].new)
    BY <1>2, <1>3 DEF Inv, InstIsCached, PickedFromInst
  <1>5. /\ api'[r] = [spec |-> api[r].spec, decs |-> job[r].new, rv |-> rev[r] + 1]
        /\ \A q \in Rules \ {r} : api'[q] = api[q]
    BY <1>1, <1>2 DEF Put, TypeOK
  <1>6. /\ api[r].spec \in SpecRecord /\ rev[r] + 1 \in Nat
        /\ job[r].new \in SUBSET Clusters /\ job[r].clmap \in SUBSET Clusters
    BY <1>1, <1>3, InputsAssumption DEF TypeOK, RuleObject, Job
  <1>7. api'[r] # Nil
    BY <1>5, <1>6, NilAssumption
  <1>8. Shown'[r] = [spec |-> api[r].spec, decs |-> job[r].new]
    BY <1>5, <1>7 DEF Shown
  <1>9. Shown[r] = [spec |-> api[r].spec, decs |-> api[r].decs]
    BY <1>3 DEF Shown
  <1>10. Shown' = [Shown EXCEPT ![r].decs = Shown'[r].decs]
    <2>1. [Shown[r] EXCEPT !.decs = Shown'[r].decs] = Shown'[r]
      BY <1>8, <1>9
    <2>2. Shown' = [Shown EXCEPT ![r] = Shown'[r]]
      BY <1>5 DEF Shown
    <2>3. [Shown EXCEPT ![r].decs = Shown'[r].decs]
             = [Shown EXCEPT ![r] = [Shown[r] EXCEPT !.decs = Shown'[r].decs]]
      OBVIOUS
    <2> QED
      BY <2>1, <2>2, <2>3
  <1>11. r \in Due /\ r \in Due'
    <2>1. ruleCache'[r] # api'[r]
      BY <1>1, <1>2, <1>5, <1>7, StoredIsNews
    <2> QED
      BY <1>2, <1>3, <1>7, <2>1 DEF Due, Awaited
  <1>12. Due' = Due
    BY <1>1, <1>11, OthersDue DEF Writes, Worker, Failing, Due
  <1>13. \E usable \in SUBSET Clusters :
            /\ Cardinality(job[r].new) = Total(api[r].spec, Cardinality(usable))
            /\ api[r].spec.hint = "none" => \/ api[r].decs \cap usable \subseteq job[r].new
                                            \/ job[r].new \subseteq api[r].decs \cap usable
    BY <1>4, <1>6 DEF PickedAnew
  <1> QED
    BY <1>2, <1>4, <1>8, <1>9, <1>10, <1>11, <1>12, <1>13, SameSelection, SameCardinality
       DEF Promise!Schedule

\* Everything else a worker does is looking, or being done with a rule.
LEMMA WorkPromise ==
  ASSUME Inv, Inv', NEW r \in Rules, Worker(r) \/ Failing(r), ~Writes(r)
  PROVE  \/ Promise!Look(r) \/ Promise!Settle(r)
         \/ UNCHANGED <<clusters, granted, Shown, Due, overlooked, missed>>
  <1>1. TypeOK /\ TypeOK'
    BY DEF Inv
  <1>2. UNCHANGED api
    BY <1>1, GetEffect, ListEffect, DecideEffect, NoWriteEffect DEF Worker, Failing, Writes
  <1>3. UNCHANGED <<clusters, granted>> /\ overlooked' \in {overlooked, overlooked \cup {r}}
    BY <1>1, WorkerFrame
  <1>3a. \/ UNCHANGED missed
         \/ missed' = missed \cup {r} /\ job'[r].pc = "decide"
    <2>1. CASE ListsNothing(r)
      BY <1>1, <2>1 DEF ListsNothing, TypeOK, Job
    <2>2. CASE ~ListsNothing(r)
      BY <1>1, <2>2, GetEffect, DecideEffect, NoWriteEffect
         DEF Worker, Failing, Writes, ListClusters, history
    <2> QED
      BY <2>1, <2>2
  <1>4. Shown' = Shown
    BY <1>2 DEF Shown
  <1>5. job[r].pc # "idle"
    BY WorkerQueue
  <1>6. Shown[r] # Nil => r \in Due
    BY <1>1, <1>5, ShownRules DEF Due
  <1>7. CASE r \in Due' <=> r \in Due
    <2>1. Due' = Due
      BY <1>1, <1>7, OthersDue DEF Due
    <2> QED
      BY <1>3, <1>3a, <1>4, <1>6, <2>1 DEF Promise!Look
  <1>8. CASE ~(r \in Due' <=> r \in Due)
    <2>1. r \in Due /\ r \notin Due'
      BY <1>2, <1>5, <1>8 DEF Due
    <2>2. Due' = Due \ {r} /\ UNCHANGED missed
      BY <1>1, <1>2, <1>3a, <2>1, OthersDue DEF Due
    <2>3. r \notin missed => RightDecisions(r)'
      <3>1. ~Awaited(r)' /\ job'[r].pc = "idle"
        BY <1>2, <2>1 DEF Due
      <3> QED
        BY <2>2, <3>1 DEF Inv, WorkIsCurrent
    <2>4. Promise!Right(r)' <=> RightDecisions(r)'
      BY <1>1, SameRightNext
    <2> QED
      BY <1>1, <1>3, <1>4, <2>1, <2>2, <2>3, <2>4 DEF Promise!Settle
  <1> QED
    BY <1>7, <1>8

-----------------------------------------------------------------------------
(* The theorems.                                                            *)

LEMMA InitPromise == Init => Promise!Init
  <1> SUFFICES ASSUME Init PROVE Promise!Init
    OBVIOUS
  <1>1. TypeOK
    BY InitType
  <1>2. clusters \in Promise!View /\ granted \subseteq Clusters
    BY <1>1 DEF TypeOK, Promise!View, Promise!ClusterState, ClusterState
  <1>3. \A r \in Rules : api[r] # Nil => api[r].spec \in SpecRecord /\ api[r].decs = {}
    BY InputsAssumption DEF Init, NewRules
  <1>4. \A r \in Promise!Existing : Shown[r].spec \in Promise!SpecRecord /\ Shown[r].decs = {}
    BY <1>1, <1>3, ShownRules, ExistingRules DEF Promise!SpecRecord, SpecRecord
  <1>5. Due = Promise!Existing
    BY <1>1, ExistingRules DEF Init, Due, Awaited
  <1> QED
    BY <1>2, <1>4, <1>5 DEF Init, Promise!Init, Shown

LEMMA NextPromise ==
  Inv /\ Inv' /\ [Next]_vars => [Promise!Next]_<<clusters, granted, Shown, Due, overlooked, missed>>
  <1> SUFFICES ASSUME Inv, Inv', [Next]_vars
               PROVE  \/ Promise!Next
                      \/ UNCHANGED <<clusters, granted, Shown, Due, overlooked, missed>>
    OBVIOUS
  <1>0. TypeOK /\ VersionsIdentify
    BY DEF Inv
  <1>1. CASE Environment
    BY <1>0, <1>1, EnvironmentPromise
  <1>2. CASE (\E c \in Clusters : MapCluster(c)) \/ (\E r \in Rules : SyncRule(r))
    BY <1>0, <1>2, WatchPromise
  <1>3. ASSUME NEW r \in Rules, Take(r)
        PROVE  Promise!Next
    BY <1>0, <1>3, TakePromise DEF Promise!Next
  <1>3a. CASE \E c \in Clusters : MapClusterFails(c)
    BY <1>0, <1>3a, LossPromise DEF Promise!Next
  <1>4. ASSUME NEW r \in Rules, Worker(r) \/ Failing(r)
        PROVE  \/ Promise!Next
               \/ UNCHANGED <<clusters, granted, Shown, Due, overlooked, missed>>
    BY <1>4, WritePromise, WorkPromise DEF Promise!Next
  <1>5. CASE UNCHANGED vars
    BY <1>5 DEF vars, Shown, Due, Awaited
  <1> QED
    BY <1>1, <1>2, <1>3, <1>3a, <1>4, <1>5 DEF Next, Quiet

\* The controller implements the promise: however informers lag, workers interleave,
\* writes conflict, requests fail and the process restarts, what users see is a
\* controller that only stops looking at a rule when its decisions are right or one of
\* two errors was swallowed, and that writes only rules that name it, keeping decisions
\* it need not give up.
THEOREM Implementation == Spec => ImplementsPromise
  <1>1. Inv /\ Inv' /\ [Next]_vars => [Promise!Next]_Promise!vars
    BY NextPromise DEF Promise!vars
  <1> QED
    BY InitPromise, <1>1, Invariance, PTL DEF Spec, ImplementsPromise, Promise!Spec

-----------------------------------------------------------------------------
(* What the promise comes to.                                               *)

\* Decisions stay right while nothing they depend on changes.
LEMMA StaysRight ==
  ASSUME NEW q \in Rules, Promise!Right(q), Shown'[q] = Shown[q],
         UNCHANGED <<clusters, granted>>, q \in overlooked => q \in overlooked'
  PROVE  Promise!Right(q)'
  BY DEF Promise!Right, Promise!Permitted

\* Of a rule that has been overlooked, only what is watched has to be right.
LEMMA StaysRightOverlooked ==
  ASSUME NEW q \in Rules, Promise!Right(q), Shown' = Shown, q \in overlooked',
         Shown[q] # Nil => Promise!Eligible(Shown[q].spec, clusters')
                               = Promise!Eligible(Shown[q].spec, clusters)
  PROVE  Promise!Right(q)'
  BY DEF Promise!Right, Promise!Permitted, Promise!Acceptable

LEMMA NextKept ==
  Promise!Kept /\ [Promise!Next]_Promise!vars => Promise!Kept'
  <1> SUFFICES ASSUME Promise!Kept, [Promise!Next]_Promise!vars,
                      NEW q \in Rules \ missed', q \notin Due', Shown'[q] # Nil
               PROVE  Promise!Right(q)'
    BY DEF Promise!Kept, Promise!Right
  <1>0. q \notin Due \cup missed => Promise!Right(q)
    BY DEF Promise!Kept
  <1>1. CASE Promise!ClustersChange
    <2>1. Shown' = Shown /\ UNCHANGED granted
      BY <1>1 DEF Promise!ClustersChange
    <2>2. q \in Promise!Existing
      BY <2>1 DEF Promise!Existing
    <2>3. /\ Promise!Eligible(Shown[q].spec, clusters') = Promise!Eligible(Shown[q].spec, clusters)
          /\ overlooked' = Rules /\ Due' = Due /\ missed' = missed
      BY <1>1, <2>2 DEF Promise!ClustersChange
    <2> QED
      BY <1>0, <2>1, <2>3, StaysRightOverlooked
  <1>2. CASE Promise!GrantsChange
    BY <1>0, <1>2, StaysRightOverlooked DEF Promise!GrantsChange
  <1>2a. CASE Promise!NewsLost
    BY <1>2a DEF Promise!NewsLost
  <1>3. CASE Promise!Remind
    BY <1>0, <1>3, StaysRight DEF Promise!Remind
  <1>4. ASSUME NEW r \in Rules, Promise!OthersWrite(r)
        PROVE  Promise!Right(q)'
    <2>1. q # r /\ q \notin Due
      BY <1>4 DEF Promise!OthersWrite
    <2>2. Shown'[q] = Shown[q]
      <3>1. Shown' = [Shown EXCEPT ![r] = Shown'[r]] /\ q \in DOMAIN Shown
        BY <1>4 DEF Promise!OthersWrite, Shown
      <3> QED
        BY <2>1, <3>1
    <2> QED
      BY <1>0, <1>4, <2>1, <2>2, StaysRight DEF Promise!OthersWrite
  <1>5. ASSUME NEW r \in Rules, Promise!Look(r)
        PROVE  Promise!Right(q)'
    BY <1>0, <1>5, StaysRight DEF Promise!Look
  <1>6. ASSUME NEW r \in Rules, Promise!Schedule(r)
        PROVE  Promise!Right(q)'
    <2>1. q # r /\ q \notin Due
      BY <1>6 DEF Promise!Schedule
    <2>2. Shown'[q] = Shown[q]
      <3>1. Shown' = [Shown EXCEPT ![r].decs = Shown'[r].decs] /\ q \in DOMAIN Shown
        BY <1>6 DEF Promise!Schedule, Shown
      <3> QED
        BY <2>1, <3>1
    <2> QED
      BY <1>0, <1>6, <2>1, <2>2, StaysRight DEF Promise!Schedule
  <1>7. ASSUME NEW r \in Rules, Promise!Settle(r)
        PROVE  Promise!Right(q)'
    <2>1. CASE q = r
      BY <1>7, <2>1 DEF Promise!Settle
    <2>2. CASE q # r
      BY <1>0, <1>7, <2>2, StaysRight DEF Promise!Settle
    <2> QED
      BY <2>1, <2>2
  <1>8. CASE UNCHANGED Promise!vars
    BY <1>0, <1>8, StaysRight DEF Promise!vars
  <1> QED
    BY <1>1, <1>2, <1>2a, <1>3, <1>4, <1>5, <1>6, <1>7, <1>8 DEF Promise!Next

\* What the promise comes to for users, whoever keeps it: the decisions of a rule that
\* is neither due nor missed are right, as Reconcile is meant to leave them.
THEOREM PromiseIsKept == Promise!Spec => []Promise!Kept
  <1>1. Promise!Init => Promise!Kept
    BY DEF Promise!Init, Promise!Kept, Promise!Right, Promise!Existing
  <1> QED
    BY <1>1, NextKept, PTL DEF Promise!Spec
=============================================================================
