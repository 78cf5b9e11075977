-------------------- MODULE PlacementRuleControllerProofs --------------------
(****************************************************************************)
(* The safety properties of PlacementRuleController hold for every number   *)
(* of rules, clusters, workers, retries, changes and failures.              *)
(****************************************************************************)
EXTENDS PlacementRuleController, FiniteSetTheorems, TLAPS

-----------------------------------------------------------------------------
(* Types.                                                                   *)

LEMMA IdleJobType == \A r \in Rules : IdleJob \in Job(r)
  <1>1. NoView \in View
    BY DEF NoView, View
  <1>2. 0 \in 0 .. MaxTries
    BY BoundsAssumption
  <1> QED
    BY <1>1, <1>2 DEF IdleJob, Job

LEMMA InitType == Init => TypeOK
  <1> SUFFICES ASSUME Init PROVE TypeOK
    OBVIOUS
  <1>1. clusters \in [Clusters -> ClusterState \cup {Nil}]
    BY InputsAssumption DEF Init
  <1>2. \A r \in Rules : api[r] \in RuleObject(r) \cup {Nil}
    BY DEF Init, NewRules, RuleObject
  <1>3. clEvents \subseteq Clusters /\ granted \subseteq Clusters
    BY InputsAssumption DEF Init
  <1>4. \A r \in Rules : job[r] \in Job(r)
    BY IdleJobType DEF Init
  <1>5. changes \in 0 .. MaxChanges /\ faults \in 0 .. MaxFaults
    BY BoundsAssumption DEF Init
  <1> QED
    BY <1>1, <1>2, <1>3, <1>4, <1>5 DEF Init, TypeOK

\* A write of the API server stores a rule object.
LEMMA PutType ==
  ASSUME TypeOK, NEW r \in Rules, NEW spec \in SpecsOf[r], NEW decs \in SUBSET Clusters,
         Put(r, spec, decs)
  PROVE  /\ \A q \in Rules : api'[q] \in RuleObject(q) \cup {Nil}
         /\ DOMAIN api' = Rules
         /\ rev' \in [Rules -> Nat]
  <1>1. [spec |-> spec, decs |-> decs, rv |-> rev[r] + 1] \in RuleObject(r)
    BY DEF TypeOK, RuleObject
  <1> QED
    BY <1>1 DEF TypeOK, Put

\* So does a step of a worker, given the job it leaves behind.
LEMMA JobType ==
  ASSUME TypeOK, NEW r \in Rules, NEW j \in Job(r), job' = [job EXCEPT ![r] = j]
  PROVE  (\A q \in Rules : job'[q] \in Job(q)) /\ DOMAIN job' = Rules
  BY DEF TypeOK

LEMMA FinishType ==
  ASSUME TypeOK, NEW r \in Rules, Finish(r) \/ Requeue(r)
  PROVE  /\ \A q \in Rules : job'[q] \in Job(q)
         /\ DOMAIN job' = Rules
         /\ queue' \subseteq Rules
  BY JobType, IdleJobType DEF TypeOK, Finish, Requeue

LEMMA CompareType ==
  ASSUME TypeOK, NEW r \in Rules, NEW inst \in RuleObject(r),
         NEW clmap \in SUBSET Clusters, NEW new \in SUBSET Clusters,
         Compare(r, inst, clmap, new)
  PROVE  /\ \A q \in Rules : job'[q] \in Job(q)
         /\ DOMAIN job' = Rules
         /\ queue' \subseteq Rules
  <1>1. CASE new = inst.decs
    BY <1>1, FinishType DEF Compare
  <1>2. CASE new # inst.decs
    <2> DEFINE j == [pc |-> "update", inst |-> inst, seen |-> NoView,
                     clmap |-> clmap, new |-> new, tries |-> 0]
    <2>1. NoView \in View /\ 0 \in 0 .. MaxTries
      BY BoundsAssumption DEF NoView, View
    <2>2. j \in Job(r)
      BY <2>1 DEF Job
    <2>3. job' = [job EXCEPT ![r] = j] /\ UNCHANGED queue
      BY <1>2 DEF Compare
    <2> QED
      BY <2>2, <2>3, JobType DEF TypeOK
  <1> QED
    BY <1>1, <1>2

LEMMA SetClusterType ==
  ASSUME TypeOK, NEW c \in Clusters, NEW new \in StatesOf[c] \cup {Nil}, SetCluster(c, new)
  PROVE  TypeOK'
  <1>1. new \in ClusterState \cup {Nil}
    BY InputsAssumption
  <1>2. clusters' \in [Clusters -> ClusterState \cup {Nil}]
    BY <1>1 DEF TypeOK, SetCluster
  <1>3. clEvents' \subseteq Clusters
    BY DEF TypeOK, SetCluster
  <1>4. changes' \in 0 .. MaxChanges /\ faults' \in 0 .. MaxFaults
    BY BoundsAssumption DEF TypeOK, SetCluster, Change
  <1> QED
    BY <1>2, <1>3, <1>4 DEF TypeOK, SetCluster, store, history

LEMMA EnvironmentType == ASSUME TypeOK, Environment PROVE TypeOK'
  <1>0. /\ Change => changes' \in 0 .. MaxChanges /\ faults' \in 0 .. MaxFaults
        /\ Fault => changes' \in 0 .. MaxChanges /\ faults' \in 0 .. MaxFaults
    BY BoundsAssumption DEF TypeOK, Change, Fault
  <1>1. ASSUME NEW c \in Clusters, CreateCluster(c) \/ UpdateCluster(c) \/ RemoveCluster(c)
        PROVE  TypeOK'
    BY <1>1, SetClusterType DEF CreateCluster, UpdateCluster, RemoveCluster
  <1>2. ASSUME NEW g \in Grants, ChangeGrants(g)
        PROVE  TypeOK'
    BY <1>0, <1>2, InputsAssumption DEF ChangeGrants, TypeOK, store, history
  <1>3. ASSUME NEW r \in Rules, CreateRule(r)
        PROVE  TypeOK'
    BY <1>0, <1>3, PutType DEF CreateRule, TypeOK, cluster, history
  <1>4. ASSUME NEW r \in Rules, EditRule(r)
        PROVE  TypeOK'
    <2>1. api[r].decs \in SUBSET Clusters
      BY <1>4 DEF EditRule, TypeOK, RuleObject
    <2> QED
      BY <1>0, <1>4, <2>1, PutType DEF EditRule, TypeOK, cluster, history
  <1>5. ASSUME NEW r \in Rules, DeleteRule(r)
        PROVE  TypeOK'
    BY <1>0, <1>5 DEF DeleteRule, TypeOK, cluster, history
  <1>6. ASSUME NEW r \in Rules, ForeignSchedule(r)
        PROVE  TypeOK'
    <2>1. api[r].spec \in SpecsOf[r]
      BY <1>6 DEF ForeignSchedule, TypeOK, RuleObject
    <2> QED
      BY <1>0, <1>6, <2>1, PutType DEF ForeignSchedule, TypeOK, cluster, history
  <1>7. ASSUME NEW r \in Rules, Resync(r)
        PROVE  TypeOK'
    BY <1>0, <1>7 DEF Resync, TypeOK, cluster, store, env, history
  <1>8. CASE Restart
    BY <1>0, <1>8, IdleJobType DEF Restart, TypeOK, store, history
  <1> QED
    BY <1>1, <1>2, <1>3, <1>4, <1>5, <1>6, <1>7, <1>8 DEF Environment

LEMMA DecideType ==
  ASSUME TypeOK, NEW r \in Rules, NEW permitted \in SUBSET Clusters, Decide(r, permitted),
         job[r].inst # Nil
  PROVE  /\ \A q \in Rules : job'[q] \in Job(q)
         /\ DOMAIN job' = Rules
         /\ queue' \subseteq Rules
  <1> DEFINE clmap == Eligible(job[r].inst.spec, job[r].seen) \cap permitted
  <1>1. job[r].inst \in RuleObject(r)
    BY DEF TypeOK, Job
  <1>2. PICK new \in Picks(job[r].inst.spec, job[r].seen, clmap, job[r].inst.decs) :
            Compare(r, job[r].inst, clmap, new)
    BY DEF Decide
  <1>3. clmap \in SUBSET Clusters /\ new \in SUBSET Clusters
    BY DEF Picks
  <1> HIDE DEF clmap
  <1> QED
    BY <1>1, <1>2, <1>3, CompareType

LEMMA WorkerType ==
  ASSUME TypeOK, InstIsCached, NEW r \in Rules, Worker(r) \/ Failing(r)
  PROVE  TypeOK'
  <1>0. Fault => changes' \in 0 .. MaxChanges /\ faults' \in 0 .. MaxFaults
    BY BoundsAssumption DEF TypeOK, Fault
  <1>1. job[r].pc = "decide" => job[r].inst # Nil
    BY DEF InstIsCached
  <1>2. CASE GetRule(r)
    <2>1. CASE ruleCache[r] = Nil \/ ~Mcm(ruleCache[r].spec)
      BY <1>2, <2>1, FinishType DEF GetRule, TypeOK, cluster, store, env, history
    <2>2. CASE ruleCache[r] # Nil /\ ruleCache[r].spec.replicas = 0 /\ Mcm(ruleCache[r].spec)
      BY <1>2, <2>2, CompareType DEF GetRule, TypeOK, cluster, store, env, history
    <2>3. CASE ruleCache[r] # Nil /\ ruleCache[r].spec.replicas # 0 /\ Mcm(ruleCache[r].spec)
      <3> DEFINE j == [job[r] EXCEPT !.pc = "list", !.inst = ruleCache[r]]
      <3>0. job[r] \in Job(r) /\ ruleCache[r] \in RuleObject(r)
        BY <2>3 DEF TypeOK
      <3>1. j \in Job(r)
        BY <3>0 DEF Job
      <3>2. job' = [job EXCEPT ![r] = j] /\ queue' = queue
        BY <1>2, <2>3 DEF GetRule
      <3> HIDE DEF j
      <3>3. (\A q \in Rules : job'[q] \in Job(q)) /\ DOMAIN job' = Rules
        BY <3>1, <3>2, JobType
      <3> QED
        BY <1>2, <3>2, <3>3 DEF GetRule, TypeOK, cluster, store, env, history
    <2> QED
      BY <2>1, <2>2, <2>3
  <1>3. CASE ListClusters(r) \/ ListsNothing(r)
    <2>0. /\ UNCHANGED <<clusters, clEvents, granted, api, rev, ruleCache, overlooked>>
          /\ missed' \subseteq Rules
          /\ changes' \in 0 .. MaxChanges /\ faults' \in 0 .. MaxFaults
      BY <1>0, <1>3 DEF ListClusters, ListsNothing, TypeOK, cluster, store, env, history
    <2>1. CASE Unparsable(job[r].inst.spec)
      <3>1. Requeue(r)
        BY <1>3, <2>1 DEF ListClusters, ListsNothing
      <3> QED
        BY <2>0, <3>1, FinishType DEF TypeOK
    <2>2. CASE ~Unparsable(job[r].inst.spec)
      <3>. PICK view \in {clusters, NoView} :
              job' = [job EXCEPT ![r].pc = "decide", ![r].seen = view] /\ queue' = queue
        BY <1>3, <2>2 DEF ListClusters, ListsNothing
      <3> DEFINE j == [job[r] EXCEPT !.pc = "decide", !.seen = view]
      <3>0. job[r] \in Job(r) /\ view \in View
        BY DEF TypeOK, View, NoView
      <3>1. j \in Job(r)
        BY <3>0 DEF Job
      <3>2. job' = [job EXCEPT ![r] = j] /\ queue' = queue
        OBVIOUS
      <3> HIDE DEF j
      <3>3. (\A q \in Rules : job'[q] \in Job(q)) /\ DOMAIN job' = Rules
        BY <3>1, <3>2, JobType
      <3> QED
        BY <2>0, <3>2, <3>3 DEF TypeOK
    <2> QED
      BY <2>1, <2>2
  <1>4. CASE DecideForAll(r) \/ DecideForUser(r) \/ DecideDespiteFault(r)
    <2>1. PICK permitted \in SUBSET Clusters : Decide(r, permitted)
      BY <1>4 DEF DecideForAll, DecideForUser, DecideDespiteFault, TypeOK
    <2>2. job[r].inst # Nil
      BY <1>1, <2>1 DEF Decide
    <2>3. changes' \in 0 .. MaxChanges /\ faults' \in 0 .. MaxFaults
      BY <1>0, <1>4 DEF DecideForAll, DecideForUser, DecideDespiteFault, TypeOK, env, history
    <2>4. /\ UNCHANGED <<clusters, clEvents, granted, api, rev, ruleCache>>
          /\ overlooked' \subseteq Rules /\ UNCHANGED missed
      BY <1>4, <2>1 DEF Decide, DecideForAll, DecideForUser, DecideDespiteFault,
                       cluster, store, history, TypeOK
    <2> QED
      BY <2>1, <2>2, <2>3, <2>4, DecideType DEF TypeOK
  <1>5. CASE Writes(r)
    <2>1. Store(r) /\ (Finish(r) \/ Requeue(r))
      BY <1>5 DEF Writes, WriteStatus, WriteStatusUnheard
    <2>2. api[r].spec \in SpecsOf[r] /\ job[r].new \in SUBSET Clusters
      BY <2>1 DEF Store, Current, TypeOK, RuleObject, Job
    <2>3. Put(r, api[r].spec, job[r].new)
      BY <2>1 DEF Store
    <2>4. UNCHANGED <<clusters, clEvents, granted, ruleCache, overlooked, missed>>
      BY <1>5 DEF Writes, WriteStatus, WriteStatusUnheard, cluster, history
    <2>5. changes' \in 0 .. MaxChanges /\ faults' \in 0 .. MaxFaults
      BY <1>0, <1>5 DEF Writes, WriteStatus, WriteStatusUnheard, env, history, TypeOK
    <2> QED
      BY <2>1, <2>2, <2>3, <2>4, <2>5, PutType, FinishType DEF TypeOK
  <1>6. CASE Conflict(r)
    <2>1. CASE job[r].tries + 1 < MaxTries
      <3>1. [job[r] EXCEPT !.tries = @ + 1] \in Job(r)
        BY <2>1, BoundsAssumption DEF TypeOK, Job
      <3> QED
        BY <1>6, <2>1, <3>1 DEF Conflict, TypeOK, cluster, store, env, history
    <2>2. CASE Requeue(r)
      BY <1>6, <2>2, FinishType DEF Conflict, TypeOK, cluster, store, env, history
    <2> QED
      BY <1>6, <2>1, <2>2 DEF Conflict
  <1>7. CASE UpdateGone(r)
    BY <1>7, FinishType DEF UpdateGone, TypeOK, cluster, store, env, history
  <1>8. CASE RequestFails(r)
    BY <1>0, <1>8, FinishType DEF RequestFails, TypeOK, cluster, store, history
  <1> QED
    BY <1>2, <1>3, <1>4, <1>5, <1>6, <1>7, <1>8 DEF Worker, Failing, Writes

LEMMA NextType == ASSUME TypeOK, InstIsCached, [Next]_vars PROVE TypeOK'
  <1>0. Fault => changes' \in 0 .. MaxChanges /\ faults' \in 0 .. MaxFaults
    BY BoundsAssumption DEF TypeOK, Fault
  <1>1. CASE Environment
    BY <1>1, EnvironmentType
  <1>2. ASSUME NEW c \in Clusters, MapCluster(c) \/ MapClusterFails(c)
        PROVE  TypeOK'
    BY <1>0, <1>2 DEF MapCluster, MapClusterFails, TypeOK, store, env, history
  <1>3. ASSUME NEW r \in Rules, SyncRule(r)
        PROVE  TypeOK'
    BY <1>3 DEF SyncRule, TypeOK, cluster, store, env, history
  <1>4. ASSUME NEW r \in Rules, Take(r)
        PROVE  TypeOK'
    <2>1. [job[r] EXCEPT !.pc = "get"] \in Job(r)
      BY DEF TypeOK, Job
    <2> QED
      BY <1>4, <2>1 DEF Take, TypeOK, cluster, store, env, history
  <1>5. ASSUME NEW r \in Rules, Worker(r) \/ Failing(r)
        PROVE  TypeOK'
    BY <1>5, WorkerType
  <1>6. CASE UNCHANGED vars
    BY <1>6 DEF vars, TypeOK
  <1> QED
    BY <1>1, <1>2, <1>3, <1>4, <1>5, <1>6 DEF Next, Quiet

-----------------------------------------------------------------------------
(* Steps of a worker, field by field.                                       *)

\* Reconcile has returned, or has decided and goes on to UpdateStatus.
Returned(r) == job'[r].pc = "idle" /\ job'[r].inst = Nil

Updating(r, inst, clmap, new) ==
    /\ job'[r].pc = "update" /\ job'[r].inst = inst /\ job'[r].clmap = clmap
    /\ job'[r].new = new /\ job'[r].tries = 0

\* Its other rules' jobs are none of a worker's business.
Alone(r) == \A q \in Rules \ {r} : job'[q] = job[q]

LEMMA ReturnEffect ==
  ASSUME TypeOK, NEW r \in Rules, Finish(r) \/ Requeue(r)
  PROVE  /\ Returned(r) /\ Alone(r)
         /\ queue \subseteq queue'
         /\ Requeue(r) => r \in queue'
  BY DEF TypeOK, Finish, Requeue, IdleJob, Returned, Alone

LEMMA CompareEffect ==
  ASSUME TypeOK, NEW r \in Rules, NEW inst, NEW clmap, NEW new, Compare(r, inst, clmap, new)
  PROVE  /\ (new = inst.decs /\ Returned(r)) \/ Updating(r, inst, clmap, new)
         /\ Alone(r) /\ UNCHANGED queue
  <1>1. CASE new = inst.decs
    BY <1>1, ReturnEffect DEF Compare, Finish
  <1>2. CASE new # inst.decs
    BY <1>2 DEF Compare, TypeOK, Updating, Alone
  <1> QED
    BY <1>1, <1>2

LEMMA GetEffect ==
  ASSUME TypeOK, NEW r \in Rules, GetRule(r)
  PROVE  /\ Alone(r)
         /\ UNCHANGED <<clusters, clEvents, granted, api, rev, ruleCache, overlooked, missed, queue>>
         /\ \/ (ruleCache[r] = Nil \/ ~Mcm(ruleCache[r].spec)) /\ Returned(r)
            \/ /\ ruleCache[r] # Nil /\ Mcm(ruleCache[r].spec)
               /\ ruleCache[r].spec.replicas = 0
               /\ (ruleCache[r].decs = {} /\ Returned(r)) \/ Updating(r, ruleCache[r], {}, {})
            \/ /\ ruleCache[r] # Nil /\ Mcm(ruleCache[r].spec)
               /\ job'[r].pc = "list" /\ job'[r].inst = ruleCache[r]
  <1>0. UNCHANGED <<clusters, clEvents, granted, api, rev, ruleCache, overlooked, missed>>
    BY DEF GetRule, cluster, store, history
  <1>1. CASE ruleCache[r] = Nil \/ ~Mcm(ruleCache[r].spec)
    <2>1. Finish(r)
      BY <1>1 DEF GetRule
    <2> QED
      BY <1>0, <1>1, <2>1, ReturnEffect DEF Finish
  <1>2. CASE ruleCache[r] # Nil /\ ruleCache[r].spec.replicas = 0 /\ Mcm(ruleCache[r].spec)
    <2>1. Compare(r, ruleCache[r], {}, {})
      BY <1>2 DEF GetRule
    <2> QED
      BY <1>0, <1>2, <2>1, CompareEffect
  <1>3. CASE ruleCache[r] # Nil /\ ruleCache[r].spec.replicas # 0 /\ Mcm(ruleCache[r].spec)
    <2>1. /\ job' = [job EXCEPT ![r].pc = "list", ![r].inst = ruleCache[r]]
          /\ UNCHANGED queue
      BY <1>3 DEF GetRule
    <2>2. job'[r].pc = "list" /\ job'[r].inst = ruleCache[r] /\ Alone(r)
      BY <2>1 DEF TypeOK, Job, Alone
    <2> QED
      BY <1>0, <1>3, <2>1, <2>2
  <1> QED
    BY <1>1, <1>2, <1>3

\* The list is as the cache is, unless it found nothing by mistake.
LEMMA ListEffect ==
  ASSUME TypeOK, NEW r \in Rules, ListClusters(r) \/ ListsNothing(r)
  PROVE  /\ Alone(r)
         /\ job[r].pc = "list"
         /\ queue \subseteq queue'
         /\ UNCHANGED <<clusters, clEvents, granted, api, rev, ruleCache, overlooked>>
         /\ missed \subseteq missed'
         /\ \/ Unparsable(job[r].inst.spec) /\ Returned(r) /\ r \in queue'
            \/ /\ job'[r].pc = "decide" /\ job'[r].inst = job[r].inst
               /\ job'[r].seen = clusters \/ r \in missed'
  <1>0. /\ job[r].pc = "list"
        /\ UNCHANGED <<clusters, clEvents, granted, api, rev, ruleCache, overlooked>>
        /\ missed \subseteq missed'
    BY DEF ListClusters, ListsNothing, cluster, store, history
  <1>1. CASE Unparsable(job[r].inst.spec)
    BY <1>0, <1>1, ReturnEffect DEF ListClusters, ListsNothing
  <1>2. CASE ~Unparsable(job[r].inst.spec)
    <2>1. PICK view : /\ job' = [job EXCEPT ![r].pc = "decide", ![r].seen = view]
                      /\ UNCHANGED queue
                      /\ view = clusters \/ r \in missed'
      BY <1>2 DEF ListClusters, ListsNothing
    <2>2. job'[r].pc = "decide" /\ job'[r].inst = job[r].inst /\ job'[r].seen = view
      BY <2>1 DEF TypeOK, Job
    <2>3. Alone(r)
      BY <2>1 DEF TypeOK, Alone
    <2> QED
      BY <1>0, <2>1, <2>2, <2>3
  <1> QED
    BY <1>1, <1>2

\* A decision is compared with what was read; only a user's rule is filtered.
LEMMA DecideEffect ==
  ASSUME TypeOK, NEW r \in Rules,
         DecideForAll(r) \/ DecideForUser(r) \/ DecideDespiteFault(r)
  PROVE  /\ Alone(r)
         /\ job[r].pc = "decide"
         /\ UNCHANGED <<clusters, clEvents, granted, api, rev, ruleCache, missed, queue>>
         /\ overlooked' \in {overlooked, overlooked \cup {r}}
         /\ \E permitted \in SUBSET Clusters :
              LET inst  == job[r].inst
                  clmap == Eligible(inst.spec, job[r].seen) \cap permitted
              IN  /\ ~inst.spec.user => permitted = Clusters
                  /\ permitted = Permitted(inst.spec) \/ (inst.spec.user /\ r \in overlooked')
                  /\ \E new \in Picks(inst.spec, job[r].seen, clmap, inst.decs) :
                        (new = inst.decs /\ Returned(r)) \/ Updating(r, inst, clmap, new)
  <1>1. PICK permitted \in SUBSET Clusters :
            /\ Decide(r, permitted)
            /\ ~job[r].inst.spec.user => permitted = Clusters
            /\ \/ permitted = Permitted(job[r].inst.spec)
               \/ job[r].inst.spec.user /\ r \in overlooked'
            /\ overlooked' \in {overlooked, overlooked \cup {r}} /\ UNCHANGED missed
    BY DEF DecideForAll, DecideForUser, DecideDespiteFault, Permitted, TypeOK, history
  <1> DEFINE clmap == Eligible(job[r].inst.spec, job[r].seen) \cap permitted
  <1>2. PICK new \in Picks(job[r].inst.spec, job[r].seen, clmap, job[r].inst.decs) :
            Compare(r, job[r].inst, clmap, new)
    BY <1>1 DEF Decide
  <1>3. job[r].pc = "decide" /\ UNCHANGED <<clusters, clEvents, granted, api, rev, ruleCache>>
    BY <1>1 DEF Decide, cluster, store, history
  <1>4. /\ Alone(r) /\ UNCHANGED queue
        /\ (new = job[r].inst.decs /\ Returned(r)) \/ Updating(r, job[r].inst, clmap, new)
    BY <1>2, CompareEffect
  <1> HIDE DEF clmap
  <1>5. \E choice \in Picks(job[r].inst.spec, job[r].seen, clmap, job[r].inst.decs) :
            (choice = job[r].inst.decs /\ Returned(r)) \/ Updating(r, job[r].inst, clmap, choice)
    BY <1>2, <1>4
  <1> USE DEF clmap
  <1> QED
    BY <1>1, <1>3, <1>4, <1>5

LEMMA WriteEffect ==
  ASSUME TypeOK, NEW r \in Rules, Writes(r)
  PROVE  /\ job[r].pc = "update"
         /\ Current(r)
         /\ Put(r, api[r].spec, job[r].new)
         /\ Returned(r) /\ Alone(r)
         /\ queue \subseteq queue'
         /\ UNCHANGED <<clusters, clEvents, granted, ruleCache, overlooked, missed>>
  BY ReturnEffect DEF Writes, WriteStatus, WriteStatusUnheard, Store, cluster, history

LEMMA NoWriteEffect ==
  ASSUME TypeOK, NEW r \in Rules, Conflict(r) \/ UpdateGone(r) \/ RequestFails(r)
  PROVE  /\ Alone(r)
         /\ queue \subseteq queue'
         /\ UNCHANGED <<clusters, clEvents, granted, api, rev, ruleCache, overlooked, missed>>
         /\ \/ Returned(r) /\ r \in queue'
            \/ /\ job[r].pc = "update" /\ ~Current(r)
               /\ job'[r].pc = "update" /\ job'[r].inst = job[r].inst
               /\ job'[r].clmap = job[r].clmap /\ job'[r].new = job[r].new
  <1>0. UNCHANGED <<clusters, clEvents, granted, api, rev, ruleCache, overlooked, missed>>
    BY DEF Conflict, UpdateGone, RequestFails, cluster, store, history
  <1>1. CASE Requeue(r)
    BY <1>0, <1>1, ReturnEffect
  <1>2. CASE Conflict(r) /\ ~Requeue(r)
    <2>1. /\ job[r].pc = "update" /\ ~Current(r)
          /\ job' = [job EXCEPT ![r].tries = @ + 1] /\ UNCHANGED queue
      BY <1>2 DEF Conflict
    <2>2. /\ job'[r].pc = job[r].pc /\ job'[r].inst = job[r].inst
          /\ job'[r].clmap = job[r].clmap /\ job'[r].new = job[r].new
      BY <2>1 DEF TypeOK, Job
    <2>3. Alone(r)
      BY <2>1 DEF TypeOK, Alone
    <2> QED
      BY <1>0, <2>1, <2>2, <2>3
  <1> QED
    BY <1>1, <1>2 DEF UpdateGone, RequestFails

-----------------------------------------------------------------------------
(* Versions.                                                                *)

\* Whoever stores an object gives it a version nobody has read.
LEMMA PutVersions ==
  ASSUME TypeOK, VersionsIdentify, NEW r \in Rules, NEW spec, NEW decs,
         Put(r, spec, decs), UNCHANGED ruleCache,
         \A q \in Rules : job'[q].inst \in {job[q].inst, Nil}
  PROVE  VersionsIdentify'
  <1> SUFFICES ASSUME NEW q \in Rules
               PROVE  /\ \A x \in {api'[q], ruleCache'[q], job'[q].inst} :
                            x # Nil => x.rv <= rev'[q]
                      /\ SameVersion(q, api'[q], ruleCache'[q])
                      /\ SameVersion(q, api'[q], job'[q].inst)
    BY DEF VersionsIdentify
  <1>1. /\ ruleCache[q] \in RuleObject(q) \cup {Nil}
        /\ job[q].inst \in RuleObject(q) \cup {Nil}
        /\ rev[q] \in Nat
    BY DEF TypeOK, Job
  <1>2. CASE q = r
    <2>1. api'[q].rv = rev[q] + 1 /\ rev'[q] = rev[q] + 1
      BY <1>2 DEF Put, TypeOK
    <2> QED
      BY <1>1, <2>1 DEF VersionsIdentify, SameVersion, RuleObject
  <1>3. CASE q # r
    <2>1. api'[q] = api[q] /\ rev'[q] = rev[q]
      BY <1>3 DEF Put, TypeOK
    <2> QED
      BY <2>1 DEF VersionsIdentify, SameVersion
  <1> QED
    BY <1>2, <1>3

\* Every other step only copies or forgets objects.
LEMMA CopyVersions ==
  ASSUME TypeOK, VersionsIdentify, UNCHANGED rev,
         \A q \in Rules : /\ api'[q] \in {api[q], Nil}
                          /\ ruleCache'[q] \in {ruleCache[q], api[q]}
                          /\ job'[q].inst \in {job[q].inst, ruleCache[q], Nil}
  PROVE  VersionsIdentify'
  BY DEF VersionsIdentify, SameVersion

LEMMA NextVersions ==
  ASSUME TypeOK, InstIsCached, VersionsIdentify, [Next]_vars
  PROVE  VersionsIdentify'
  <1> USE DEF store, cluster, env, history
  <1>1. ASSUME NEW c \in Clusters, NEW new, SetCluster(c, new)
        PROVE  VersionsIdentify'
    BY <1>1, CopyVersions DEF SetCluster
  <1>2. ASSUME NEW r \in Rules, CreateRule(r) \/ EditRule(r) \/ ForeignSchedule(r)
        PROVE  VersionsIdentify'
    BY <1>2, PutVersions DEF CreateRule, EditRule, ForeignSchedule
  <1>3. ASSUME NEW r \in Rules, DeleteRule(r) \/ Resync(r) \/ SyncRule(r) \/ Take(r)
        PROVE  VersionsIdentify'
    <2>1. \A q \in Rules : job'[q].inst = job[q].inst
      BY <1>3 DEF DeleteRule, Resync, SyncRule, Take, TypeOK, Job
    <2> QED
      BY <1>3, <2>1, CopyVersions DEF DeleteRule, Resync, SyncRule, Take, TypeOK
  <1>4. CASE Restart \/ (\E c \in Clusters : MapCluster(c) \/ MapClusterFails(c))
          \/ (\E g \in Grants : ChangeGrants(g))
    BY <1>4, CopyVersions DEF Restart, MapCluster, MapClusterFails, ChangeGrants, IdleJob
  <1>5. ASSUME NEW r \in Rules, Worker(r) \/ Failing(r)
        PROVE  VersionsIdentify'
    <2>1. CASE Writes(r)
      <3>1. \A q \in Rules : job'[q].inst \in {job[q].inst, Nil}
        BY <2>1, WriteEffect DEF Returned, Alone
      <3> QED
        BY <2>1, <3>1, WriteEffect, PutVersions
    <2>2. CASE ~Writes(r)
      <3>1. UNCHANGED <<api, rev, ruleCache>> /\ Alone(r)
        BY <1>5, <2>2, GetEffect, ListEffect, DecideEffect, NoWriteEffect
           DEF Worker, Failing, Writes
      <3>2. job'[r].inst \in {job[r].inst, ruleCache[r], Nil}
        BY <1>5, <2>2, GetEffect, ListEffect, DecideEffect, NoWriteEffect
           DEF Worker, Failing, Writes, Returned, Updating
      <3> QED
        BY <3>1, <3>2, CopyVersions DEF Alone
    <2> QED
      BY <2>1, <2>2
  <1>6. CASE UNCHANGED vars
    BY <1>6, CopyVersions DEF vars
  <1> QED
    BY <1>1, <1>2, <1>3, <1>4, <1>5, <1>6
       DEF Next, Environment, Quiet, CreateCluster, UpdateCluster, RemoveCluster

-----------------------------------------------------------------------------
(* Steps that are not a worker's.                                           *)

\* A change leaves the workers and the rule cache alone, and a rule it stores
\* gets a new version.
LEMMA EnvironmentEffect ==
  ASSUME TypeOK, Environment, ~Restart
  PROVE  /\ UNCHANGED <<job, ruleCache>>
         /\ queue \subseteq queue'
         /\ \A r \in Rules : \/ UNCHANGED <<api[r], rev[r]>>
                             \/ api'[r] = Nil
                             \/ api'[r].rv = rev[r] + 1
  <1> USE DEF store, cluster, history
  <1>1. ASSUME NEW r \in Rules, NEW spec, NEW decs, Put(r, spec, decs)
        PROVE  \A q \in Rules : \/ UNCHANGED <<api[q], rev[q]>>
                                \/ api'[q].rv = rev[q] + 1
    BY <1>1 DEF Put, TypeOK
  <1>2. ASSUME NEW c \in Clusters, CreateCluster(c) \/ UpdateCluster(c) \/ RemoveCluster(c)
        PROVE  UNCHANGED <<job, ruleCache, queue, api, rev>>
    BY <1>2 DEF CreateCluster, UpdateCluster, RemoveCluster, SetCluster
  <1>3. ASSUME NEW r \in Rules, CreateRule(r) \/ EditRule(r) \/ ForeignSchedule(r)
        PROVE  /\ UNCHANGED <<job, ruleCache, queue>>
               /\ \E spec, decs : Put(r, spec, decs)
    BY <1>3 DEF CreateRule, EditRule, ForeignSchedule
  <1>4. ASSUME NEW r \in Rules, DeleteRule(r)
        PROVE  /\ UNCHANGED <<job, ruleCache, queue, rev>>
               /\ \A q \in Rules : api'[q] = api[q] \/ api'[q] = Nil
    BY <1>4 DEF DeleteRule, TypeOK
  <1>5. ASSUME NEW r \in Rules, Resync(r)
        PROVE  UNCHANGED <<job, ruleCache, api, rev>> /\ queue \subseteq queue'
    BY <1>5 DEF Resync
  <1>6. ASSUME NEW g \in Grants, ChangeGrants(g)
        PROVE  UNCHANGED <<job, ruleCache, queue, api, rev>>
    BY <1>6 DEF ChangeGrants
  <1> QED
    BY <1>1, <1>2, <1>3, <1>4, <1>5, <1>6 DEF Environment

LEMMA TakeEffect ==
  ASSUME TypeOK, NEW r \in Rules, Take(r)
  PROVE  /\ UNCHANGED <<clusters, clEvents, granted, api, rev, ruleCache>>
         /\ overlooked' = overlooked \ {r} /\ missed' = missed \ {r}
         /\ job'[r].pc = "get" /\ Alone(r)
         /\ queue' = queue \ {r}
  <1>1. job[r] \in Job(r)
    BY DEF TypeOK
  <1>2. job' = [job EXCEPT ![r].pc = "get"]
    BY DEF Take
  <1>3. job'[r].pc = "get"
    BY <1>1, <1>2 DEF TypeOK, Job
  <1> QED
    BY <1>2, <1>3 DEF Take, Alone, TypeOK, cluster, store, history

\* What a worker leaves alone.
LEMMA WorkerFrame ==
  ASSUME TypeOK, NEW r \in Rules, Worker(r) \/ Failing(r)
  PROVE  /\ Alone(r)
         /\ queue \subseteq queue'
         /\ UNCHANGED <<clusters, clEvents, granted, ruleCache>>
         /\ overlooked' \in {overlooked, overlooked \cup {r}}
         /\ missed \subseteq missed'
         /\ \A q \in Rules \ {r} : UNCHANGED <<api[q], rev[q]>>
  <1>1. CASE Writes(r)
    <2>1. \A q \in Rules \ {r} : UNCHANGED <<api[q], rev[q]>>
      BY <1>1, WriteEffect DEF Put, TypeOK
    <2> QED
      BY <1>1, <2>1, WriteEffect
  <1>2. CASE GetRule(r)
    BY <1>2, GetEffect
  <1>3. CASE ListClusters(r) \/ ListsNothing(r)
    BY <1>3, ListEffect
  <1>4. CASE DecideForAll(r) \/ DecideForUser(r) \/ DecideDespiteFault(r)
    BY <1>4, DecideEffect
  <1>5. CASE Conflict(r) \/ UpdateGone(r) \/ RequestFails(r)
    BY <1>5, NoWriteEffect
  <1> QED
    BY <1>1, <1>2, <1>3, <1>4, <1>5 DEF Worker, Failing, Writes

-----------------------------------------------------------------------------
(* A worker holds the cached rule.                                          *)

LEMMA NextInst ==
  ASSUME TypeOK, InstIsCached, [Next]_vars
  PROVE  InstIsCached'
  <1>1. CASE Environment /\ ~Restart
    BY <1>1, EnvironmentEffect DEF InstIsCached
  <1>2. CASE Restart
    BY <1>2 DEF Restart, InstIsCached, IdleJob
  <1>3. ASSUME NEW c \in Clusters, MapCluster(c) \/ MapClusterFails(c)
        PROVE  InstIsCached'
    BY <1>3 DEF MapCluster, MapClusterFails, InstIsCached
  <1>4. ASSUME NEW r \in Rules, SyncRule(r)
        PROVE  InstIsCached'
    BY <1>4 DEF SyncRule, InstIsCached, TypeOK
  <1>5. ASSUME NEW r \in Rules, Take(r)
        PROVE  InstIsCached'
    BY <1>5, TakeEffect DEF InstIsCached, Alone
  <1>6. ASSUME NEW r \in Rules, Worker(r) \/ Failing(r)
        PROVE  InstIsCached'
    <2>1. \A q \in Rules \ {r} : job'[q].pc \in {"list", "decide", "update"} =>
              /\ job'[q].inst # Nil /\ Mcm(job'[q].inst.spec)
              /\ job'[q].inst = ruleCache'[q] \/ q \in queue'
      BY <1>6, WorkerFrame DEF InstIsCached, Alone
    <2>2. \/ job'[r].pc \notin {"list", "decide", "update"}
          \/ job'[r].inst # Nil /\ Mcm(job'[r].inst.spec) /\ job'[r].inst = ruleCache[r]
          \/ job[r].pc \in {"list", "decide", "update"} /\ job'[r].inst = job[r].inst
      <3>1. CASE Writes(r)
        BY <3>1, WriteEffect DEF Returned
      <3>2. CASE GetRule(r)
        BY <3>2, GetEffect DEF Returned, Updating
      <3>3. CASE ListClusters(r) \/ ListsNothing(r)
        BY <3>3, ListEffect DEF Returned
      <3>4. CASE DecideForAll(r) \/ DecideForUser(r) \/ DecideDespiteFault(r)
        BY <3>4, DecideEffect DEF Returned, Updating
      <3>5. CASE Conflict(r) \/ UpdateGone(r) \/ RequestFails(r)
        BY <3>5, NoWriteEffect DEF Returned
      <3> QED
        BY <1>6, <3>1, <3>2, <3>3, <3>4, <3>5 DEF Worker, Failing, Writes
    <2>3. queue \subseteq queue' /\ UNCHANGED ruleCache
      BY <1>6, WorkerFrame
    <2> QED
      BY <2>1, <2>2, <2>3 DEF InstIsCached
  <1>7. CASE UNCHANGED vars
    BY <1>7 DEF vars, InstIsCached
  <1> QED
    BY <1>1, <1>2, <1>3, <1>4, <1>5, <1>6, <1>7 DEF Next, Quiet

-----------------------------------------------------------------------------
(* What a worker is about to write.                                         *)

LEMMA NoneOfNone ==
  ASSUME NEW spec, spec.replicas = 0
  PROVE  Cardinality({}) = Total(spec, Cardinality({}))
  BY FS_EmptySet, NilAssumption DEF Total

LEMMA NextPicked ==
  ASSUME TypeOK, PickedFromInst, [Next]_vars
  PROVE  PickedFromInst'
  <1> DEFINE Picked(inst, clmap, new) ==
        /\ Cardinality(new) = Total(inst.spec, Cardinality(clmap))
        /\ inst.spec.hint = "none" =>
              inst.decs \cap clmap \subseteq new \/ new \subseteq inst.decs \cap clmap
  <1>1. PickedFromInst <=>
            \A q \in Rules : job[q].pc = "update" => Picked(job[q].inst, job[q].clmap, job[q].new)
    BY DEF PickedFromInst, PickedAnew
  <1>2. PickedFromInst' <=>
            \A q \in Rules : job'[q].pc = "update" =>
                Picked(job'[q].inst, job'[q].clmap, job'[q].new)
    BY DEF PickedFromInst, PickedAnew
  <1>3. ASSUME NEW r \in Rules, Worker(r) \/ Failing(r), job'[r].pc = "update"
        PROVE  Picked(job'[r].inst, job'[r].clmap, job'[r].new)
    <2>1. CASE GetRule(r)
      BY <1>3, <2>1, GetEffect, NoneOfNone DEF Returned, Updating
    <2>2. CASE DecideForAll(r) \/ DecideForUser(r) \/ DecideDespiteFault(r)
      <3>1. PICK clmap : \E new \in Picks(job[r].inst.spec, job[r].seen, clmap, job[r].inst.decs) :
                Updating(r, job[r].inst, clmap, new)
        BY <1>3, <2>2, DecideEffect DEF Returned
      <3> QED
        BY <3>1 DEF Picks, Updating
    <2>3. CASE ~GetRule(r) /\ ~(DecideForAll(r) \/ DecideForUser(r) \/ DecideDespiteFault(r))
      <3>1. /\ job[r].pc = "update" /\ job'[r].inst = job[r].inst
            /\ job'[r].clmap = job[r].clmap /\ job'[r].new = job[r].new
        BY <1>3, <2>3, WriteEffect, ListEffect, NoWriteEffect
           DEF Worker, Failing, Writes, Returned
      <3> QED
        BY <1>1, <3>1
    <2> QED
      BY <2>1, <2>2, <2>3
  <1> HIDE DEF Picked
  <1>4. CASE UNCHANGED job
    BY <1>1, <1>2, <1>4
  <1>5. CASE Restart
    BY <1>2, <1>5 DEF Restart, IdleJob
  <1>6. ASSUME NEW r \in Rules, Take(r)
        PROVE  PickedFromInst'
    BY <1>1, <1>2, <1>6, TakeEffect DEF Alone
  <1>7. ASSUME NEW r \in Rules, Worker(r) \/ Failing(r)
        PROVE  PickedFromInst'
    BY <1>1, <1>2, <1>3, <1>7, WorkerFrame DEF Alone
  <1> QED
    BY <1>4, <1>5, <1>6, <1>7, EnvironmentEffect
       DEF Next, Quiet, MapCluster, MapClusterFails, SyncRule, vars

\* Once the stored rule has moved on from what a worker read, it never returns.
LEMMA NextFutile ==
  ASSUME TypeOK, VersionsIdentify, RetryIsFutile, [Next]_vars
  PROVE  RetryIsFutile'
  <1> DEFINE Match(q) == api[q] # Nil /\ job[q].inst # Nil /\ api[q].rv = job[q].inst.rv
  <1>0. /\ RetryIsFutile  <=> \A q \in Rules : job[q].pc = "update" /\ job[q].tries > 0 => ~Match(q)
        /\ RetryIsFutile' <=> \A q \in Rules : job'[q].pc = "update" /\ job'[q].tries > 0 => ~Match(q)'
    BY DEF RetryIsFutile, Current
  <1>1. \A q \in Rules : job[q].inst # Nil => job[q].inst.rv \in Nat /\ job[q].inst.rv <= rev[q]
    BY DEF TypeOK, Job, RuleObject, VersionsIdentify
  <1>2. \A q \in Rules : rev[q] \in Nat
    BY DEF TypeOK
  <1>3. ASSUME NEW q \in Rules, job'[q] = job[q], ~Match(q),
               \/ UNCHANGED <<api[q], rev[q]>> \/ api'[q] = Nil \/ api'[q].rv = rev[q] + 1
        PROVE  ~Match(q)'
    BY <1>1, <1>2, <1>3
  <1>4. CASE Environment /\ ~Restart
    BY <1>0, <1>3, <1>4, EnvironmentEffect
  <1>5. CASE Restart
    BY <1>0, <1>5 DEF Restart, IdleJob
  <1>6. CASE UNCHANGED <<api, job, rev>>
    BY <1>0, <1>6
  <1>7. ASSUME NEW r \in Rules, Take(r)
        PROVE  RetryIsFutile'
    BY <1>0, <1>7, TakeEffect DEF Alone
  <1>8. ASSUME NEW r \in Rules, Worker(r) \/ Failing(r)
        PROVE  RetryIsFutile'
    <2>1. \A q \in Rules \ {r} : job'[q].pc = "update" /\ job'[q].tries > 0 => ~Match(q)'
      BY <1>0, <1>8, WorkerFrame DEF Alone
    <2>2. job'[r].pc = "update" /\ job'[r].tries > 0 => ~Match(r)'
      <3>1. CASE Conflict(r) \/ UpdateGone(r) \/ RequestFails(r)
        BY <3>1, NoWriteEffect DEF Returned, Current
      <3>2. CASE ~(Conflict(r) \/ UpdateGone(r) \/ RequestFails(r))
        <4>1. job'[r].pc # "update" \/ job'[r].tries = 0
          BY <1>8, <3>2, WriteEffect, GetEffect, ListEffect, DecideEffect
             DEF Worker, Failing, Writes, Returned, Updating
        <4> QED
          BY <4>1
      <3> QED
        BY <3>1, <3>2
    <2> QED
      BY <1>0, <2>1, <2>2
  <1> QED
    BY <1>4, <1>5, <1>6, <1>7, <1>8
       DEF Next, Quiet, MapCluster, MapClusterFails, SyncRule, vars, store, history

-----------------------------------------------------------------------------
(* What a worker has computed.                                              *)

\* An update of a cluster that ClusterPredicate drops changes nobody's choice.
LEMMA DroppedUpdate ==
  ASSUME TypeOK, NEW c \in Clusters, NEW new \in ClusterState, clusters[c] # Nil, new # Nil,
         ~ClusterPredicate(clusters[c], new), NEW spec
  PROVE  Eligible(spec, [clusters EXCEPT ![c] = new]) = Eligible(spec, clusters)
  <1> DEFINE after == [clusters EXCEPT ![c] = new]
  <1>1. \A d \in Clusters : d # c => after[d] = clusters[d]
    BY DEF TypeOK
  <1>2. after[c] = new
    BY DEF TypeOK
  <1>3. new.deleting = clusters[c].deleting /\ new.labels = clusters[c].labels
        /\ new.conds = clusters[c].conds
    BY DEF ClusterPredicate
  <1> HIDE DEF after
  <1>4. \A d \in Clusters : /\ after[d] # Nil <=> clusters[d] # Nil
                            /\ after[d].deleting = clusters[d].deleting
                            /\ after[d].labels = clusters[d].labels
                            /\ after[d].conds = clusters[d].conds
    BY <1>1, <1>2, <1>3
  <1>5. Eligible(spec, after) = Eligible(spec, clusters)
    BY <1>4 DEF Eligible, Listed, LabelMatch, ConditionsMatch
  <1> QED
    BY <1>5 DEF after

LEMMA SetClusterEffect ==
  ASSUME TypeOK, NEW c \in Clusters, NEW new \in StatesOf[c] \cup {Nil}, SetCluster(c, new)
  PROVE  /\ UNCHANGED <<api, rev, ruleCache, queue, job, missed>>
         /\ \/ clEvents' # {}
            \/ /\ UNCHANGED clEvents /\ overlooked' = Rules
               /\ \A spec : Eligible(spec, clusters') = Eligible(spec, clusters)
  <1>1. UNCHANGED <<api, rev, ruleCache, queue, job, missed>>
    BY DEF SetCluster, store
  <1>2. CASE clusters[c] # Nil /\ new # Nil /\ ~ClusterPredicate(clusters[c], new)
    <2>1. new \in ClusterState
      BY <1>2, InputsAssumption
    <2>2. UNCHANGED clEvents /\ overlooked' = Rules /\ clusters' = [clusters EXCEPT ![c] = new]
      BY <1>2 DEF SetCluster
    <2> QED
      BY <1>1, <1>2, <2>1, <2>2, DroppedUpdate
  <1>3. CASE ~(clusters[c] # Nil /\ new # Nil /\ ~ClusterPredicate(clusters[c], new))
    <2>1. clEvents' = clEvents \cup {c}
      BY <1>3 DEF SetCluster
    <2> QED
      BY <1>1, <2>1
  <1> QED
    BY <1>2, <1>3

\* Choosing from all eligible clusters gives acceptable decisions.
LEMMA PicksAreAcceptable ==
  ASSUME NEW spec, NEW view, NEW old, NEW permitted,
         NEW new \in Picks(spec, view, Eligible(spec, view) \cap permitted, old)
  PROVE  Acceptable(spec, view, permitted, new)
  BY DEF Picks, Acceptable

\* With a hint they are the best of them, without one nothing ranks.
LEMMA PicksAreBest ==
  ASSUME NEW spec, NEW view, NEW old, NEW permitted,
         NEW new \in Picks(spec, view, Eligible(spec, view) \cap permitted, old)
  PROVE  BestRanked(spec, view, permitted, new)
  <1>1. CASE spec.hint = "none"
    BY <1>1 DEF BestRanked, Before
  <1>2. CASE spec.hint # "none"
    BY <1>2 DEF Picks, BestRanked
  <1> QED
    BY <1>1, <1>2

\* Whether the decisions are acceptable depends on the eligible clusters only.
LEMMA AcceptableByEligible ==
  ASSUME NEW spec, NEW v, NEW w, Eligible(spec, v) = Eligible(spec, w),
         NEW permitted, NEW decs
  PROVE  Acceptable(spec, v, permitted, decs) <=> Acceptable(spec, w, permitted, decs)
  BY DEF Acceptable

LEMMA NoneAreAcceptable ==
  ASSUME NEW spec, NEW view, NEW permitted, spec.replicas = 0
  PROVE  Acceptable(spec, view, permitted, {}) /\ BestRanked(spec, view, permitted, {})
  <1> DEFINE eligible == Eligible(spec, view) \cap permitted
  <1>1. IsFiniteSet(eligible)
    BY ClustersAssumption, FS_Subset DEF Eligible, Listed
  <1>2. Cardinality(eligible) \in Nat
    BY <1>1, FS_CardinalityType
  <1>3. Total(spec, Cardinality(eligible)) = 0
    BY <1>2, NilAssumption DEF Total
  <1> QED
    BY <1>3, FS_EmptySet DEF Acceptable, BestRanked

\* A rule that has been stored anew is not the cached one.
LEMMA StoredIsNews ==
  ASSUME TypeOK, VersionsIdentify, NEW r \in Rules, UNCHANGED ruleCache,
         api'[r].rv = rev[r] + 1, api'[r] # Nil
  PROVE  ruleCache'[r] # api'[r]
  <1>1. ruleCache[r] # Nil => ruleCache[r].rv \in Nat /\ ruleCache[r].rv <= rev[r]
    BY DEF TypeOK, RuleObject, VersionsIdentify
  <1>2. rev[r] \in Nat
    BY DEF TypeOK
  <1> QED
    BY <1>1, <1>2

\* WorkIsCurrent for one rule.
CurrentWork(r) ==
    r \notin missed /\ ~Awaited(r) =>
        /\ job[r].pc = "idle" => RightDecisions(r)
        /\ job[r].pc = "decide" /\ api[r] # Nil =>
              /\ Eligible(api[r].spec, job[r].seen) = Eligible(api[r].spec, clusters)
              /\ r \notin overlooked => job[r].seen = clusters
        /\ job[r].pc = "update" => Right(r, job[r].new)

\* A step that touches none of the rule's state keeps it.
LEMMA CurrentWorkKept ==
  ASSUME NEW r \in Rules, CurrentWork(r), Awaited(r) => Awaited(r)',
         job'[r] = job[r], api'[r] = api[r],
         r \in overlooked => r \in overlooked', r \in missed => r \in missed',
         \A spec : Eligible(spec, clusters') = Eligible(spec, clusters),
         r \notin overlooked' => UNCHANGED <<clusters, granted>>
  PROVE  CurrentWork(r)'
  <1>1. ASSUME NEW decs, Right(r, decs)
        PROVE  Right(r, decs)'
    <2> SUFFICES ASSUME api[r] # Nil, Promised(api[r].spec)
                 PROVE  Right(r, decs)'
      BY DEF Right
    <2> DEFINE spec == api[r].spec
    <2>1. ~spec.user => Acceptable(spec, clusters', Clusters, decs)
      BY <1>1, AcceptableByEligible DEF Right, Permitted
    <2>2. r \notin overlooked' =>
              /\ Acceptable(spec, clusters', Permitted(spec)', decs)
              /\ BestRanked(spec, clusters', Permitted(spec)', decs)
      BY <1>1 DEF Right, Permitted
    <2> QED
      BY <2>1, <2>2 DEF Right, Permitted
  <1> QED
    BY <1>1 DEF CurrentWork, RightDecisions

\* A rule that is gone or stored anew needs nothing of the steps under way.
LEMMA CurrentWorkStored ==
  ASSUME TypeOK, VersionsIdentify, NEW r \in Rules, UNCHANGED ruleCache,
         api'[r] = Nil \/ api'[r].rv = rev[r] + 1
  PROVE  CurrentWork(r)'
  <1>1. CASE api'[r] = Nil
    BY <1>1 DEF CurrentWork, RightDecisions, Right
  <1>2. CASE api'[r] # Nil
    BY <1>2, StoredIsNews DEF CurrentWork, Awaited
  <1> QED
    BY <1>1, <1>2

LEMMA EnvironmentCurrent ==
  ASSUME TypeOK, VersionsIdentify, WorkIsCurrent, Environment, NEW q \in Rules
  PROVE  CurrentWork(q)'
  <1>0. CurrentWork(q)
    BY DEF WorkIsCurrent, CurrentWork
  <1>1. CASE Restart
    BY <1>1 DEF Restart, CurrentWork, Awaited, RightDecisions, Right, store, history
  <1>2. ASSUME NEW c \in Clusters, CreateCluster(c) \/ UpdateCluster(c) \/ RemoveCluster(c)
        PROVE  CurrentWork(q)'
    <2>1. PICK new \in StatesOf[c] \cup {Nil} : SetCluster(c, new)
      BY <1>2 DEF CreateCluster, UpdateCluster, RemoveCluster
    <2>2. CASE clEvents' # {}
      BY <2>2 DEF CurrentWork, Awaited
    <2>3. CASE /\ UNCHANGED clEvents /\ overlooked' = Rules
               /\ \A spec : Eligible(spec, clusters') = Eligible(spec, clusters)
      <3>1. UNCHANGED <<api, ruleCache, queue, job, missed>>
        BY <2>1, SetClusterEffect
      <3>2. Awaited(q) => Awaited(q)'
        BY <2>3, <3>1 DEF Awaited
      <3> QED
        BY <1>0, <2>3, <3>1, <3>2, CurrentWorkKept
    <2> QED
      BY <2>1, <2>2, <2>3, SetClusterEffect
  <1>3. CASE /\ ~Restart /\ UNCHANGED <<clusters, clEvents>>
             /\ UNCHANGED <<granted, overlooked>> \/ overlooked' = Rules
             /\ UNCHANGED missed
    <2>1. UNCHANGED <<job, ruleCache>> /\ queue \subseteq queue'
      BY <1>3, EnvironmentEffect
    <2>2. CASE UNCHANGED api[q]
      <3>1. Awaited(q) => Awaited(q)'
        BY <1>3, <2>1, <2>2 DEF Awaited
      <3> QED
        BY <1>0, <1>3, <2>1, <2>2, <3>1, CurrentWorkKept
    <2>3. CASE api'[q] = Nil \/ api'[q].rv = rev[q] + 1
      BY <2>1, <2>3, CurrentWorkStored
    <2> QED
      BY <1>3, <2>2, <2>3, EnvironmentEffect
  <1> QED
    BY <1>1, <1>2, <1>3
       DEF Environment, CreateRule, EditRule, DeleteRule, ForeignSchedule, Resync,
           ChangeGrants, cluster, history

\* The worker itself: it computes from what it read, and what it read is current
\* unless the rule is queued again.
LEMMA WorkerCurrent ==
  ASSUME TypeOK, VersionsIdentify, InstIsCached, WorkIsCurrent,
         NEW r \in Rules, Worker(r) \/ Failing(r)
  PROVE  CurrentWork(r)'
  <1>0. CurrentWork(r)
    BY DEF WorkIsCurrent, CurrentWork
  <1>1. CASE Writes(r)
    <2>1. api'[r].rv = rev[r] + 1
      BY <1>1, WriteEffect DEF Put, TypeOK
    <2>2. UNCHANGED ruleCache
      BY <1>1, WriteEffect
    <2> QED
      BY <2>1, <2>2, CurrentWorkStored
  <1> SUFFICES ASSUME ~Writes(r), ~Awaited(r)', r \notin missed', api[r] # Nil
               PROVE  CurrentWork(r)'
    <2>1. CASE ~Writes(r)
      <3>1. UNCHANGED api
        BY <2>1, GetEffect, ListEffect, DecideEffect, NoWriteEffect DEF Worker, Failing, Writes
      <3> QED
        BY <2>1, <3>1 DEF CurrentWork, RightDecisions, Right
    <2> QED
      BY <1>1, <2>1
  <1>2. /\ UNCHANGED <<clusters, clEvents, granted, api, ruleCache>> /\ queue \subseteq queue'
        /\ overlooked \subseteq overlooked' /\ missed \subseteq missed'
    BY GetEffect, ListEffect, DecideEffect, NoWriteEffect DEF Worker, Failing, Writes
  <1>3. /\ ruleCache[r] = api[r] /\ r \notin queue /\ r \notin queue' /\ ~Awaited(r)
        /\ r \notin missed
    BY <1>2 DEF Awaited
  <1>4. job[r].pc \in {"list", "decide", "update"} => job[r].inst = api[r]
    BY <1>3 DEF InstIsCached
  <1>5. CASE GetRule(r)
    <2>1. Promised(api[r].spec) => Mcm(api[r].spec)
      BY DEF Promised
    <2>2. CASE ~Mcm(api[r].spec)
      <3>1. Returned(r)
        BY <1>3, <1>5, <2>2, GetEffect
      <3> QED
        BY <1>2, <2>1, <2>2, <3>1 DEF CurrentWork, RightDecisions, Right, Returned
    <2>3. CASE /\ api[r].spec.replicas = 0
               /\ (api[r].decs = {} /\ Returned(r)) \/ Updating(r, api[r], {}, {})
      <3>1. Right(r, {})'
        BY <1>2, <2>3, NoneAreAcceptable DEF Right
      <3> QED
        BY <1>2, <2>3, <3>1
           DEF CurrentWork, RightDecisions, Right, Returned, Updating
    <2>4. CASE job'[r].pc = "list"
      BY <2>4 DEF CurrentWork
    <2> QED
      BY <1>3, <1>5, <2>2, <2>3, <2>4, GetEffect
  <1>6. CASE ListClusters(r) \/ ListsNothing(r)
    <2>1. job'[r].pc = "decide" /\ job'[r].seen = clusters
      BY <1>3, <1>6, ListEffect
    <2> QED
      BY <1>2, <2>1 DEF CurrentWork
  <1>7. CASE DecideForAll(r) \/ DecideForUser(r) \/ DecideDespiteFault(r)
    <2>1. job[r].pc = "decide" /\ job[r].inst = api[r]
      BY <1>4, <1>7, DecideEffect
    <2>2. PICK permitted \in SUBSET Clusters :
            /\ ~api[r].spec.user => permitted = Clusters
            /\ permitted = Permitted(api[r].spec) \/ (api[r].spec.user /\ r \in overlooked')
            /\ \E new \in Picks(api[r].spec, job[r].seen,
                              Eligible(api[r].spec, job[r].seen) \cap permitted, api[r].decs) :
                  \/ new = api[r].decs /\ Returned(r)
                  \/ Updating(r, api[r], Eligible(api[r].spec, job[r].seen) \cap permitted, new)
      <3>1. \E permitted \in SUBSET Clusters :
              LET inst  == job[r].inst
                  clmap == Eligible(inst.spec, job[r].seen) \cap permitted
              IN  /\ ~inst.spec.user => permitted = Clusters
                  /\ permitted = Permitted(inst.spec) \/ (inst.spec.user /\ r \in overlooked')
                  /\ \E new \in Picks(inst.spec, job[r].seen, clmap, inst.decs) :
                        (new = inst.decs /\ Returned(r)) \/ Updating(r, inst, clmap, new)
        BY <1>7, DecideEffect
      <3> QED
        BY <2>1, <3>1
    <2> DEFINE clmap == Eligible(api[r].spec, job[r].seen) \cap permitted
    <2>3. PICK new \in Picks(api[r].spec, job[r].seen, clmap, api[r].decs) :
              (new = api[r].decs /\ Returned(r)) \/ Updating(r, api[r], clmap, new)
      BY <2>2
    <2>4. /\ Eligible(api[r].spec, job[r].seen) = Eligible(api[r].spec, clusters)
          /\ r \notin overlooked => job[r].seen = clusters
      BY <1>0, <1>3, <2>1 DEF CurrentWork
    <2>5. Acceptable(api[r].spec, clusters, permitted, new)
      BY <2>3, <2>4, PicksAreAcceptable, AcceptableByEligible
    <2>6. r \notin overlooked => BestRanked(api[r].spec, clusters, permitted, new)
      BY <2>3, <2>4, PicksAreBest
    <2> HIDE DEF clmap
    <2>7. Permitted(api[r].spec)' = Permitted(api[r].spec)
      BY <1>2 DEF Permitted
    <2>8. Right(r, new)'
      BY <1>2, <2>2, <2>5, <2>6, <2>7 DEF Right, Permitted
    <2> QED
      BY <1>2, <2>3, <2>8 DEF CurrentWork, RightDecisions, Returned, Updating
  <1>8. CASE Conflict(r) \/ UpdateGone(r) \/ RequestFails(r)
    <2>1. /\ job[r].pc = "update" /\ job'[r].pc = "update" /\ job'[r].new = job[r].new
      BY <1>3, <1>8, NoWriteEffect
    <2> QED
      BY <1>0, <1>2, <1>3, <2>1 DEF CurrentWork, Right, Permitted
  <1> QED
    BY <1>5, <1>6, <1>7, <1>8 DEF Worker, Failing, Writes

LEMMA NextCurrent ==
  ASSUME TypeOK, VersionsIdentify, InstIsCached, WorkIsCurrent, [Next]_vars
  PROVE  WorkIsCurrent'
  <1> SUFFICES ASSUME NEW q \in Rules PROVE CurrentWork(q)'
    BY DEF WorkIsCurrent, CurrentWork
  <1>0. CurrentWork(q)
    BY DEF WorkIsCurrent, CurrentWork
  <1>1. CASE Environment
    BY <1>1, EnvironmentCurrent
  <1>2. ASSUME NEW c \in Clusters, MapCluster(c) \/ MapClusterFails(c)
        PROVE  CurrentWork(q)'
    <2>1. UNCHANGED <<clusters, ruleCache, job, api>>
      BY <1>2 DEF MapCluster, MapClusterFails, store
    <2>2. CASE ruleCache[q] = Nil
      BY <2>1, <2>2 DEF CurrentWork, Awaited, RightDecisions, Right
    <2>3. CASE ruleCache[q] # Nil
      BY <1>2, <2>3 DEF MapCluster, MapClusterFails, CurrentWork, Awaited
    <2> QED
      BY <2>2, <2>3
  <1>3. ASSUME NEW r \in Rules, SyncRule(r)
        PROVE  CurrentWork(q)'
    <2>1. UNCHANGED <<clusters, clEvents, granted, job, api, overlooked, missed>>
      BY <1>3 DEF SyncRule, store, cluster, history
    <2>2. CASE q = r
      BY <1>3, <2>2 DEF SyncRule, CurrentWork, Awaited
    <2>3. CASE q # r
      <3>1. Awaited(q) => Awaited(q)'
        BY <1>3, <2>1, <2>3 DEF SyncRule, Awaited, TypeOK
      <3> QED
        BY <1>0, <2>1, <3>1, CurrentWorkKept
    <2> QED
      BY <2>2, <2>3
  <1>4. ASSUME NEW r \in Rules, Take(r)
        PROVE  CurrentWork(q)'
    <2>1. CASE q = r
      BY <1>4, <2>1, TakeEffect DEF CurrentWork
    <2>2. CASE q # r
      <3>1. Awaited(q) => Awaited(q)'
        BY <1>4, <2>2, TakeEffect DEF Awaited
      <3>2. /\ job'[q] = job[q] /\ UNCHANGED <<api, clusters, granted>>
            /\ q \in overlooked => q \in overlooked'
            /\ q \in missed => q \in missed'
        BY <1>4, <2>2, TakeEffect DEF Alone
      <3> QED
        BY <1>0, <3>1, <3>2, CurrentWorkKept
    <2> QED
      BY <2>1, <2>2
  <1>5. ASSUME NEW r \in Rules, Worker(r) \/ Failing(r)
        PROVE  CurrentWork(q)'
    <2>1. CASE q = r
      BY <1>5, <2>1, WorkerCurrent
    <2>2. CASE q # r
      <3>1. /\ job'[q] = job[q] /\ api'[q] = api[q]
            /\ UNCHANGED <<clusters, clEvents, granted, ruleCache>> /\ queue \subseteq queue'
            /\ q \in overlooked => q \in overlooked'
            /\ q \in missed => q \in missed'
        BY <1>5, <2>2, WorkerFrame DEF Alone
      <3>2. Awaited(q) => Awaited(q)'
        BY <3>1 DEF Awaited
      <3> QED
        BY <1>0, <3>1, <3>2, CurrentWorkKept
    <2> QED
      BY <2>1, <2>2
  <1>6. CASE UNCHANGED vars
    BY <1>0, <1>6 DEF vars, CurrentWork, Awaited, RightDecisions, Right, Permitted
  <1> QED
    BY <1>1, <1>2, <1>3, <1>4, <1>5, <1>6 DEF Next, Quiet

-----------------------------------------------------------------------------
(* The theorems.                                                            *)

LEMMA InitInv == Init => Inv
  <1> SUFFICES ASSUME Init PROVE Inv
    OBVIOUS
  <1>1. TypeOK
    BY InitType
  <1>2. \A r \in Rules : job[r].pc = "idle" /\ job[r].inst = Nil
    BY DEF Init, IdleJob
  <1>3. \A r \in Rules : api[r] # Nil => api[r].rv = 0 /\ r \in queue
    BY DEF Init, NewRules
  <1>4. \A r \in Rules : ruleCache[r] = api[r] /\ rev[r] = 0
    BY DEF Init
  <1>5. VersionsIdentify
    BY <1>2, <1>3, <1>4 DEF VersionsIdentify, SameVersion
  <1>6. InstIsCached /\ PickedFromInst /\ RetryIsFutile
    BY <1>2 DEF InstIsCached, PickedFromInst, RetryIsFutile
  <1>7. WorkIsCurrent
    BY <1>2, <1>3 DEF WorkIsCurrent, Awaited, RightDecisions, Right
  <1> QED
    BY <1>1, <1>5, <1>6, <1>7 DEF Inv

LEMMA NextInv == Inv /\ [Next]_vars => Inv'
  <1> SUFFICES ASSUME Inv, [Next]_vars PROVE Inv'
    OBVIOUS
  <1>1. TypeOK'
    BY NextType DEF Inv
  <1>2. VersionsIdentify'
    BY NextVersions DEF Inv
  <1>3. InstIsCached'
    BY NextInst DEF Inv
  <1>4. WorkIsCurrent'
    BY NextCurrent DEF Inv
  <1>5. PickedFromInst'
    BY NextPicked DEF Inv
  <1>6. RetryIsFutile'
    BY NextFutile DEF Inv
  <1> QED
    BY <1>1, <1>2, <1>3, <1>4, <1>5, <1>6 DEF Inv

\* The invariant is inductive, whatever the constants: every reachable state of the
\* controller satisfies it, whatever users, clusters and failures do.
THEOREM Invariance == Spec => []Inv
  BY InitInv, NextInv, PTL DEF Spec

\* The variables keep their types: no step of Reconcile, of a mapper or of the
\* environment leaves an object, a job or a queue entry of another kind.
THEOREM TypeCorrect == Spec => []TypeOK
  <1>1. Inv => TypeOK
    BY DEF Inv
  <1> QED
    BY <1>1, Invariance, PTL

\* No wakeup is lost, but by the two errors the code swallows: a rule of the default
\* scheduler for which nothing is pending has right decisions in its status
\* (Reconcile, ClusterPredicateFunc, the mapper and the requeues together).
THEOREM WakeupsAreNotLost == Spec => []NoLostWakeup
  <1>1. Inv => NoLostWakeup
    BY DEF Inv, WorkIsCurrent, NoLostWakeup
  <1> QED
    BY <1>1, Invariance, PTL

\* After a conflict UpdateStatus cannot succeed with the object it holds.
THEOREM RetriesAreFutile == Spec => []RetryIsFutile
  <1>1. Inv => RetryIsFutile
    BY DEF Inv
  <1> QED
    BY <1>1, Invariance, PTL

\* What a write replaces is what the worker read.
LEMMA WriteReplacesInst ==
  ASSUME Inv, NEW r \in Rules, Writes(r)
  PROVE  /\ job[r].pc = "update"
         /\ job[r].inst = api[r]
         /\ api'[r].decs = job[r].new
  <1>1. TypeOK
    BY DEF Inv
  <1>2. /\ job[r].pc = "update" /\ Current(r)
        /\ Put(r, api[r].spec, job[r].new)
    BY <1>1, WriteEffect
  <1>3. job[r].inst = api[r]
    BY <1>2 DEF Inv, VersionsIdentify, SameVersion, Current
  <1>4. api'[r].decs = job[r].new
    BY <1>1, <1>2 DEF Put, TypeOK
  <1> QED
    BY <1>2, <1>3, <1>4

\* UpdateStatus gives up a current decision only for the limit or an ineligible
\* cluster, however stale the caches were when Reconcile read them.
THEOREM DecisionsAreKept == Spec => KeepsDecisions
  <1>1. Inv /\ [Next]_vars =>
            [\A r \in Rules : Writes(r) => PickedAnew(r, api[r], api'[r].decs)]_vars
    BY WriteReplacesInst DEF Inv, PickedFromInst
  <1> QED
    BY <1>1, Invariance, PTL DEF Spec, KeepsDecisions

\* UpdateStatus never writes a rule that names another scheduler at that moment.
THEOREM OthersAreLeftAlone == Spec => LeavesOthersAlone
  <1>1. Inv /\ [Next]_vars => [\A r \in Rules : Writes(r) => Mcm(api[r].spec)]_vars
    BY WriteReplacesInst DEF Inv, InstIsCached
  <1> QED
    BY <1>1, Invariance, PTL DEF Spec, LeavesOthersAlone
=============================================================================
