---------------------------- MODULE GitOpsCluster ----------------------------
(****************************************************************************)
(* The gitopscluster controller: one worker copies the secrets of the       *)
(* managed clusters a Placement has decided on into the Argo CD namespaces  *)
(* that GitOpsClusters name, and deletes the copies nobody asks for.  Every *)
(* Reconcile processes all GitOpsClusters, whatever the request, so the     *)
(* work queue is only whether a request is waiting: a second request in the *)
(* queue is one that comes after the first is taken.                        *)
(*                                                                          *)
(* The informers of PlacementDecisions and of the managed clusters' secrets *)
(* are the state placed and source, that of Placements is present; those of *)
(* GitOpsClusters and of the copies, which the controller writes itself, lag*)
(* behind the API server.                                                   *)
(****************************************************************************)
EXTENDS CopyRequests

CONSTANTS SpecsOf,     \* SpecsOf[g]: specs users may give GitOpsCluster g
          MaxChanges,  \* bound: changes of the environment
          MaxFaults    \* bound: failed requests and restarts

ASSUME InputsAssumption ==
    /\ MaxChanges \in Nat /\ MaxFaults \in Nat
    /\ \A g \in GitOpsClusters : SpecsOf[g] \subseteq SpecRecord
    /\ Versions # {}
    /\ Nil \notin SpecRecord

VARIABLES crCache,      \* GitOpsClusters in the informer
          news,         \* what the informer has not seen of each, see News
          phase,        \* status.phase
          secretCache,  \* copies in the informer
          gone,         \* copies whose deletion the informer has not seen
          missed,       \* copies that no Reconcile since the last start has listed, or
                        \* that the last list lacks
          wanted,       \* a request is in the work queue
          work,         \* the Reconcile under way
          unnoticed,    \* what it does not come back for has happened since it began
          changes, faults

vars == <<crs, crCache, news, phase, present, placed, source, argoUp, secrets, secretCache,
          gone, missed, wanted, work, unnoticed, changes, faults>>
users  == <<crs, phase, news>>
copies == <<secrets, secretCache, gone, missed>>
budget == <<changes, faults>>
notice == <<unnoticed, budget>>

\* orphans: orphanGitOpsClusterSecretList.  todo: GitOpsClusters left.  g, inst:
\* the one in hand.  stale: it is no longer what is stored.  list: clusters left.
\* failed: one could not be copied.  trouble: an orphan could not be deleted.
\* claims: the copies asked for so far.
Idle == [pc |-> "idle", orphans |-> {}, todo |-> {}, g |-> Nil, inst |-> Nil,
         stale |-> FALSE, list |-> {}, failed |-> FALSE, trouble |-> FALSE,
         claims |-> {}]

\* Nothing; something that is no change of the spec; something the predicate passes.
News == {"none", "other", "change"}

\* The program counters at which a GitOpsCluster is in hand.
InHand == {"verify", "clusters", "copy"}

Work == [pc : InHand \cup {"idle", "crs", "next", "cleanup"},
         orphans : SUBSET Keys, todo : SUBSET GitOpsClusters,
         g : GitOpsClusters \cup {Nil}, inst : SpecRecord \cup {Nil}, stale : BOOLEAN,
         list : SUBSET Clusters, failed : BOOLEAN, trouble : BOOLEAN, claims : SUBSET Keys]

TypeOK == /\ crs \in [GitOpsClusters -> SpecRecord \cup {Nil}]
          /\ crCache \in [GitOpsClusters -> SpecRecord \cup {Nil}]
          /\ phase \in [GitOpsClusters -> {"none", "failed", "successful"}]
          /\ \A g \in GitOpsClusters : crs[g] = Nil => phase[g] = "none"
          /\ news \in [GitOpsClusters -> News]
          /\ present \subseteq Placements
          /\ placed \in [Placements -> (SUBSET Clusters) \cup {Nil}]
          /\ source \in [Clusters -> Versions \cup {Nil}]
          /\ argoUp \subseteq Argos
          /\ secrets \in [Keys -> Versions \cup {Nil}]
          /\ secretCache \in [Keys -> Versions \cup {Nil}]
          /\ gone \subseteq Keys /\ missed \subseteq Keys
          /\ wanted \in BOOLEAN /\ unnoticed \in BOOLEAN
          /\ work \in Work
          /\ work.pc \in InHand => work.g \in GitOpsClusters /\ work.inst \in SpecRecord
          /\ changes \in 0 .. MaxChanges /\ faults \in 0 .. MaxFaults

\* GitOpsClusters may exist already; a former process may have left copies.
Init == /\ crs \in [GitOpsClusters -> (UNION {SpecsOf[g] : g \in GitOpsClusters}) \cup {Nil}]
        /\ \A g \in GitOpsClusters : crs[g] \in SpecsOf[g] \cup {Nil}
        /\ crCache = crs
        /\ news = [g \in GitOpsClusters |-> "none"]
        /\ phase = [g \in GitOpsClusters |-> "none"]
        /\ present \in {{}, Placements}
        /\ placed \in [Placements -> {{}, Clusters}]
        /\ source \in [Clusters -> {CHOOSE v \in Versions : TRUE}]
        /\ argoUp = Argos
        /\ secrets \in {[k \in Keys |-> Nil], [k \in Keys |-> CHOOSE v \in Versions : TRUE]}
        /\ secretCache = secrets
        /\ gone = {}
        /\ missed = {k \in Keys : secrets[k] # Nil}
        /\ wanted = TRUE
        /\ work = Idle
        /\ unnoticed = FALSE
        /\ changes = 0
        /\ faults = 0

-----------------------------------------------------------------------------
(* The environment.                                                         *)

Change == changes < MaxChanges /\ changes' = changes + 1 /\ UNCHANGED faults
Fault  == faults < MaxFaults /\ faults' = faults + 1 /\ UNCHANGED changes

\* Mutant: updates do not pass.
PredicateOfExistence(old, new) == old = Nil \/ new = Nil

\* Mutant: deletions do not pass.
PredicateButDeletion(old, new) ==
    new # Nil /\ (old = Nil \/ <<old.argo, old.placement>> # <<new.argo, new.placement>>)

\* GitOpsClusterPredicateFunc: an update passes if it changes the spec; a change of
\* an annotation does not.
GitOpsClusterPredicate(old, new) ==
    old = Nil \/ new = Nil \/ <<old.argo, old.placement>> # <<new.argo, new.placement>>

\* A GitOpsCluster is created, edited or deleted; what a worker holds of it ages.
SetCR(g, spec) ==
    /\ Change
    /\ spec # crs[g]
    /\ crs' = [crs EXCEPT ![g] = spec]
    /\ phase' = IF spec = Nil THEN [phase EXCEPT ![g] = "none"] ELSE phase
    /\ news' = [news EXCEPT ![g] = IF GitOpsClusterPredicate(crs[g], spec) THEN "change"
                                   ELSE IF @ = "none" THEN "other" ELSE @]
    /\ work' = IF work.g = g THEN [work EXCEPT !.stale = TRUE] ELSE work
    /\ unnoticed' = (unnoticed \/ OnlyAnnotated(crs[g], spec))
    /\ UNCHANGED <<crCache, world, copies, wanted>>

\* Mutant: the mapper goes by the GitOpsCluster's name.
MapDecisionByName(p) == UNCHANGED wanted /\ p \in Placements

\* placementDecisionMapper.Map: one request if a cached GitOpsCluster refers to p.
MapDecision(p) ==
    wanted' = (wanted \/ \E g \in GitOpsClusters :
                             crCache[g] # Nil /\ crCache[g].placement = p)

Decide(p, clusters) ==
    /\ clusters # placed[p]
    /\ placed' = [placed EXCEPT ![p] = clusters]
    /\ UNCHANGED <<users, crCache, present, source, argoUp, copies, work>>

SetPlaced(p, clusters) ==
    Change /\ Decide(p, clusters) /\ MapDecision(p) /\ UNCHANGED unnoticed

\* The mapper cannot list the GitOpsClusters: nobody hears of the decision.
MapDecisionFails(p, clusters) ==
    Fault /\ Decide(p, clusters) /\ unnoticed' = TRUE /\ UNCHANGED wanted

\* Nothing watches the Placements: one is created, at last in the informer, or gone.
MovePlacement(p) ==
    /\ Change
    /\ present' = IF p \in present THEN present \ {p} ELSE present \cup {p}
    /\ unnoticed' = TRUE
    /\ UNCHANGED <<users, crCache, placed, source, argoUp, copies, wanted, work>>

\* Of a managed cluster's secret, creations and updates pass the predicate.
ManagedClusterSecretPredicate(new) == new # Nil

SetSource(c, new) ==
    /\ Change
    /\ new # source[c]
    /\ source' = [source EXCEPT ![c] = new]
    /\ wanted' = (wanted \/ ManagedClusterSecretPredicate(new))
    /\ UNCHANGED <<users, crCache, present, placed, argoUp, copies, work, unnoticed>>

\* Mutant: updates that change nothing do not pass.
ResyncFiltered(c) == FALSE /\ c \in Clusters /\ UNCHANGED vars

\* A periodic resync, or a change of the secret's metadata: an update as well.
Resync(c) ==
    /\ ManagedClusterSecretPredicate(source[c])
    /\ wanted' = TRUE
    /\ UNCHANGED <<users, crCache, world, copies, work, notice>>

\* Nothing watches the services of Argo CD.
MoveArgo(a) ==
    /\ Change
    /\ argoUp' = IF a \in argoUp THEN argoUp \ {a} ELSE argoUp \cup {a}
    /\ unnoticed' = TRUE
    /\ UNCHANGED <<users, crCache, present, placed, source, copies, wanted, work>>

\* Someone else deletes a copy.
LoseCopy(k) ==
    /\ Change
    /\ secrets[k] # Nil
    /\ secrets' = [secrets EXCEPT ![k] = Nil]
    /\ gone' = gone \cup {k}
    /\ UNCHANGED <<users, crCache, world, secretCache, missed, wanted, work, unnoticed>>

\* The informers catch up.  ManagedClusterSecretPredicateFunc passes nothing but
\* deletions of copies.
SyncCR(g) ==
    /\ news[g] # "none"
    /\ news' = [news EXCEPT ![g] = "none"]
    /\ crCache' = [crCache EXCEPT ![g] = crs[g]]
    /\ wanted' = (wanted \/ news[g] = "change")
    /\ UNCHANGED <<crs, phase, world, copies, work, notice>>

SyncCopy(k) ==
    /\ secretCache[k] # secrets[k] \/ k \in gone
    /\ secretCache' = [secretCache EXCEPT ![k] = secrets[k]]
    /\ gone' = gone \ {k}
    /\ wanted' = (wanted \/ k \in gone)
    /\ UNCHANGED <<users, crCache, world, secrets, missed, work, notice>>

\* The process starts anew; the objects it watches, copies excepted, are creations.
Restart ==
    /\ Fault
    /\ crCache' = crs /\ news' = [g \in GitOpsClusters |-> "none"]
    /\ secretCache' = secrets /\ gone' = {} /\ missed' = {k \in Keys : secrets[k] # Nil}
    /\ work' = Idle
    /\ wanted' = \/ \E g \in GitOpsClusters : crs[g] # Nil
                 \/ \E c \in Clusters : source[c] # Nil
    /\ UNCHANGED <<crs, phase, world, secrets, unnoticed>>

-----------------------------------------------------------------------------
(* Reconcile.                                                               *)

Goto(pc) == work' = [work EXCEPT !.pc = pc]

\* Reconcile returns without, or with, a request to come back.
Return  == work' = Idle /\ UNCHANGED wanted
ComeBack == work' = Idle /\ wanted' = TRUE

\* GetAllManagedClusterSecretsInArgo
ListCopies ==
    /\ work.pc = "idle" /\ wanted
    /\ wanted' = FALSE
    /\ work' = [work EXCEPT !.pc = "crs", !.orphans = {k \in Keys : secretCache[k] # Nil}]
    /\ missed' = {k \in Keys : secretCache[k] = Nil /\ secrets[k] # Nil}
    /\ unnoticed' = \E g \in GitOpsClusters : OnlyAnnotated(crCache[g], crs[g])
    /\ UNCHANGED <<users, crCache, world, secrets, secretCache, gone, budget>>

\* GetAllGitOpsClusters
ListCRs ==
    /\ work.pc = "crs"
    /\ work' = [work EXCEPT !.pc = "next",
                            !.todo = {g \in GitOpsClusters : crCache[g] # Nil}]
    /\ UNCHANGED <<users, crCache, world, copies, wanted, notice>>

\* Either list fails: the request is dropped.
ListFails ==
    /\ Fault
    /\ \/ work.pc = "idle" /\ wanted /\ wanted' = FALSE /\ UNCHANGED work
       \/ work.pc = "crs" /\ Return
    /\ unnoticed' = TRUE
    /\ UNCHANGED <<users, crCache, world, copies>>

IsFirst == work.todo = {g \in GitOpsClusters : crCache[g] # Nil}

\* The loop over the list reads each one again, and skips one that is gone.
NextCR(g) ==
    /\ work.pc = "next" /\ g \in work.todo
    /\ work' = IF crCache[g] = Nil THEN [work EXCEPT !.todo = @ \ {g}]
               ELSE [work EXCEPT !.pc = "verify", !.todo = @ \ {g}, !.g = g,
                                 !.inst = crCache[g], !.stale = news[g] # "none",
                                 !.list = {}, !.failed = FALSE]
    /\ UNCHANGED <<users, crCache, world, copies, wanted, notice>>

\* Mutant: the status is written whatever has become of the GitOpsCluster.
CanAlways == TRUE

\* The status update of the GitOpsCluster in hand: refused if it has changed.
CanUpdate == ~work.stale /\ crs[work.g] # Nil

SetPhase(p) ==
    /\ CanUpdate
    /\ phase' = [phase EXCEPT ![work.g] = p]
    /\ news' = [news EXCEPT ![work.g] = IF @ = "none" THEN "other" ELSE @]
    /\ UNCHANGED crs

\* reconcileGitOpsCluster returns; an error ends Reconcile, cleanup included.
NextOne == work' = [work EXCEPT !.pc = "next", !.g = Nil, !.inst = Nil, !.stale = FALSE]

SetPhaseAndNext(p) ==
    \/ SetPhase(p) /\ NextOne /\ UNCHANGED wanted
    \/ ~CanUpdate /\ ComeBack /\ UNCHANGED users

\* VerifyArgocdNamespace
Verified == work.inst.skip \/ work.inst.argo \in argoUp

VerifyArgo ==
    /\ work.pc = "verify"
    /\ IF Verified
       THEN Goto("clusters") /\ UNCHANGED <<users, wanted>>
       ELSE SetPhaseAndNext("failed")
    /\ UNCHANGED <<crCache, world, copies, notice>>

VerifyFails ==
    /\ Fault
    /\ work.pc = "verify" /\ ~work.inst.skip
    /\ SetPhaseAndNext("failed")
    /\ unnoticed' = TRUE
    /\ UNCHANGED <<crCache, world, copies>>

\* GetManagedClusters.  An error is noted in the status, and the reconciliation
\* goes on with no clusters.
NoClusters ==
    \/ SetPhase("failed") /\ Goto("copy") /\ UNCHANGED wanted
    \/ ~CanUpdate /\ ComeBack /\ UNCHANGED users

GetManagedClusters ==
    /\ work.pc = "clusters"
    /\ LET p == work.inst.placement IN
         IF Readable(p)
         THEN /\ work' = [work EXCEPT !.pc = "copy", !.list = placed[p],
                                      !.claims = @ \cup ({work.inst.argo} \X placed[p])]
              /\ UNCHANGED <<users, wanted>>
         ELSE NoClusters
    /\ UNCHANGED <<crCache, world, copies, notice>>

GetManagedClustersFails ==
    /\ Fault
    /\ work.pc = "clusters"
    /\ NoClusters
    /\ unnoticed' = TRUE
    /\ UNCHANGED <<crCache, world, copies>>

\* One round of AddManagedClustersToArgo.
Copied(k) == [work EXCEPT !.list = @ \ {k[2]}, !.orphans = @ \ {k}]
NotCopied(k) == [work EXCEPT !.list = @ \ {k[2]}, !.failed = TRUE]

\* Get says whether to create or to update; the API server may know better.
Accepted(k) == (secretCache[k] = Nil) <=> (secrets[k] = Nil)

CopySecret(c) ==
    /\ work.pc = "copy" /\ c \in work.list
    /\ LET k == <<work.inst.argo, c>> IN
         IF source[c] # Nil /\ Accepted(k)
         THEN /\ secrets' = [secrets EXCEPT ![k] = source[c]]
              /\ work' = Copied(k)
         ELSE work' = NotCopied(k) /\ UNCHANGED secrets
    /\ UNCHANGED <<users, crCache, world, secretCache, gone, missed, wanted, notice>>

\* A request fails; the create or update may have been applied.
CopyFails(c) ==
    /\ Fault
    /\ work.pc = "copy" /\ c \in work.list
    /\ LET k == <<work.inst.argo, c>> IN
         /\ work' = NotCopied(k)
         /\ \/ UNCHANGED secrets
            \/ source[c] # Nil /\ Accepted(k) /\ secrets' = [secrets EXCEPT ![k] = source[c]]
    /\ UNCHANGED <<users, crCache, world, secretCache, gone, missed, wanted, unnoticed>>

\* Mutant: a failure to copy is reported, and Reconcile goes on.
FinishCRRegardless ==
    /\ work.pc = "copy" /\ work.list = {}
    /\ SetPhaseAndNext(IF work.failed THEN "failed" ELSE "successful")
    /\ UNCHANGED <<crCache, world, copies, notice>>

\* The end of reconcileGitOpsCluster.
FinishCR ==
    /\ work.pc = "copy" /\ work.list = {}
    /\ IF work.failed
       THEN ComeBack /\ (SetPhase("failed") \/ (~CanUpdate /\ UNCHANGED users))
       ELSE SetPhaseAndNext("successful")
    /\ UNCHANGED <<crCache, world, copies, notice>>

\* A status update fails for another reason than a conflict, applied or not.
UpdateFails ==
    /\ Fault
    /\ \/ work.pc = "verify" /\ ~Verified
       \/ work.pc = "clusters" /\ ~Readable(work.inst.placement)
       \/ work.pc = "copy" /\ work.list = {}
    /\ \/ UNCHANGED users
       \/ SetPhase(IF work.pc = "copy" /\ ~work.failed THEN "successful" ELSE "failed")
    /\ ComeBack
    /\ UNCHANGED <<crCache, world, copies, unnoticed>>

\* cleanupOrphanSecrets
StartCleanup ==
    /\ work.pc = "next" /\ work.todo = {}
    /\ Goto("cleanup")
    /\ UNCHANGED <<users, crCache, world, copies, wanted, notice>>

DeleteOrphan(k) ==
    /\ work.pc = "cleanup" /\ k \in work.orphans
    /\ LET deleted == secretCache[k] # Nil /\ secrets[k] # Nil IN
         /\ secrets' = IF deleted THEN [secrets EXCEPT ![k] = Nil] ELSE secrets
         /\ gone' = IF deleted THEN gone \cup {k} ELSE gone
    /\ work' = [work EXCEPT !.orphans = @ \ {k},
                            !.trouble = @ \/ (secretCache[k] # Nil /\ secrets[k] = Nil)]
    /\ UNCHANGED <<users, crCache, world, secretCache, missed, wanted, notice>>

\* A Delete fails, applied or not.
DeleteFails(k) ==
    /\ Fault
    /\ work.pc = "cleanup" /\ k \in work.orphans /\ secretCache[k] # Nil
    /\ \/ UNCHANGED <<secrets, gone>>
       \/ secrets[k] # Nil /\ secrets' = [secrets EXCEPT ![k] = Nil] /\ gone' = gone \cup {k}
    /\ work' = [work EXCEPT !.orphans = @ \ {k}, !.trouble = TRUE]
    /\ UNCHANGED <<users, crCache, world, secretCache, missed, wanted, unnoticed>>

\* The Get of an orphan fails: it is passed over as if it were gone.
SkipOrphan(k) ==
    /\ Fault
    /\ work.pc = "cleanup" /\ k \in work.orphans
    /\ work' = [work EXCEPT !.orphans = @ \ {k}]
    /\ unnoticed' = TRUE
    /\ UNCHANGED <<users, crCache, world, copies, wanted>>

\* The 10 minutes after which a failed cleanup comes back are of no account.
Finish ==
    /\ work.pc = "cleanup" /\ work.orphans = {}
    /\ IF work.trouble THEN ComeBack ELSE Return
    /\ UNCHANGED <<users, crCache, world, copies, notice>>

-----------------------------------------------------------------------------
Environment ==
    \/ \E g \in GitOpsClusters : \E spec \in SpecsOf[g] \cup {Nil} : SetCR(g, spec)
    \/ \E p \in Placements : \E clusters \in (SUBSET Clusters) \cup {Nil} :
          SetPlaced(p, clusters) \/ MapDecisionFails(p, clusters)
    \/ \E p \in Placements : MovePlacement(p)
    \/ \E c \in Clusters : \E new \in Versions \cup {Nil} : SetSource(c, new)
    \/ \E c \in Clusters : Resync(c)
    \/ \E a \in Argos : MoveArgo(a)
    \/ \E k \in Keys : LoseCopy(k)
    \/ Restart

Watches == \/ \E g \in GitOpsClusters : SyncCR(g)
           \/ \E k \in Keys : SyncCopy(k)

Reconcile ==
    \/ ListCopies \/ ListCRs
    \/ \E g \in GitOpsClusters : NextCR(g)
    \/ VerifyArgo \/ GetManagedClusters
    \/ \E c \in Clusters : CopySecret(c)
    \/ FinishCR \/ StartCleanup
    \/ \E k \in Keys : DeleteOrphan(k)
    \/ Finish

Failing == \/ ListFails \/ VerifyFails \/ GetManagedClustersFails \/ UpdateFails
           \/ \E c \in Clusters : CopyFails(c)
           \/ \E k \in Keys : DeleteFails(k) \/ SkipOrphan(k)

\* Nothing to do until the environment moves.
Settled == /\ work.pc = "idle" /\ ~wanted
           /\ \A g \in GitOpsClusters : news[g] = "none"
           /\ secretCache = secrets /\ gone = {}

Quiet == Settled /\ UNCHANGED vars

Next == Environment \/ Watches \/ Reconcile \/ Failing \/ Quiet

Spec == Init /\ [][Next]_vars

\* Informers deliver and the worker runs on; retries are taken up again.  The
\* informer lists in the random order of a Go map, so each one is first at times.
Fairness == /\ \A g \in GitOpsClusters :
                   WF_vars(SyncCR(g)) /\ SF_vars(IsFirst /\ NextCR(g))
            /\ \A k \in Keys : WF_vars(SyncCopy(k))
            /\ WF_vars(Reconcile)

FairSpec == Spec /\ Fairness

\* The informers repeat from time to time what they hold of the clusters' secrets.  A
\* request that fails again and again is retried after longer and longer times, so some
\* of the passes begin when the informer of GitOpsClusters has caught up.
BeginInStep == ListCopies /\ \A g \in GitOpsClusters : news[g] = "none"

BacksOff == <>[][~ListCopies]_vars \/ []<><<BeginInStep>>_vars

Resyncs == (\A c \in Clusters : WF_vars(Resync(c))) /\ BacksOff

-----------------------------------------------------------------------------
(* Properties.                                                              *)

\* When no request is waiting, every copy asked for exists and is up to date: no
\* stale read, refused create or update, cleanup, restart or failed write loses one.
\* What the controller does not come back for is excepted, until the next Reconcile
\* begins, whatever it is for: services, annotations and Placements, which may come
\* to the informer after their decisions; a decision the mapper could not deal with;
\* and reads that fail.
ProvidedWhenSettled == Settled => Provided \/ unnoticed

\* When no request is waiting, all copies are asked for, but for those the last
\* Reconcile's list lacked: whatever a GitOpsCluster or a decision leaves behind when
\* it changes or goes is removed, also after a cleanup that was interrupted or whose
\* deletions failed.  Excepted as above: a Placement that goes, a decision the mapper
\* could not deal with, and a cleanup that failed to read an orphan.
NothingLeftOver ==
    Settled => unnoticed \/ \A k \in Keys : secrets[k] # Nil => k \in missed \/ AskedFor(k)

\* A worker has something to do, and it will by itself have something to do again.
Busy == work.pc # "idle"
Told == wanted \/ gone # {} \/ \E g \in GitOpsClusters : news[g] = "change"

Keeper == INSTANCE CopyKeeper WITH busy <- Busy, told <- Told, claimed <- work.claims

\* The controller is an implementation of CopyKeeper: nothing but what a pass claims
\* is made and nothing that it claims is deleted; when no pass is under way and none
\* is to come, the copies are those asked for, also before the caches are in step;
\* and every change of what is asked for makes one come, in whatever state, or is one
\* of those that the promise says the controller is not told of.
ImplementsKeeper == Keeper!Spec

\* Cleanup never takes away a copy that a GitOpsCluster of this Reconcile asked
\* for, not even one that could not be brought up to date.
KeepsClaimed ==
    [][\A k \in Keys : (DeleteOrphan(k) \/ DeleteFails(k)) /\ secrets'[k] # secrets[k]
                           => k \notin work.claims]_vars

\* When the environment leaves them alone, all copies asked for get and stay there,
\* unless something the controller does not come back for has happened since the last
\* Reconcile began.
EventuallyProvided == <>[](Provided \/ unnoticed)

\* As long as a managed cluster has a secret whose resync makes the controller look
\* again, everything is made good in the end, without exceptions: what no watch told of,
\* events and reads that failed, copies that a list lacked, cleanups that passed over an
\* orphan.  All copies asked for that can be made are there and, unless one cannot be
\* made (Reconcile then ends before the cleanup), nothing else is.
ResyncTidies ==
    Resyncs =>
        <>[]((\E c \in Clusters : source[c] # Nil) =>
                /\ Provided
                /\ \/ \E k \in Keys : AskedFor(k) /\ source[k[2]] = Nil
                   \/ \A k \in Keys : secrets[k] # Nil => AskedFor(k))

-----------------------------------------------------------------------------
(* The inductive invariant.                                                 *)

\* No orphan was asked for, but for copies of the GitOpsCluster in hand: those are
\* still to be copied, or could not be, and then Reconcile ends before the cleanup.
OrphansUnclaimed ==
    /\ work.pc \in {"idle", "crs"} => work.claims = {}
    /\ work.pc \in {"next", "verify", "clusters", "cleanup"} =>
          work.orphans \cap work.claims = {}
    /\ work.pc = "copy" =>
          \A k \in work.orphans \cap work.claims :
              k[1] = work.inst.argo /\ (k[2] \in work.list \/ work.failed)

\* Nothing has happened that this or another Reconcile does not know of.
Undisturbed == ~Told /\ ~unnoticed

\* The informer lacks changes that are on their way, and annotations.
CacheIsCurrent ==
    \A g \in GitOpsClusters :
        \/ news[g] = "change"
        \/ crCache[g] = crs[g]
        \/ OnlyAnnotated(crCache[g], crs[g]) /\ unnoticed

\* The copies of the GitOpsCluster in hand, as far as they are made.
ServedInHand ==
    work.pc = "copy" /\ ~work.failed /\ Readable(work.inst.placement) =>
        \A c \in placed[work.inst.placement] \ work.list :
            source[c] # Nil => secrets[<<work.inst.argo, c>>] = source[c]

\* If nothing interferes with a Reconcile, those it is done with have their copies.
ServedSoFar ==
    /\ work.pc = "cleanup" => work.todo = {}
    /\ Undisturbed =>
          /\ work.pc = "idle" => Provided
          /\ work.pc \in {"next", "cleanup"} =>
                \A g \in GitOpsClusters \ work.todo : Served(g)
          /\ work.pc \in InHand =>
                /\ work.inst = crs[work.g]
                /\ \A g \in GitOpsClusters \ (work.todo \cup {work.g}) : Served(g)
          /\ ServedInHand

\* If nothing interferes with a Reconcile, what is neither asked for nor an orphan, it
\* could not know of or delete; it makes only copies asked for, and orphans stay cached.
OrphansAreAll ==
    Undisturbed =>
        /\ \A k \in Keys :
              secrets[k] # Nil =>
                  k \in work.orphans \/ work.trouble \/ k \in missed \/ AskedFor(k)
        /\ \A k \in work.orphans : secretCache[k] # Nil
        /\ work.pc = "idle" => work.orphans = {} /\ ~work.trouble
        /\ work.pc \in {"verify", "clusters"} => work.list = {}
        /\ work.pc = "clusters" => Verified
        /\ \A g \in GitOpsClusters :
              work.pc = "copy" /\ work.g = g => {work.inst.argo} \X work.list \subseteq Asked(g)

\* A copy the informer still has has been deleted only if the news is on its way.
DeletionsAreNews == \A k \in Keys : secretCache[k] # Nil /\ secrets[k] = Nil => k \in gone

\* What is still to be copied has been claimed.
ListIsClaimed ==
    /\ work.pc \in {"verify", "clusters"} => work.list = {}
    /\ work.pc = "copy" => {work.inst.argo} \X work.list \subseteq work.claims

Orderly == TypeOK /\ OrphansUnclaimed

Inv == Orderly /\ CacheIsCurrent /\ ServedSoFar /\ OrphansAreAll /\ DeletionsAreNews
       /\ ListIsClaimed
=============================================================================
