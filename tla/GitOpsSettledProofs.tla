------------------------- MODULE GitOpsSettledProofs -------------------------
(****************************************************************************)
(* Proof that the gitopscluster controller, when it has nothing left to do, *)
(* has made every copy asked for and leaves no other, but those missing     *)
(* from its last list; with it, proof of the whole inductive invariant, and *)
(* that the controller implements CopyKeeper.  For any GitOpsClusters,      *)
(* namespaces, clusters, Placements, contents and numbers of faults.        *)
(****************************************************************************)
EXTENDS GitOpsClusterProofs

-----------------------------------------------------------------------------
(* The informer of the GitOpsClusters.                                      *)

\* What the predicate holds back of an update is an annotation.
LEMMA HeldBackIsAnnotation ==
    ASSUME NEW old \in SpecRecord \cup {Nil}, NEW new \in SpecRecord \cup {Nil},
           ~GitOpsClusterPredicate(old, new), old # new
    PROVE  OnlyAnnotated(old, new)
<1>1. /\ old # Nil /\ new # Nil
      /\ old \in SpecRecord /\ new \in SpecRecord
      /\ old.argo = new.argo /\ old.placement = new.placement
    BY DEF GitOpsClusterPredicate
<1>2. old = [new EXCEPT !.skip = old.skip]
    BY <1>1 DEF SpecRecord
<1> QED  BY <1>1, <1>2 DEF OnlyAnnotated

\* Of three specs, if each differs from the next in an annotation, the ends do too.
LEMMA AnnotatedTwice ==
    ASSUME NEW a \in SpecRecord \cup {Nil}, NEW b \in SpecRecord \cup {Nil},
           NEW c \in SpecRecord \cup {Nil},
           OnlyAnnotated(a, b), OnlyAnnotated(b, c), a # c
    PROVE  OnlyAnnotated(a, c)
<1>1. /\ a \in SpecRecord /\ b \in SpecRecord /\ c \in SpecRecord
      /\ a # Nil /\ b # Nil /\ c # Nil
    BY DEF OnlyAnnotated
<1>2. a = [b EXCEPT !.skip = a.skip] /\ b = [c EXCEPT !.skip = b.skip]
    BY DEF OnlyAnnotated
<1>3. a.argo = c.argo /\ a.placement = c.placement
    BY <1>1, <1>2 DEF SpecRecord
<1>4. a = [c EXCEPT !.skip = a.skip]
    BY <1>1, <1>3 DEF SpecRecord
<1> QED  BY <1>1, <1>4 DEF OnlyAnnotated

LEMMA CacheKept ==
    ASSUME CacheIsCurrent, UNCHANGED <<crs, crCache>>, unnoticed => unnoticed',
           \A g \in GitOpsClusters : news[g] = "change" => news'[g] = "change"
    PROVE  CacheIsCurrent'
<1> QED  BY DEF CacheIsCurrent, OnlyAnnotated

\* A status update is news of no account.
LEMMA PhaseKeepsNews ==
    ASSUME TypeOK, UNCHANGED users \/ \E p \in {"failed", "successful"} : SetPhase(p)
    PROVE  /\ UNCHANGED crs
           /\ \A g \in GitOpsClusters : news[g] = "change" <=> news'[g] = "change"
<1> QED  BY DEF TypeOK, users, SetPhase

LEMMA SetCRKeepsCache ==
    ASSUME TypeOK, CacheIsCurrent, NEW g \in GitOpsClusters,
           NEW spec \in SpecsOf[g] \cup {Nil}, SetCR(g, spec)
    PROVE  CacheIsCurrent'
<1>1. spec \in SpecRecord \cup {Nil}
    BY InputsAssumption
<1>2. SUFFICES ASSUME NEW h \in GitOpsClusters, news'[h] # "change"
               PROVE  \/ crCache'[h] = crs'[h]
                      \/ OnlyAnnotated(crCache'[h], crs'[h]) /\ unnoticed'
    BY DEF CacheIsCurrent
<1>3. CASE h # g
    BY <1>2, <1>3 DEF SetCR, CacheIsCurrent, TypeOK
<1>4. CASE h = g
    <2>1. /\ crs'[g] = spec /\ crCache' = crCache /\ spec # crs[g]
          /\ news[g] # "change" /\ ~GitOpsClusterPredicate(crs[g], spec)
        BY <1>2, <1>4 DEF SetCR, TypeOK
    <2>2. crs[g] \in SpecRecord \cup {Nil} /\ crCache[g] \in SpecRecord \cup {Nil}
        BY DEF TypeOK
    <2>3. OnlyAnnotated(crs[g], spec)
        BY <1>1, <2>1, <2>2, HeldBackIsAnnotation
    <2>4. unnoticed'
        BY <2>3 DEF SetCR
    <2>5. crCache[g] = crs[g] \/ OnlyAnnotated(crCache[g], crs[g])
        BY <2>1 DEF CacheIsCurrent
    <2>6. crCache[g] = spec \/ OnlyAnnotated(crCache[g], spec)
        BY <1>1, <2>2, <2>3, <2>5, AnnotatedTwice
    <2> QED  BY <1>4, <2>1, <2>4, <2>6
<1> QED  BY <1>3, <1>4

LEMMA CacheStaysCurrent == TypeOK /\ CacheIsCurrent /\ Next => CacheIsCurrent'
<1> SUFFICES ASSUME TypeOK, CacheIsCurrent, Next PROVE CacheIsCurrent'
    OBVIOUS
<1>1. CASE UNCHANGED <<crs, crCache, news>> /\ (unnoticed => unnoticed')
    BY <1>1, CacheKept
<1>2. CASE Environment
    <2>1. CASE \E g \in GitOpsClusters : \E spec \in SpecsOf[g] \cup {Nil} : SetCR(g, spec)
        BY <2>1, SetCRKeepsCache
    <2>2. CASE Restart
        BY <2>2 DEF Restart, CacheIsCurrent
    <2> QED
        BY <1>1, <1>2, <2>1, <2>2
        DEF Environment, SetPlaced, MapDecisionFails, Decide, MovePlacement, SetSource, Resync,
            MoveArgo, LoseCopy, users, notice
<1>3. CASE Watches
    <2>1. ASSUME NEW g \in GitOpsClusters, SyncCR(g) PROVE CacheIsCurrent'
        BY <2>1 DEF SyncCR, notice, CacheIsCurrent, TypeOK
    <2> QED  BY <1>1, <1>3, <2>1 DEF Watches, SyncCopy, users, notice
<1>4. CASE Reconcile
    <2>1. CASE ListCopies
        BY <2>1 DEF ListCopies, users, CacheIsCurrent
    <2>2. CASE VerifyArgo \/ GetManagedClusters \/ FinishCR
        <3>1. UNCHANGED users \/ \E p \in {"failed", "successful"} : SetPhase(p)
            BY <2>2 DEF VerifyArgo, GetManagedClusters, FinishCR, SetPhaseAndNext, NoClusters
        <3>2. UNCHANGED <<crCache, unnoticed>>
            BY <2>2 DEF VerifyArgo, GetManagedClusters, FinishCR, notice
        <3> QED  BY <3>1, <3>2, PhaseKeepsNews, CacheKept
    <2> QED
        BY <1>1, <1>4, <2>1, <2>2
        DEF Reconcile, ListCRs, NextCR, CopySecret, StartCleanup, DeleteOrphan, Finish,
            users, notice
<1>5. CASE Failing
    <2>1. CASE VerifyFails \/ GetManagedClustersFails
        <3>1. UNCHANGED users \/ \E p \in {"failed", "successful"} : SetPhase(p)
            BY <2>1 DEF VerifyFails, GetManagedClustersFails, SetPhaseAndNext, NoClusters
        <3>2. UNCHANGED crCache /\ unnoticed'
            BY <2>1 DEF VerifyFails, GetManagedClustersFails
        <3> QED  BY <3>1, <3>2, PhaseKeepsNews, CacheKept
    <2>2. CASE UpdateFails
        <3>1. UNCHANGED users \/ \E p \in {"failed", "successful"} : SetPhase(p)
            BY <2>2 DEF UpdateFails
        <3> QED  BY <2>2, <3>1, PhaseKeepsNews, CacheKept DEF UpdateFails
    <2> QED
        BY <1>1, <1>5, <2>1, <2>2
        DEF Failing, ListFails, CopyFails, DeleteFails, SkipOrphan, users
<1>6. CASE Quiet
    BY <1>1, <1>6 DEF Quiet, vars
<1> QED  BY <1>2, <1>3, <1>4, <1>5, <1>6 DEF Next

-----------------------------------------------------------------------------
(* What it takes for copies to stay as they should be.                      *)

\* The copies of g, cluster by cluster.
HasCopies(g) ==
    (/\ crs[g] # Nil /\ Readable(crs[g].placement)
     /\ crs[g].skip \/ crs[g].argo \in argoUp) =>
        \A c \in placed[crs[g].placement] :
            source[c] # Nil => secrets[<<crs[g].argo, c>>] = source[c]

LEMMA ServedByCluster == \A g \in GitOpsClusters : Served(g) <=> HasCopies(g)
<1> SUFFICES ASSUME NEW g \in GitOpsClusters PROVE Served(g) <=> HasCopies(g)
    OBVIOUS
<1>1. CASE /\ crs[g] # Nil /\ Readable(crs[g].placement)
           /\ crs[g].skip \/ crs[g].argo \in argoUp
    <2>1. Asked(g) = {crs[g].argo} \X placed[crs[g].placement]
        BY <1>1 DEF Asked
    <2>2. \A k \in Asked(g) : k = <<crs[g].argo, k[2]>> /\ k[2] \in placed[crs[g].placement]
        BY <2>1
    <2>3. \A c \in placed[crs[g].placement] :
              <<crs[g].argo, c>> \in Asked(g) /\ <<crs[g].argo, c>>[2] = c
        BY <2>1
    <2>4. ASSUME Served(g) PROVE HasCopies(g)
        BY <2>3, <2>4 DEF Served, HasCopies
    <2>5. ASSUME HasCopies(g) PROVE Served(g)
        BY <1>1, <2>2, <2>5 DEF Served, HasCopies
    <2> QED  BY <2>4, <2>5
<1>2. CASE ~(/\ crs[g] # Nil /\ Readable(crs[g].placement)
             /\ crs[g].skip \/ crs[g].argo \in argoUp)
    BY <1>2 DEF Served, HasCopies, Asked
<1> QED  BY <1>1, <1>2

LEMMA ServedByClusterNext == (\A g \in GitOpsClusters : Served(g) <=> HasCopies(g))'
<1> QED  BY ServedByCluster, PTL

\* No source gets other contents, though one may go, and no copy that is as it should
\* be is touched.
Harmless == /\ \A c \in Clusters : source'[c] # Nil => source'[c] = source[c]
            /\ \A k \in Keys : \/ secrets'[k] = secrets[k]
                               \/ secrets'[k] = source[k[2]]

LEMMA StillServed ==
    ASSUME TypeOK, UNCHANGED <<crs, present, placed, argoUp>>, Harmless,
           NEW g \in GitOpsClusters, Served(g)
    PROVE  Served(g)'
<1>1. HasCopies(g)
    BY ServedByCluster
<1>2. HasCopies(g)'
    <2> SUFFICES ASSUME crs[g] # Nil, Readable(crs[g].placement),
                        crs[g].skip \/ crs[g].argo \in argoUp,
                        NEW c \in placed[crs[g].placement], source'[c] # Nil
                 PROVE  secrets'[<<crs[g].argo, c>>] = source'[c]
        BY DEF HasCopies, Readable
    <2>1. crs[g] \in SpecRecord /\ c \in Clusters
        BY DEF TypeOK, Readable, SpecRecord
    <2>2. <<crs[g].argo, c>> \in Keys /\ <<crs[g].argo, c>>[2] = c
        BY <2>1 DEF Keys, SpecRecord
    <2>3. secrets[<<crs[g].argo, c>>] = source[c] /\ source'[c] = source[c]
        BY <1>1, <2>1 DEF HasCopies, Harmless
    <2> QED  BY <2>2, <2>3 DEF Harmless
<1> QED  BY <1>2, ServedByClusterNext

\* Who is not served has nothing to be served with.
LEMMA NothingAsked ==
    ASSUME NEW g \in GitOpsClusters,
           \/ crs[g] = Nil
           \/ ~Readable(crs[g].placement)
           \/ ~(crs[g].skip \/ crs[g].argo \in argoUp)
    PROVE  Served(g)
<1> QED  BY DEF Served, Asked

LEMMA StillServedInHand ==
    ASSUME TypeOK, UNCHANGED <<present, placed, work>>, Harmless, ServedInHand
    PROVE  ServedInHand'
<1> SUFFICES ASSUME work.pc = "copy", ~work.failed, Readable(work.inst.placement),
                    NEW c \in placed[work.inst.placement] \ work.list, source'[c] # Nil
             PROVE  secrets'[<<work.inst.argo, c>>] = source'[c]
    BY DEF ServedInHand, Readable
<1>1. work.inst \in SpecRecord /\ c \in Clusters
    BY DEF TypeOK, InHand, Readable, SpecRecord
<1>2. <<work.inst.argo, c>> \in Keys /\ <<work.inst.argo, c>>[2] = c
    BY <1>1 DEF Keys, SpecRecord
<1>3. secrets[<<work.inst.argo, c>>] = source[c] /\ source'[c] = source[c]
    BY <1>1 DEF ServedInHand, Harmless
<1> QED  BY <1>2, <1>3 DEF Harmless

-----------------------------------------------------------------------------
(* Steps that are known of, and steps that change nothing that matters.     *)

\* A step that something waits for afterwards.
LEMMA Disturbing ==
    ASSUME ~Undisturbed', work'.pc = "cleanup" => work'.todo = {}
    PROVE  ServedSoFar'
<1> QED  BY DEF ServedSoFar

LEMMA IdleIsNoCleanup == Idle.pc = "idle"
<1> QED  BY DEF Idle

\* A step outside the worker that takes nothing away.
LEMMA Aside ==
    ASSUME TypeOK, ServedSoFar, UNCHANGED <<crs, present, placed, argoUp, work>>, Harmless,
           Undisturbed' => Undisturbed
    PROVE  ServedSoFar'
<1> SUFFICES ASSUME Undisturbed, Undisturbed' PROVE ServedSoFar'
    BY Disturbing DEF ServedSoFar
<1>1. work.pc = "idle" => Provided'
    BY StillServed DEF ServedSoFar, Provided
<1>2. work.pc \in {"next", "cleanup"} => \A g \in GitOpsClusters \ work.todo : Served(g)'
    BY StillServed DEF ServedSoFar
<1>3. work.pc \in InHand =>
          /\ work.inst = crs[work.g]
          /\ \A g \in GitOpsClusters \ (work.todo \cup {work.g}) : Served(g)'
    BY StillServed DEF ServedSoFar
<1>4. ServedInHand'
    BY StillServedInHand DEF ServedSoFar
<1>5. (work.pc = "cleanup" => work.todo = {})
    BY DEF ServedSoFar
<1> QED  BY <1>1, <1>2, <1>3, <1>4, <1>5 DEF ServedSoFar, InHand

\* A decision that makes no request is about a Placement nobody refers to.
LEMMA PlacedElsewhere ==
    ASSUME TypeOK, CacheIsCurrent, NEW p \in Placements,
           NEW chosen \in (SUBSET Clusters) \cup {Nil}, SetPlaced(p, chosen), Undisturbed'
    PROVE  /\ Undisturbed
           /\ UNCHANGED <<crs, work, present, source, secrets, argoUp>>
           /\ \A g \in GitOpsClusters : crs[g] # Nil =>
                 \/ crs[g].placement = Nil
                 \/ placed'[crs[g].placement] = placed[crs[g].placement]
<1>1. Undisturbed /\ ~unnoticed
    BY DEF SetPlaced, Decide, MapDecision, Undisturbed, Told, users, copies
<1>2. \A g \in GitOpsClusters : crs[g] # Nil => crs[g].placement # p
    BY <1>1 DEF SetPlaced, MapDecision, Undisturbed, Told, CacheIsCurrent
<1>3. \A q \in Placements : q # p => placed'[q] = placed[q]
    BY DEF SetPlaced, Decide, TypeOK
<1>4. UNCHANGED <<crs, work, present, source, secrets, argoUp>>
    BY DEF SetPlaced, Decide, users, copies
<1> QED  BY <1>1, <1>2, <1>3, <1>4 DEF TypeOK, SpecRecord

LEMMA EnvironmentServes ==
    TypeOK /\ CacheIsCurrent /\ ServedSoFar /\ Environment => ServedSoFar'
<1> SUFFICES ASSUME TypeOK, CacheIsCurrent, ServedSoFar, Environment PROVE ServedSoFar'
    OBVIOUS
<1>. work \in Work
    BY DEF TypeOK
<1>1. ASSUME NEW g \in GitOpsClusters, NEW spec \in SpecsOf[g] \cup {Nil}, SetCR(g, spec)
      PROVE  ServedSoFar'
    <2>1. spec \in SpecRecord \cup {Nil} /\ crs[g] \in SpecRecord \cup {Nil} /\ spec # crs[g]
        BY <1>1, InputsAssumption DEF TypeOK, SetCR
    <2>2. CASE GitOpsClusterPredicate(crs[g], spec)
        <3>1. news'[g] = "change"
            BY <1>1, <2>2 DEF SetCR, TypeOK
        <3> QED  BY <1>1, <3>1, Disturbing DEF Undisturbed, Told, SetCR, ServedSoFar, Work
    <2>3. CASE ~GitOpsClusterPredicate(crs[g], spec)
        <3>1. unnoticed'
            BY <1>1, <2>1, <2>3, HeldBackIsAnnotation DEF SetCR
        <3> QED  BY <1>1, <3>1, Disturbing DEF Undisturbed, Told, SetCR, ServedSoFar, Work
    <2> QED  BY <2>2, <2>3
<1>2. ASSUME NEW p \in Placements, NEW chosen \in (SUBSET Clusters) \cup {Nil},
             SetPlaced(p, chosen)
      PROVE  ServedSoFar'
    <2>1. CASE ~Undisturbed'
        BY <1>2, <2>1, Disturbing DEF SetPlaced, Decide, ServedSoFar
    <2>2. CASE Undisturbed'
        <3>1. /\ Undisturbed
              /\ UNCHANGED <<crs, work, present, source, secrets, argoUp>>
              /\ \A g \in GitOpsClusters : crs[g] # Nil =>
                    \/ crs[g].placement = Nil
                    \/ placed'[crs[g].placement] = placed[crs[g].placement]
            BY <1>2, <2>2, PlacedElsewhere
        <3>2. \A g \in GitOpsClusters : Served(g) => Served(g)'
            BY <3>1 DEF Served, Asked, Readable
        <3>3. ServedInHand'
            <4> SUFFICES ASSUME work.pc = "copy" PROVE ServedInHand'
                BY <3>1 DEF ServedInHand
            <4>1. work.g \in GitOpsClusters /\ work.inst \in SpecRecord /\ work.inst = crs[work.g]
                BY <3>1 DEF TypeOK, InHand, ServedSoFar
            <4>2. \/ work.inst.placement = Nil
                  \/ placed'[work.inst.placement] = placed[work.inst.placement]
                BY <3>1, <4>1, InputsAssumption
            <4> QED  BY <3>1, <4>1, <4>2 DEF ServedInHand, ServedSoFar, Readable
        <3> QED  BY <3>1, <3>2, <3>3 DEF ServedSoFar, Provided, InHand
    <2> QED  BY <2>1, <2>2
<1>8. ASSUME \/ \E p \in Placements : \E chosen \in (SUBSET Clusters) \cup {Nil} :
                   MapDecisionFails(p, chosen)
             \/ \E p \in Placements : MovePlacement(p)
      PROVE  ServedSoFar'
    BY <1>8, Disturbing DEF MapDecisionFails, Decide, MovePlacement, Undisturbed, ServedSoFar
<1>3. ASSUME NEW c \in Clusters, NEW new \in Versions \cup {Nil}, SetSource(c, new)
      PROVE  ServedSoFar'
    <2>1. CASE new # Nil
        BY <1>3, <2>1, Disturbing
        DEF SetSource, ManagedClusterSecretPredicate, Undisturbed, Told, ServedSoFar
    <2>2. CASE new = Nil
        <3>1. Harmless
            BY <1>3, <2>2 DEF SetSource, copies, Harmless, TypeOK
        <3> QED
            BY <1>3, <3>1, Aside
            DEF SetSource, Undisturbed, Told, users, copies, ManagedClusterSecretPredicate
    <2> QED  BY <2>1, <2>2
<1>4. ASSUME NEW c \in Clusters, Resync(c) PROVE ServedSoFar'
    BY <1>4, Disturbing DEF Resync, Undisturbed, Told, ServedSoFar
<1>5. ASSUME NEW a \in Argos, MoveArgo(a) PROVE ServedSoFar'
    BY <1>5, Disturbing DEF MoveArgo, Undisturbed, Told, ServedSoFar
<1>6. ASSUME NEW k \in Keys, LoseCopy(k) PROVE ServedSoFar'
    BY <1>6, Disturbing DEF LoseCopy, Undisturbed, Told, ServedSoFar
<1>7. CASE Restart
    <2>1. work'.pc = "idle"
        BY <1>7, IdleIsNoCleanup DEF Restart
    <2>2. CASE wanted'
        BY <2>1, <2>2, Disturbing DEF Undisturbed, Told
    <2>3. CASE ~wanted'
        <3>1. \A g \in GitOpsClusters : crs'[g] = Nil
            BY <1>7, <2>3 DEF Restart
        <3>2. Provided'
            BY <3>1 DEF Provided, Served, Asked
        <3> QED  BY <2>1, <3>2 DEF ServedSoFar, ServedInHand, InHand
    <2> QED  BY <2>2, <2>3
<1> QED  BY <1>1, <1>2, <1>3, <1>4, <1>5, <1>6, <1>7, <1>8 DEF Environment

LEMMA WatchesServe == TypeOK /\ ServedSoFar /\ Watches => ServedSoFar'
<1> SUFFICES ASSUME TypeOK, ServedSoFar, Watches PROVE ServedSoFar'
    OBVIOUS
<1>1. ASSUME NEW g \in GitOpsClusters, SyncCR(g) PROVE ServedSoFar'
    <2>1. Harmless
        BY <1>1 DEF SyncCR, world, copies, Harmless
    <2>2. Undisturbed' => Undisturbed
        BY <1>1 DEF SyncCR, copies, notice, Undisturbed, Told, TypeOK
    <2> QED  BY <1>1, <2>1, <2>2, Aside DEF SyncCR, world
<1>2. ASSUME NEW k \in Keys, SyncCopy(k) PROVE ServedSoFar'
    <2>1. Harmless
        BY <1>2 DEF SyncCopy, world, Harmless
    <2>2. Undisturbed' => Undisturbed
        BY <1>2 DEF SyncCopy, users, notice, Undisturbed, Told
    <2> QED  BY <1>2, <2>1, <2>2, Aside DEF SyncCopy, world, users
<1> QED  BY <1>1, <1>2 DEF Watches

-----------------------------------------------------------------------------
(* Reconcile.                                                               *)

\* A step that ends Reconcile with a request to come back.
LEMMA ComeBackServes == ComeBack => ServedSoFar'
<1> QED  BY IdleIsNoCleanup, Disturbing DEF ComeBack, Undisturbed, Told

\* A status update leaves all but the news alone.
LEMMA PhaseIsHarmless ==
    ASSUME TypeOK, UNCHANGED <<world, copies>>
    PROVE  /\ Harmless /\ UNCHANGED <<present, placed, argoUp, source, secrets, gone>>
<1> QED  BY DEF world, copies, Harmless

\* The GitOpsCluster in hand is left as it should be.
LEMMA NextOneServes ==
    ASSUME TypeOK, ServedSoFar, work.pc \in InHand, NEW p \in {"failed", "successful"},
           SetPhaseAndNext(p), UNCHANGED <<world, copies>>, unnoticed => unnoticed',
           Undisturbed /\ ~unnoticed' => Served(work.g)
    PROVE  ServedSoFar'
<1>1. CASE ComeBack
    BY <1>1, ComeBackServes
<1>2. CASE SetPhase(p) /\ NextOne /\ UNCHANGED wanted
    <2>1. /\ work'.pc = "next" /\ work'.todo = work.todo
        BY <1>2 DEF NextOne, TypeOK, Work
    <2>2. UNCHANGED crs /\ \A g \in GitOpsClusters : news[g] = "change" <=> news'[g] = "change"
        BY <1>2, PhaseKeepsNews
    <2>3. Undisturbed' => Undisturbed /\ ~unnoticed'
        BY <1>2, <2>2 DEF Undisturbed, Told, copies
    <2>4. ASSUME Undisturbed' PROVE \A g \in GitOpsClusters \ work.todo : Served(g)
        BY <2>3, <2>4 DEF ServedSoFar
    <2>5. ASSUME Undisturbed' PROVE \A g \in GitOpsClusters \ work.todo : Served(g)'
        BY <2>2, <2>4, <2>5, StillServed, PhaseIsHarmless
    <2> QED  BY <2>1, <2>5 DEF ServedSoFar, ServedInHand, InHand
<1> QED  BY <1>1, <1>2 DEF SetPhaseAndNext

\* The worker moves on with the GitOpsCluster in hand, without a copy being made.
LEMMA GoOnServes ==
    ASSUME TypeOK, ServedSoFar, work.pc \in InHand, work'.pc \in InHand,
           UNCHANGED <<crs, world, copies, wanted>>, unnoticed => unnoticed',
           \A g \in GitOpsClusters : news[g] = "change" <=> news'[g] = "change",
           work'.inst = work.inst, work'.g = work.g, work'.todo = work.todo,
           Undisturbed /\ Undisturbed' => ServedInHand'
    PROVE  ServedSoFar'
<1>1. Undisturbed' => Undisturbed
    BY DEF Undisturbed, Told, copies
<1>2. ASSUME Undisturbed'
      PROVE  \A g \in GitOpsClusters \ (work.todo \cup {work.g}) : Served(g)'
    BY <1>1, <1>2, StillServed, PhaseIsHarmless DEF ServedSoFar, world
<1> QED  BY <1>1, <1>2 DEF ServedSoFar, InHand

LEMMA NoClustersServes ==
    ASSUME TypeOK, ServedSoFar, NoClusters, work.pc = "clusters",
           UNCHANGED <<world, copies>>, unnoticed => unnoticed',
           unnoticed' \/ ~Readable(work.inst.placement)
    PROVE  ServedSoFar'
<1>1. CASE ComeBack
    BY <1>1, ComeBackServes
<1>2. CASE SetPhase("failed") /\ Goto("copy") /\ UNCHANGED wanted
    <2>1. /\ work'.pc = "copy" /\ work'.inst = work.inst /\ work'.g = work.g
          /\ work'.todo = work.todo
        BY <1>2 DEF Goto, TypeOK, Work
    <2>2. UNCHANGED crs /\ \A g \in GitOpsClusters : news[g] = "change" <=> news'[g] = "change"
        BY <1>2, PhaseKeepsNews
    <2>3. Undisturbed' => ServedInHand'
        BY <2>1 DEF Undisturbed, Told, ServedInHand, Readable, world
    <2> QED  BY <1>2, <2>1, <2>2, <2>3, GoOnServes DEF InHand
<1> QED  BY <1>1, <1>2 DEF NoClusters

LEMMA ReconcileServes ==
    TypeOK /\ CacheIsCurrent /\ ServedSoFar /\ Reconcile => ServedSoFar'
<1> SUFFICES ASSUME TypeOK, CacheIsCurrent, ServedSoFar, Reconcile PROVE ServedSoFar'
    OBVIOUS
<1>. work \in Work
    BY DEF TypeOK
<1>1. CASE ListCopies
    <2>1. work'.pc = "crs"
        BY <1>1 DEF ListCopies, Work
    <2> QED  BY <2>1 DEF ServedSoFar, ServedInHand, InHand
<1>2. CASE ListCRs
    <2>1. work'.pc = "next" /\ work'.todo = {g \in GitOpsClusters : crCache[g] # Nil}
        BY <1>2 DEF ListCRs, Work
    <2>2. ASSUME Undisturbed', NEW g \in GitOpsClusters, crCache[g] = Nil PROVE Served(g)'
        <3>1. crs'[g] = Nil
            BY <1>2, <2>2
            DEF ListCRs, users, copies, notice, Undisturbed, Told, CacheIsCurrent, OnlyAnnotated
        <3> QED  BY <3>1 DEF Served, Asked
    <2> QED  BY <2>1, <2>2 DEF ServedSoFar, ServedInHand, InHand
<1>3. ASSUME NEW g \in GitOpsClusters, NextCR(g) PROVE ServedSoFar'
    <2>1. /\ work.pc = "next" /\ g \in work.todo
          /\ UNCHANGED <<users, crCache, world, copies, wanted, unnoticed>>
        BY <1>3 DEF NextCR, notice
    <2>2. Undisturbed' <=> Undisturbed
        BY <2>1 DEF users, copies, Undisturbed, Told
    <2>3. ASSUME Undisturbed
          PROVE  crCache[g] = crs[g] /\ \A h \in GitOpsClusters \ work.todo : Served(h)'
        <3>1. crCache[g] = crs[g]
            BY <2>3 DEF CacheIsCurrent, Undisturbed, Told
        <3>2. \A h \in GitOpsClusters \ work.todo : Served(h)'
            BY <2>1, <2>3, StillServed, PhaseIsHarmless DEF ServedSoFar, users
        <3> QED  BY <3>1, <3>2
    <2>4. CASE crCache[g] = Nil
        <3>1. work'.pc = "next" /\ work'.todo = work.todo \ {g}
            BY <1>3, <2>1, <2>4 DEF NextCR, Work
        <3>2. ASSUME Undisturbed PROVE Served(g)'
            BY <2>1, <2>3, <2>4, <3>2 DEF Served, Asked, users
        <3> QED  BY <2>2, <2>3, <3>1, <3>2 DEF ServedSoFar, ServedInHand, InHand
    <2>5. CASE crCache[g] # Nil
        <3>1. /\ work'.pc = "verify" /\ work'.todo = work.todo \ {g}
              /\ work'.g = g /\ work'.inst = crCache[g]
            BY <1>3, <2>5 DEF NextCR, Work
        <3>2. crs' = crs
            BY <2>1 DEF users
        <3> QED  BY <2>2, <2>3, <3>1, <3>2 DEF ServedSoFar, ServedInHand, InHand
    <2> QED  BY <2>4, <2>5
<1>4. CASE VerifyArgo
    <2>1. work.pc = "verify" /\ work.pc \in InHand /\ work.g \in GitOpsClusters
          /\ UNCHANGED <<world, copies, unnoticed>>
        BY <1>4 DEF VerifyArgo, notice, InHand, TypeOK
    <2>2. CASE Verified
        <3>1. /\ work'.pc = "clusters" /\ work'.inst = work.inst /\ work'.g = work.g
              /\ work'.todo = work.todo
            BY <1>4, <2>2 DEF VerifyArgo, Goto, Work
        <3>2. UNCHANGED <<crs, news, wanted>>
            BY <1>4, <2>2 DEF VerifyArgo, users
        <3> QED  BY <2>1, <3>1, <3>2, GoOnServes DEF InHand, ServedInHand
    <2>3. CASE ~Verified
        <3>1. Undisturbed => Served(work.g)
            BY <2>1, <2>3, NothingAsked DEF Verified, ServedSoFar
        <3> QED  BY <1>4, <2>1, <2>3, <3>1, NextOneServes DEF VerifyArgo
    <2> QED  BY <2>2, <2>3
<1>5. CASE GetManagedClusters
    <2>1. work.pc = "clusters" /\ work.pc \in InHand /\ UNCHANGED <<world, copies, unnoticed>>
        BY <1>5 DEF GetManagedClusters, notice, InHand
    <2>2. CASE Readable(work.inst.placement)
        <3>1. /\ work'.pc = "copy" /\ work'.inst = work.inst /\ work'.g = work.g
              /\ work'.todo = work.todo /\ work'.list = placed[work.inst.placement]
              /\ UNCHANGED <<users, wanted>>
            BY <1>5, <2>2 DEF GetManagedClusters, Work
        <3>2. ServedInHand'
            BY <2>1, <3>1 DEF ServedInHand, world
        <3> QED  BY <2>1, <3>1, <3>2, GoOnServes DEF InHand, users
    <2>3. CASE ~Readable(work.inst.placement)
        BY <1>5, <2>1, <2>3, NoClustersServes DEF GetManagedClusters
    <2> QED  BY <2>2, <2>3
<1>6. ASSUME NEW c \in Clusters, CopySecret(c) PROVE ServedSoFar'
    <2>. DEFINE k == <<work.inst.argo, c>>
    <2>1. /\ work.pc = "copy" /\ work.pc \in InHand /\ c \in work.list
          /\ work.inst \in SpecRecord /\ work.g \in GitOpsClusters
          /\ k \in Keys /\ k[2] = c
          /\ UNCHANGED <<users, source, present, placed, argoUp, gone, wanted, unnoticed>>
        BY <1>6 DEF CopySecret, InHand, TypeOK, SpecRecord, Keys, world, notice
    <2>2. /\ work'.pc = "copy" /\ work'.g = work.g /\ work'.inst = work.inst
          /\ work'.todo = work.todo /\ work'.list = work.list \ {c}
        BY <1>6, <2>1 DEF CopySecret, Copied, NotCopied, Work
    <2>3. Harmless
        BY <1>6, <2>1 DEF CopySecret, Harmless, TypeOK
    <2>4. Undisturbed' <=> Undisturbed
        BY <2>1 DEF Undisturbed, Told, users
    <2>5. ASSUME Undisturbed
          PROVE  \A g \in GitOpsClusters \ (work.todo \cup {work.g}) : Served(g)'
        BY <2>1, <2>3, <2>5, StillServed DEF ServedSoFar, users
    <2>6. ASSUME Undisturbed PROVE ServedInHand'
        <3>1. CASE secrets' = [secrets EXCEPT ![k] = source[c]] /\ work' = Copied(k)
            <4>1. work'.failed = work.failed
                BY <3>1 DEF Copied, Work
            <4>2. ServedInHand
                BY <2>6 DEF ServedSoFar
            <4> SUFFICES ASSUME ~work.failed, Readable(work.inst.placement),
                                NEW d \in placed[work.inst.placement] \ (work.list \ {c}),
                                source[d] # Nil
                         PROVE  secrets'[<<work.inst.argo, d>>] = source[d]
                BY <2>1, <2>2, <4>1 DEF ServedInHand, Readable
            <4>3. CASE d = c
                BY <2>1, <3>1, <4>3 DEF TypeOK
            <4>4. CASE d # c
                <5>1. secrets[<<work.inst.argo, d>>] = source[d]
                    BY <2>1, <4>2, <4>4 DEF ServedInHand
                <5>2. <<work.inst.argo, d>> # k
                    BY <4>4
                <5>3. d \in Clusters
                    BY <2>1 DEF TypeOK, Readable, SpecRecord
                <5>4. <<work.inst.argo, d>> \in Keys
                    BY <2>1, <5>3 DEF Keys, SpecRecord
                <5> QED  BY <3>1, <5>1, <5>2, <5>4 DEF TypeOK
            <4> QED  BY <4>3, <4>4
        <3>2. CASE work' = NotCopied(k)
            <4>1. work'.failed
                BY <3>2 DEF NotCopied, Work
            <4> QED  BY <4>1 DEF ServedInHand
        <3> QED  BY <1>6, <3>1, <3>2 DEF CopySecret
    <2>. HIDE DEF k
    <2> QED  BY <2>1, <2>2, <2>4, <2>5, <2>6 DEF ServedSoFar, InHand, users
<1>7. CASE FinishCR
    <2>1. /\ work.pc = "copy" /\ work.list = {} /\ work.pc \in InHand
          /\ work.g \in GitOpsClusters /\ UNCHANGED <<world, copies, unnoticed>>
        BY <1>7 DEF FinishCR, InHand, TypeOK, notice
    <2>2. CASE work.failed
        BY <1>7, <2>2, ComeBackServes DEF FinishCR
    <2>3. CASE ~work.failed
        <3>1. ASSUME Undisturbed PROVE Served(work.g)
            <4>1. work.inst = crs[work.g] /\ ServedInHand
                BY <2>1, <3>1 DEF ServedSoFar
            <4>2. HasCopies(work.g)
                BY <2>1, <2>3, <4>1 DEF ServedInHand, HasCopies
            <4> QED  BY <2>1, <4>2, ServedByCluster
        <3> QED  BY <1>7, <2>1, <2>3, <3>1, NextOneServes DEF FinishCR
    <2> QED  BY <2>2, <2>3
<1>8. CASE StartCleanup
    <2>1. /\ work.pc = "next" /\ work.todo = {} /\ work'.pc = "cleanup" /\ work'.todo = {}
          /\ UNCHANGED <<users, world, copies, wanted, unnoticed>>
        BY <1>8 DEF StartCleanup, Goto, Work, notice
    <2>2. Undisturbed' => Undisturbed
        BY <2>1 DEF Undisturbed, Told, users, copies
    <2>3. ASSUME Undisturbed' PROVE \A g \in GitOpsClusters : Served(g)'
        BY <2>1, <2>2, <2>3, StillServed, PhaseIsHarmless DEF ServedSoFar, users
    <2> QED  BY <2>1, <2>3 DEF ServedSoFar, ServedInHand, InHand
<1>9. ASSUME NEW k \in Keys, DeleteOrphan(k) PROVE ServedSoFar'
    <2>1. /\ work.pc = "cleanup" /\ work'.pc = "cleanup" /\ work.todo = {} /\ work'.todo = {}
          /\ UNCHANGED <<users, world, wanted, unnoticed>>
        BY <1>9 DEF DeleteOrphan, Work, notice, ServedSoFar
    <2>2. CASE gone' = gone \cup {k}
        BY <2>1, <2>2, Disturbing DEF Undisturbed, Told
    <2>3. CASE UNCHANGED <<secrets, gone>>
        <3>1. Undisturbed' => Undisturbed
            BY <2>1, <2>3 DEF Undisturbed, Told, users
        <3>2. Harmless
            BY <2>1, <2>3 DEF Harmless, world
        <3>3. ASSUME Undisturbed' PROVE \A g \in GitOpsClusters : Served(g)'
            BY <2>1, <3>1, <3>2, <3>3, StillServed DEF ServedSoFar, users, world
        <3> QED  BY <2>1, <3>3 DEF ServedSoFar, ServedInHand, InHand
    <2> QED  BY <1>9, <2>2, <2>3 DEF DeleteOrphan
<1>10. CASE Finish
    <2>1. CASE ComeBack
        BY <2>1, ComeBackServes
    <2>2. CASE Return
        <3>1. /\ work.pc = "cleanup" /\ work.todo = {} /\ work'.pc = "idle"
              /\ UNCHANGED <<users, world, copies, wanted, unnoticed>>
            BY <1>10, <2>2, IdleIsNoCleanup DEF Finish, Return, notice, ServedSoFar
        <3>2. Undisturbed' => Undisturbed
            BY <3>1 DEF Undisturbed, Told, users, copies
        <3>3. ASSUME Undisturbed' PROVE Provided'
            BY <3>1, <3>2, <3>3, StillServed, PhaseIsHarmless DEF ServedSoFar, Provided, users
        <3> QED  BY <3>1, <3>3 DEF ServedSoFar, ServedInHand, InHand
    <2> QED  BY <1>10, <2>1, <2>2 DEF Finish
<1> QED
    BY <1>1, <1>2, <1>3, <1>4, <1>5, <1>6, <1>7, <1>8, <1>9, <1>10 DEF Reconcile

LEMMA FailingServes == TypeOK /\ ServedSoFar /\ Failing => ServedSoFar'
<1> SUFFICES ASSUME TypeOK, ServedSoFar, Failing PROVE ServedSoFar'
    OBVIOUS
<1>. work \in Work
    BY DEF TypeOK
<1>1. CASE ListFails
    BY <1>1, IdleIsNoCleanup, Disturbing DEF ListFails, Return, Undisturbed, Told, ServedSoFar
<1>2. CASE VerifyFails
    <2>1. work.pc \in InHand
        BY <1>2 DEF VerifyFails, InHand
    <2> QED  BY <1>2, <2>1, NextOneServes DEF VerifyFails
<1>3. CASE GetManagedClustersFails
    BY <1>3, NoClustersServes DEF GetManagedClustersFails
<1>4. CASE UpdateFails
    BY <1>4, ComeBackServes DEF UpdateFails
<1>5. ASSUME NEW c \in Clusters, CopyFails(c) PROVE ServedSoFar'
    <2>1. /\ work.pc = "copy" /\ work'.pc = "copy" /\ work'.failed
          /\ work'.inst = work.inst /\ work'.g = work.g /\ work'.todo = work.todo
        BY <1>5 DEF CopyFails, NotCopied, Work
    <2>2. ServedInHand'
        BY <2>1 DEF ServedInHand
    <2>3. Harmless /\ UNCHANGED <<users, present, placed, argoUp, gone, wanted, unnoticed>>
        <3>. DEFINE k == <<work.inst.argo, c>>
        <3>1. k \in Keys /\ k[2] = c /\ UNCHANGED <<users, world, gone, wanted, unnoticed>>
            BY <1>5, <2>1 DEF CopyFails, InHand, TypeOK, SpecRecord, Keys
        <3>2. CASE UNCHANGED secrets
            BY <3>1, <3>2 DEF Harmless, world
        <3>3. CASE secrets' = [secrets EXCEPT ![k] = source[c]]
            BY <3>1, <3>3 DEF Harmless, world, TypeOK
        <3> QED  BY <1>5, <3>1, <3>2, <3>3 DEF CopyFails, world
    <2>4. Undisturbed' => Undisturbed
        BY <2>3 DEF Undisturbed, Told, users
    <2>5. ASSUME Undisturbed'
          PROVE  \A g \in GitOpsClusters \ (work.todo \cup {work.g}) : Served(g)'
        BY <2>1, <2>3, <2>4, <2>5, StillServed DEF ServedSoFar, users, InHand
    <2> QED  BY <2>1, <2>2, <2>3, <2>4, <2>5 DEF ServedSoFar, InHand, users
<1>6. ASSUME NEW k \in Keys, DeleteFails(k) PROVE ServedSoFar'
    <2>1. /\ work.pc = "cleanup" /\ work'.pc = "cleanup" /\ work.todo = {} /\ work'.todo = {}
          /\ UNCHANGED <<users, world, wanted, unnoticed>>
        BY <1>6 DEF DeleteFails, Work, ServedSoFar
    <2>2. CASE gone' = gone \cup {k}
        BY <2>1, <2>2, Disturbing DEF Undisturbed, Told
    <2>3. CASE UNCHANGED <<secrets, gone>>
        <3>1. Undisturbed' => Undisturbed
            BY <2>1, <2>3 DEF Undisturbed, Told, users
        <3>2. Harmless
            BY <2>1, <2>3 DEF Harmless, world
        <3>3. ASSUME Undisturbed' PROVE \A g \in GitOpsClusters : Served(g)'
            BY <2>1, <3>1, <3>2, <3>3, StillServed DEF ServedSoFar, users, world
        <3> QED  BY <2>1, <3>3 DEF ServedSoFar, ServedInHand, InHand
    <2> QED  BY <1>6, <2>2, <2>3 DEF DeleteFails
<1>7. ASSUME NEW k \in Keys, SkipOrphan(k) PROVE ServedSoFar'
    <2>1. work.todo = {} /\ work'.todo = {}
        BY <1>7 DEF SkipOrphan, Work, ServedSoFar
    <2> QED  BY <1>7, <2>1, Disturbing DEF SkipOrphan, Undisturbed
<1> QED  BY <1>1, <1>2, <1>3, <1>4, <1>5, <1>6, <1>7 DEF Failing

-----------------------------------------------------------------------------
\* A Reconcile that nothing interferes with has served all it is done with.
THEOREM ServedInvariant == Spec => [](Orderly /\ CacheIsCurrent /\ ServedSoFar)
<1>1. Init => CacheIsCurrent /\ ServedSoFar
    BY IdleIsNoCleanup DEF Init, CacheIsCurrent, ServedSoFar, Undisturbed, Told
<1>2. TypeOK /\ CacheIsCurrent /\ ServedSoFar /\ [Next]_vars => CacheIsCurrent' /\ ServedSoFar'
    <2> SUFFICES ASSUME TypeOK, CacheIsCurrent, ServedSoFar, [Next]_vars
                 PROVE  CacheIsCurrent' /\ ServedSoFar'
        OBVIOUS
    <2>1. CASE UNCHANGED vars
        <3>1. Harmless
            BY <2>1 DEF vars, Harmless
        <3>2. Undisturbed' => Undisturbed
            BY <2>1 DEF vars, Undisturbed, Told
        <3> QED  BY <2>1, <3>1, <3>2, Aside, CacheKept DEF vars
    <2>2. CASE Next
        <3>1. ServedSoFar'
            BY <2>1, <2>2, EnvironmentServes, WatchesServe, ReconcileServes, FailingServes
            DEF Next, Quiet
        <3> QED  BY <2>2, <3>1, CacheStaysCurrent
    <2> QED  BY <2>1, <2>2
<1>3. Orderly => TypeOK
    BY DEF Orderly
<1> QED  BY <1>1, <1>2, <1>3, OrphansInvariant, PTL DEF Spec

\* When no request is waiting, every copy asked for exists and is up to date, unless
\* something has happened that the controller does not come back for.
THEOREM CopiesAreProvided == Spec => []ProvidedWhenSettled
<1>1. Orderly /\ ServedSoFar => ProvidedWhenSettled
    BY DEF Orderly, TypeOK, ServedSoFar, ProvidedWhenSettled, Settled, Undisturbed, Told
<1> QED  BY <1>1, ServedInvariant, PTL

-----------------------------------------------------------------------------
(* Copies nobody asks for.                                                  *)

\* Deletions of copies reach the informer as such.
LEMMA DeletionsStayNews == TypeOK /\ DeletionsAreNews /\ [Next]_vars => DeletionsAreNews'
<1> SUFFICES ASSUME TypeOK, DeletionsAreNews, [Next]_vars PROVE DeletionsAreNews'
    OBVIOUS
<1>1. CASE UNCHANGED <<secrets, secretCache, gone>>
    BY <1>1 DEF DeletionsAreNews
<1>2. ASSUME NEW k \in Keys, LoseCopy(k) PROVE DeletionsAreNews'
    BY <1>2 DEF LoseCopy, DeletionsAreNews, TypeOK
<1>3. CASE Restart
    BY <1>3 DEF Restart, DeletionsAreNews
<1>4. ASSUME NEW k \in Keys, SyncCopy(k) PROVE DeletionsAreNews'
    BY <1>4 DEF SyncCopy, DeletionsAreNews, TypeOK
<1>5. ASSUME NEW c \in Clusters, CopySecret(c) PROVE DeletionsAreNews'
    BY <1>5 DEF CopySecret, DeletionsAreNews, TypeOK
<1>6. ASSUME NEW k \in Keys, DeleteOrphan(k) PROVE DeletionsAreNews'
    BY <1>6 DEF DeleteOrphan, DeletionsAreNews, TypeOK
<1>7. CASE Environment
    BY <1>1, <1>2, <1>3, <1>7
    DEF Environment, SetCR, SetPlaced, MapDecisionFails, Decide, MovePlacement, SetSource, Resync,
        MoveArgo, copies
<1>8. CASE Watches
    BY <1>1, <1>4, <1>8 DEF Watches, SyncCR, copies
<1>9. CASE Reconcile
    BY <1>1, <1>5, <1>6, <1>9
    DEF Reconcile, ListCopies, ListCRs, NextCR, VerifyArgo, GetManagedClusters, FinishCR,
        StartCleanup, Finish, copies
<1>10. CASE Failing
    <2>1. ASSUME NEW c \in Clusters, CopyFails(c) PROVE DeletionsAreNews'
        BY <2>1 DEF CopyFails, DeletionsAreNews, TypeOK
    <2>2. ASSUME NEW k \in Keys, DeleteFails(k) PROVE DeletionsAreNews'
        BY <2>2 DEF DeleteFails, DeletionsAreNews, TypeOK
    <2> QED
        BY <1>1, <1>10, <2>1, <2>2
        DEF Failing, ListFails, VerifyFails, GetManagedClustersFails, UpdateFails, SkipOrphan,
            copies
<1>11. CASE Quiet \/ UNCHANGED vars
    BY <1>1, <1>11 DEF Quiet, vars
<1> QED  BY <1>7, <1>8, <1>9, <1>10, <1>11 DEF Next

-----------------------------------------------------------------------------
(* Steps of others.                                                         *)

\* A step that something waits for afterwards.
LEMMA DisturbingOrphans == ~Undisturbed' => OrphansAreAll'
<1> QED  BY DEF OrphansAreAll

LEMMA ComeBackOrphans == ComeBack => OrphansAreAll'
<1> QED  BY DisturbingOrphans DEF ComeBack, Undisturbed, Told

LEMMA SameAsked ==
    UNCHANGED <<crs, present, placed, argoUp>> =>
        /\ \A g : Asked(g)' = Asked(g)
        /\ \A k : AskedFor(k)' = AskedFor(k)
<1> QED  BY DEF Asked, AskedFor, Readable

\* A step outside the worker that changes nothing of what is asked for and there.
LEMMA AsideOrphans ==
    ASSUME OrphansAreAll, UNCHANGED <<secrets, missed, work>>, Undisturbed' => Undisturbed,
           Undisturbed' => \A g \in GitOpsClusters : Asked(g)' = Asked(g),
           Undisturbed' => \A k \in work.orphans : secretCache[k] # Nil => secretCache'[k] # Nil,
           UNCHANGED argoUp
    PROVE  OrphansAreAll'
<1> SUFFICES ASSUME Undisturbed, Undisturbed',
                    \A g \in GitOpsClusters : Asked(g)' = Asked(g),
                    \A k \in work.orphans : secretCache'[k] # Nil
             PROVE  OrphansAreAll'
    BY DisturbingOrphans DEF OrphansAreAll
<1>1. \A k \in Keys : AskedFor(k) => AskedFor(k)'
    BY DEF AskedFor
<1>2. \A k \in Keys :
          secrets'[k] # Nil =>
              k \in work'.orphans \/ work'.trouble \/ k \in missed' \/ AskedFor(k)'
    BY <1>1 DEF OrphansAreAll
<1>3. work'.pc = "clusters" => Verified'
    BY DEF OrphansAreAll, Verified
<1>4. \A g \in GitOpsClusters :
          work'.pc = "copy" /\ work'.g = g => {work'.inst.argo} \X work'.list \subseteq Asked(g)'
    BY DEF OrphansAreAll
<1>5. work'.pc = "idle" => work'.orphans = {} /\ ~work'.trouble
    BY DEF OrphansAreAll
<1> QED  BY <1>2, <1>3, <1>4, <1>5 DEF OrphansAreAll

LEMMA EnvironmentOrphans ==
    TypeOK /\ CacheIsCurrent /\ OrphansAreAll /\ Environment => OrphansAreAll'
<1> SUFFICES ASSUME TypeOK, CacheIsCurrent, OrphansAreAll, Environment PROVE OrphansAreAll'
    OBVIOUS
<1>1. ASSUME NEW g \in GitOpsClusters, NEW spec \in SpecsOf[g] \cup {Nil}, SetCR(g, spec)
      PROVE  OrphansAreAll'
    <2>1. spec \in SpecRecord \cup {Nil} /\ crs[g] \in SpecRecord \cup {Nil} /\ spec # crs[g]
        BY <1>1, InputsAssumption DEF TypeOK, SetCR
    <2>2. CASE GitOpsClusterPredicate(crs[g], spec)
        <3>1. news'[g] = "change"
            BY <1>1, <2>2 DEF SetCR, TypeOK
        <3> QED  BY <3>1, DisturbingOrphans DEF Undisturbed, Told
    <2>3. CASE ~GitOpsClusterPredicate(crs[g], spec)
        <3>1. unnoticed'
            BY <1>1, <2>1, <2>3, HeldBackIsAnnotation DEF SetCR
        <3> QED  BY <3>1, DisturbingOrphans DEF Undisturbed, Told
    <2> QED  BY <2>2, <2>3
<1>2. ASSUME NEW p \in Placements, NEW chosen \in (SUBSET Clusters) \cup {Nil},
             SetPlaced(p, chosen)
      PROVE  OrphansAreAll'
    <2>1. ASSUME Undisturbed' PROVE Undisturbed /\ \A g \in GitOpsClusters : Asked(g)' = Asked(g)
        BY <1>2, <2>1, PlacedElsewhere DEF Asked, Readable
    <2> QED  BY <1>2, <2>1, AsideOrphans DEF SetPlaced, Decide, copies
<1>8. ASSUME \/ \E p \in Placements : \E chosen \in (SUBSET Clusters) \cup {Nil} :
                   MapDecisionFails(p, chosen)
             \/ \E p \in Placements : MovePlacement(p)
      PROVE  OrphansAreAll'
    BY <1>8, DisturbingOrphans DEF MapDecisionFails, MovePlacement, Undisturbed
<1>3. ASSUME NEW c \in Clusters, NEW new \in Versions \cup {Nil}, SetSource(c, new)
      PROVE  OrphansAreAll'
    <2>1. Undisturbed' => Undisturbed
        BY <1>3 DEF SetSource, Undisturbed, Told, users, copies
    <2> QED  BY <1>3, <2>1, AsideOrphans, SameAsked DEF SetSource, users, copies
<1>4. ASSUME NEW c \in Clusters, Resync(c) PROVE OrphansAreAll'
    BY <1>4, DisturbingOrphans DEF Resync, Undisturbed, Told
<1>5. ASSUME NEW a \in Argos, MoveArgo(a) PROVE OrphansAreAll'
    BY <1>5, DisturbingOrphans DEF MoveArgo, Undisturbed, Told
<1>6. ASSUME NEW k \in Keys, LoseCopy(k) PROVE OrphansAreAll'
    BY <1>6, DisturbingOrphans DEF LoseCopy, Undisturbed, Told
<1>7. CASE Restart
    <2>1. work'.pc = "idle" /\ work'.orphans = {} /\ ~work'.trouble
        BY <1>7 DEF Restart, Idle
    <2>2. missed' = {k \in Keys : secrets'[k] # Nil}
        BY <1>7 DEF Restart
    <2> QED  BY <2>1, <2>2 DEF OrphansAreAll
<1> QED  BY <1>1, <1>2, <1>3, <1>4, <1>5, <1>6, <1>7, <1>8 DEF Environment

LEMMA WatchesOrphans ==
    TypeOK /\ OrphansAreAll /\ DeletionsAreNews /\ Watches => OrphansAreAll'
<1> SUFFICES ASSUME TypeOK, OrphansAreAll, DeletionsAreNews, Watches PROVE OrphansAreAll'
    OBVIOUS
<1>1. ASSUME NEW g \in GitOpsClusters, SyncCR(g) PROVE OrphansAreAll'
    <2>1. Undisturbed' => Undisturbed
        BY <1>1 DEF SyncCR, copies, notice, Undisturbed, Told, TypeOK
    <2> QED  BY <1>1, <2>1, AsideOrphans, SameAsked DEF SyncCR, world, copies
<1>2. ASSUME NEW k \in Keys, SyncCopy(k) PROVE OrphansAreAll'
    <2>1. Undisturbed' => Undisturbed /\ k \notin gone
        BY <1>2 DEF SyncCopy, users, notice, Undisturbed, Told
    <2>2. Undisturbed' => \A o \in work.orphans : secretCache[o] # Nil => secretCache'[o] # Nil
        BY <1>2, <2>1 DEF SyncCopy, DeletionsAreNews, TypeOK
    <2> QED  BY <1>2, <2>1, <2>2, AsideOrphans, SameAsked DEF SyncCopy, world, users
<1> QED  BY <1>1, <1>2 DEF Watches

-----------------------------------------------------------------------------
(* Reconcile.                                                               *)

\* The worker moves on, and makes and deletes nothing.
LEMMA GoOnOrphans ==
    ASSUME OrphansAreAll, UNCHANGED <<crs, world, copies>>, Undisturbed' => Undisturbed,
           work'.orphans = work.orphans, work'.trouble = work.trouble, work'.pc # "idle",
           Undisturbed' => (work'.pc \in {"verify", "clusters"} => work'.list = {}),
           Undisturbed' => (work'.pc = "clusters" => Verified'),
           Undisturbed' => \A g \in GitOpsClusters :
               work'.pc = "copy" /\ work'.g = g =>
                   {work'.inst.argo} \X work'.list \subseteq Asked(g)
    PROVE  OrphansAreAll'
<1>1. UNCHANGED <<crs, present, placed, argoUp, secrets, secretCache, missed>>
    BY DEF world, copies
<1>2. \A g \in GitOpsClusters : Asked(g)' = Asked(g)
    BY <1>1, SameAsked
<1>3. \A k \in Keys : AskedFor(k)' = AskedFor(k)
    BY <1>1, SameAsked
<1> QED  BY <1>1, <1>2, <1>3 DEF OrphansAreAll

\* Whatever happens to the GitOpsCluster in hand, no other step of it is taken now.
LEMMA NextOneOrphans ==
    ASSUME TypeOK, OrphansAreAll, NEW p \in {"failed", "successful"}, SetPhaseAndNext(p),
           UNCHANGED <<world, copies>>, unnoticed => unnoticed'
    PROVE  OrphansAreAll'
<1>1. CASE ComeBack
    BY <1>1, ComeBackOrphans
<1>2. CASE SetPhase(p) /\ NextOne /\ UNCHANGED wanted
    <2>1. /\ work'.pc = "next" /\ work'.orphans = work.orphans /\ work'.trouble = work.trouble
        BY <1>2 DEF NextOne, TypeOK, Work
    <2>2. UNCHANGED crs /\ \A g \in GitOpsClusters : news[g] = "change" <=> news'[g] = "change"
        BY <1>2, PhaseKeepsNews
    <2>3. Undisturbed' => Undisturbed
        BY <1>2, <2>2 DEF Undisturbed, Told, copies
    <2> QED  BY <2>1, <2>2, <2>3, GoOnOrphans
<1> QED  BY <1>1, <1>2 DEF SetPhaseAndNext

\* Without clusters, nothing is left to copy.
LEMMA NoClustersOrphans ==
    ASSUME TypeOK, OrphansAreAll, NoClusters, work.pc = "clusters",
           UNCHANGED <<world, copies>>, unnoticed => unnoticed'
    PROVE  OrphansAreAll'
<1>1. CASE ComeBack
    BY <1>1, ComeBackOrphans
<1>2. CASE SetPhase("failed") /\ Goto("copy") /\ UNCHANGED wanted
    <2>1. /\ work'.pc = "copy" /\ work'.list = work.list
          /\ work'.orphans = work.orphans /\ work'.trouble = work.trouble
        BY <1>2 DEF Goto, TypeOK, Work
    <2>2. UNCHANGED crs /\ \A g \in GitOpsClusters : news[g] = "change" <=> news'[g] = "change"
        BY <1>2, PhaseKeepsNews
    <2>3. Undisturbed' => Undisturbed
        BY <1>2, <2>2 DEF Undisturbed, Told, copies
    <2>4. Undisturbed' => work'.list = {}
        BY <2>1, <2>3 DEF OrphansAreAll
    <2> QED  BY <2>1, <2>2, <2>3, <2>4, GoOnOrphans
<1> QED  BY <1>1, <1>2 DEF NoClusters

\* What is copied, be it unknown to the worker, was asked for.
LEMMA CopyRoundOrphans ==
    ASSUME TypeOK, OrphansAreAll, NEW c \in Clusters, CopySecret(c) \/ CopyFails(c)
    PROVE  OrphansAreAll'
<1>. DEFINE k == <<work.inst.argo, c>>
<1>1. /\ work.pc = "copy" /\ c \in work.list /\ work \in Work /\ work.g \in GitOpsClusters
      /\ work.inst.argo \in Argos /\ k \in Keys /\ k[2] = c
      /\ UNCHANGED <<users, crs, present, placed, argoUp>>
      /\ UNCHANGED <<secretCache, gone, missed, wanted, unnoticed>>
    <2>1. work.pc = "copy" /\ c \in work.list
        BY DEF CopySecret, CopyFails
    <2>2. /\ work \in Work /\ work.g \in GitOpsClusters /\ work.inst.argo \in Argos
          /\ k \in Keys /\ k[2] = c
        BY <2>1 DEF TypeOK, InHand, SpecRecord, Keys
    <2>3. UNCHANGED <<users, world, secretCache, gone, missed, wanted, unnoticed>>
        BY DEF CopySecret, CopyFails, notice
    <2> QED  BY <2>1, <2>2, <2>3 DEF users, world
<1>2. SUFFICES ASSUME Undisturbed PROVE OrphansAreAll'
    BY <1>1 DEF OrphansAreAll, Undisturbed, Told, users
<1>3. /\ work'.pc = "copy" /\ work'.g = work.g /\ work'.inst = work.inst
      /\ work'.trouble = work.trouble /\ work'.list = work.list \ {c}
    BY <1>1 DEF CopySecret, CopyFails, Copied, NotCopied, Work
<1>4. k \in Asked(work.g)
    BY <1>1, <1>2 DEF OrphansAreAll
<1>5. \A g \in GitOpsClusters : Asked(g)' = Asked(g)
    BY <1>1, SameAsked
<1>6. \A o \in Keys : AskedFor(o)' = AskedFor(o)
    BY <1>1, SameAsked
<1>7. AskedFor(k)
    BY <1>1, <1>4 DEF AskedFor
<1>8. \A g \in GitOpsClusters : work'.pc = "copy" /\ work'.g = g =>
          {work'.inst.argo} \X work'.list \subseteq Asked(g)'
    <2>1. {work.inst.argo} \X work.list \subseteq Asked(work.g)
        BY <1>1, <1>2 DEF OrphansAreAll
    <2>2. {work.inst.argo} \X (work.list \ {c}) \subseteq Asked(work.g)
        BY <2>1
    <2> QED  BY <1>1, <1>3, <1>5, <2>2
<1>9. /\ work'.orphans = work.orphans \/ work'.orphans = work.orphans \ {k}
      /\ \A o \in Keys : o # k => secrets'[o] = secrets[o]
    <2>1. secrets' = [secrets EXCEPT ![k] = source[c]] \/ UNCHANGED secrets
        BY DEF CopySecret, CopyFails
    <2>2. work'.orphans = work.orphans \ {k} \/ work'.orphans = work.orphans
        <3>1. work' = Copied(k) \/ work' = NotCopied(k)
            BY DEF CopySecret, CopyFails
        <3> QED  BY <1>1, <3>1 DEF Copied, NotCopied, Work
    <2> QED  BY <2>1, <2>2 DEF TypeOK
<1>. HIDE DEF k
<1>10. \A o \in Keys : secrets'[o] # Nil =>
           o \in work'.orphans \/ work'.trouble \/ o \in missed' \/ AskedFor(o)'
    BY <1>1, <1>2, <1>3, <1>6, <1>7, <1>9 DEF OrphansAreAll
<1>11. \A o \in work'.orphans : secretCache'[o] # Nil
    BY <1>1, <1>2, <1>9 DEF OrphansAreAll
<1> QED  BY <1>3, <1>8, <1>10, <1>11 DEF OrphansAreAll

LEMMA ReconcileOrphans ==
    /\ TypeOK /\ CacheIsCurrent /\ ServedSoFar /\ OrphansAreAll /\ DeletionsAreNews
    /\ Reconcile
    => OrphansAreAll'
<1> SUFFICES ASSUME TypeOK, CacheIsCurrent, ServedSoFar, OrphansAreAll, DeletionsAreNews,
                    Reconcile
             PROVE  OrphansAreAll'
    OBVIOUS
<1>. work \in Work
    BY DEF TypeOK
<1>1. CASE ListCopies
    <2>1. work'.pc = "crs" /\ work'.orphans = {k \in Keys : secretCache[k] # Nil}
        BY <1>1 DEF ListCopies, Work
    <2>2. /\ missed' = {k \in Keys : secretCache[k] = Nil /\ secrets[k] # Nil}
          /\ UNCHANGED <<secrets, secretCache>>
        BY <1>1 DEF ListCopies
    <2> QED  BY <2>1, <2>2 DEF OrphansAreAll
<1>2. CASE ListCRs
    <2>1. /\ work'.pc = "next" /\ work'.orphans = work.orphans /\ work'.trouble = work.trouble
        BY <1>2 DEF ListCRs, Work
    <2>2. Undisturbed' => Undisturbed
        BY <1>2 DEF ListCRs, Undisturbed, Told, users, copies, notice
    <2> QED  BY <1>2, <2>1, <2>2, GoOnOrphans DEF ListCRs, users
<1>3. ASSUME NEW g \in GitOpsClusters, NextCR(g) PROVE OrphansAreAll'
    <2>1. /\ work'.orphans = work.orphans /\ work'.trouble = work.trouble
          /\ \/ work'.pc = "next"
             \/ work'.pc = "verify" /\ work'.list = {}
        BY <1>3 DEF NextCR, Work
    <2>2. Undisturbed' => Undisturbed
        BY <1>3 DEF NextCR, Undisturbed, Told, users, copies, notice
    <2> QED  BY <1>3, <2>1, <2>2, GoOnOrphans DEF NextCR, users
<1>4. CASE VerifyArgo
    <2>1. CASE Verified
        <3>1. /\ work.pc = "verify" /\ work'.pc = "clusters" /\ work'.list = work.list
              /\ work'.inst = work.inst
              /\ work'.orphans = work.orphans /\ work'.trouble = work.trouble
            BY <1>4, <2>1 DEF VerifyArgo, Goto, Work
        <3>2. Undisturbed' => Undisturbed
            BY <1>4, <2>1 DEF VerifyArgo, Undisturbed, Told, users, copies, notice
        <3>3. Verified'
            BY <1>4, <2>1, <3>1 DEF VerifyArgo, Verified, world
        <3>4. Undisturbed' => work'.list = {}
            BY <3>1, <3>2 DEF OrphansAreAll
        <3> QED  BY <1>4, <2>1, <3>1, <3>2, <3>3, <3>4, GoOnOrphans DEF VerifyArgo, users
    <2>2. CASE ~Verified
        BY <1>4, <2>2, NextOneOrphans DEF VerifyArgo, notice
    <2> QED  BY <2>1, <2>2
<1>5. CASE GetManagedClusters
    <2>1. CASE Readable(work.inst.placement)
        <3>1. /\ work.pc = "clusters" /\ work'.pc = "copy" /\ work'.inst = work.inst
              /\ work'.g = work.g /\ work'.list = placed[work.inst.placement]
              /\ work'.orphans = work.orphans /\ work'.trouble = work.trouble
            BY <1>5, <2>1 DEF GetManagedClusters, Work
        <3>2. Undisturbed' => Undisturbed
            BY <1>5, <2>1 DEF GetManagedClusters, Undisturbed, Told, users, copies, notice
        <3>3. work.g \in GitOpsClusters /\ work.inst \in SpecRecord
            BY <3>1 DEF TypeOK, InHand
        <3>4. Undisturbed => work.inst = crs[work.g] /\ Verified
            BY <3>1 DEF ServedSoFar, OrphansAreAll, InHand
        <3>5. Undisturbed => {work.inst.argo} \X placed[work.inst.placement] \subseteq Asked(work.g)
            BY <2>1, <3>3, <3>4, InputsAssumption DEF Asked, Verified
        <3> QED  BY <1>5, <2>1, <3>1, <3>2, <3>5, GoOnOrphans DEF GetManagedClusters, users
    <2>2. CASE ~Readable(work.inst.placement)
        BY <1>5, <2>2, NoClustersOrphans DEF GetManagedClusters, notice
    <2> QED  BY <2>1, <2>2
<1>6. ASSUME NEW c \in Clusters, CopySecret(c) PROVE OrphansAreAll'
    BY <1>6, CopyRoundOrphans
<1>7. CASE FinishCR
    <2>1. CASE work.failed
        BY <1>7, <2>1, ComeBackOrphans DEF FinishCR
    <2>2. CASE ~work.failed
        BY <1>7, <2>2, NextOneOrphans DEF FinishCR, notice
    <2> QED  BY <2>1, <2>2
<1>8. CASE StartCleanup
    <2>1. /\ work'.pc = "cleanup" /\ work'.orphans = work.orphans
          /\ work'.trouble = work.trouble
        BY <1>8 DEF StartCleanup, Goto, Work
    <2>2. Undisturbed' => Undisturbed
        BY <1>8 DEF StartCleanup, Undisturbed, Told, users, copies, notice
    <2> QED  BY <1>8, <2>1, <2>2, GoOnOrphans DEF StartCleanup, users
<1>9. ASSUME NEW k \in Keys, DeleteOrphan(k) PROVE OrphansAreAll'
    <2>1. ~Undisturbed'
        <3>1. CASE gone' = gone \cup {k}
            BY <3>1 DEF Undisturbed, Told
        <3>2. CASE gone' = gone /\ (secretCache[k] = Nil \/ secrets[k] = Nil)
            <4> SUFFICES ASSUME Undisturbed' PROVE FALSE
                OBVIOUS
            <4>1. Undisturbed
                BY <1>9, <3>2 DEF DeleteOrphan, Undisturbed, Told, users, notice
            <4>2. secretCache[k] # Nil
                BY <1>9, <4>1 DEF DeleteOrphan, OrphansAreAll
            <4> QED  BY <3>2, <4>1, <4>2 DEF DeletionsAreNews, Undisturbed, Told
        <3> QED  BY <1>9, <3>1, <3>2 DEF DeleteOrphan
    <2> QED  BY <2>1, DisturbingOrphans
<1>10. CASE Finish
    <2>1. CASE work.trouble
        BY <1>10, <2>1, ComeBackOrphans DEF Finish
    <2>2. CASE ~work.trouble
        <3>1. /\ work.orphans = {} /\ work'.orphans = {} /\ ~work'.trouble /\ work'.pc = "idle"
              /\ UNCHANGED <<users, world, copies, wanted, unnoticed>>
            BY <1>10, <2>2 DEF Finish, Return, Idle, notice
        <3>2. Undisturbed' => Undisturbed
            BY <3>1 DEF Undisturbed, Told, users, copies
        <3>3. UNCHANGED <<crs, present, placed, argoUp, secrets, missed>>
            BY <3>1 DEF users, world, copies
        <3>4. \A k \in Keys : AskedFor(k)' = AskedFor(k)
            BY <3>3, SameAsked
        <3> QED  BY <2>2, <3>1, <3>2, <3>3, <3>4 DEF OrphansAreAll
    <2> QED  BY <2>1, <2>2
<1> QED
    BY <1>1, <1>2, <1>3, <1>4, <1>5, <1>6, <1>7, <1>8, <1>9, <1>10 DEF Reconcile

LEMMA FailingOrphans == TypeOK /\ OrphansAreAll /\ Failing => OrphansAreAll'
<1> SUFFICES ASSUME TypeOK, OrphansAreAll, Failing PROVE OrphansAreAll'
    OBVIOUS
<1>. work \in Work
    BY DEF TypeOK
<1>1. CASE unnoticed' \/ wanted'
    BY <1>1, DisturbingOrphans DEF Undisturbed, Told
<1>2. ASSUME NEW c \in Clusters, CopyFails(c) PROVE OrphansAreAll'
    BY <1>2, CopyRoundOrphans
<1>3. ASSUME NEW k \in Keys, DeleteFails(k) PROVE OrphansAreAll'
    <2>1. CASE gone' = gone \cup {k}
        BY <2>1, DisturbingOrphans DEF Undisturbed, Told
    <2>2. CASE UNCHANGED <<secrets, gone>>
        <3>1. /\ work'.pc = "cleanup" /\ work'.trouble /\ work'.orphans \subseteq work.orphans
              /\ UNCHANGED secretCache
            BY <1>3 DEF DeleteFails, Work
        <3>2. Undisturbed' => Undisturbed
            BY <1>3, <2>2 DEF DeleteFails, Undisturbed, Told, users
        <3> QED  BY <3>1, <3>2 DEF OrphansAreAll
    <2> QED  BY <1>3, <2>1, <2>2 DEF DeleteFails
<1> QED
    BY <1>1, <1>2, <1>3
    DEF Failing, ListFails, VerifyFails, GetManagedClustersFails, UpdateFails, SkipOrphan, ComeBack

-----------------------------------------------------------------------------
(* What is claimed.                                                         *)

LEMMA WorkAsideClaims ==
    ASSUME ListIsClaimed, \/ UNCHANGED work
                          \/ work'.pc \notin InHand
                          \/ /\ work'.pc = work.pc /\ work'.inst = work.inst
                             /\ work'.list \subseteq work.list /\ work'.claims = work.claims
    PROVE  ListIsClaimed'
<1>1. CASE UNCHANGED work
    BY <1>1 DEF ListIsClaimed
<1>2. CASE work'.pc \notin InHand
    BY <1>2 DEF ListIsClaimed, InHand
<1>3. CASE /\ work'.pc = work.pc /\ work'.inst = work.inst
           /\ work'.list \subseteq work.list /\ work'.claims = work.claims
    <2>1. {work'.inst.argo} \X work'.list \subseteq {work.inst.argo} \X work.list
        BY <1>3
    <2>2. work.list = {} => work'.list = {}
        BY <1>3
    <2> QED  BY <1>3, <2>1, <2>2 DEF ListIsClaimed
<1> QED  BY <1>1, <1>2, <1>3

LEMMA ReconcileClaims == TypeOK /\ ListIsClaimed /\ Reconcile => ListIsClaimed'
<1> SUFFICES ASSUME TypeOK, ListIsClaimed, Reconcile PROVE ListIsClaimed'
    OBVIOUS
<1>. work \in Work /\ Idle.pc \notin InHand
    BY IdleIsNoCleanup DEF TypeOK, InHand
<1>1. CASE ListCopies \/ ListCRs \/ StartCleanup \/ Finish
    <2>1. work'.pc \notin InHand
        BY <1>1 DEF ListCopies, ListCRs, StartCleanup, Finish, Goto, ComeBack, Return, 
                    InHand, Work
    <2> QED  BY <2>1, WorkAsideClaims
<1>2. ASSUME NEW g \in GitOpsClusters, NextCR(g) PROVE ListIsClaimed'
    BY <1>2 DEF NextCR, ListIsClaimed, Work
<1>3. CASE VerifyArgo
    <2>1. CASE Verified
        BY <1>3, <2>1 DEF VerifyArgo, Goto, ListIsClaimed, Work
    <2>2. CASE ~Verified
        <3>1. work'.pc \notin InHand
            BY <1>3, <2>2 DEF VerifyArgo, SetPhaseAndNext, NextOne, ComeBack, InHand, Work
        <3> QED  BY <3>1, WorkAsideClaims
    <2> QED  BY <2>1, <2>2
<1>4. CASE GetManagedClusters
    <2>1. CASE Readable(work.inst.placement)
        <3>. DEFINE asked == {work.inst.argo} \X placed[work.inst.placement]
        <3>1. work' = [work EXCEPT !.pc = "copy", !.list = placed[work.inst.placement],
                                   !.claims = @ \cup asked]
            BY <1>4, <2>1 DEF GetManagedClusters
        <3>. HIDE DEF asked
        <3>2. /\ work'.pc = "copy" /\ work'.inst = work.inst
              /\ work'.list = placed[work.inst.placement]
            BY <3>1 DEF Work
        <3>3. asked \subseteq work'.claims
            BY <3>1 DEF Work
        <3> QED  BY <3>2, <3>3 DEF ListIsClaimed, asked
    <2>2. CASE NoClusters
        BY <1>4, <2>2 DEF GetManagedClusters, NoClusters, Goto, ComeBack, ListIsClaimed, InHand,
                         Work
    <2> QED  BY <1>4, <2>1, <2>2 DEF GetManagedClusters
<1>5. ASSUME NEW c \in Clusters, CopySecret(c) PROVE ListIsClaimed'
    <2>. DEFINE k == <<work.inst.argo, c>>
    <2>1. work' = Copied(k) \/ work' = NotCopied(k)
        BY <1>5 DEF CopySecret
    <2>. HIDE DEF k
    <2>2. /\ work'.pc = work.pc /\ work'.inst = work.inst
          /\ work'.list \subseteq work.list /\ work'.claims = work.claims
        <3>1. CASE work' = Copied(k)
            BY <3>1 DEF Copied, Work
        <3>2. CASE work' = NotCopied(k)
            BY <3>2 DEF NotCopied, Work
        <3> QED  BY <2>1, <3>1, <3>2
    <2> QED  BY <2>2, WorkAsideClaims
<1>6. CASE FinishCR
    <2>1. work'.pc \notin InHand
        BY <1>6 DEF FinishCR, SetPhaseAndNext, NextOne, ComeBack, InHand, Work
    <2> QED  BY <2>1, WorkAsideClaims
<1>7. ASSUME NEW k \in Keys, DeleteOrphan(k) PROVE ListIsClaimed'
    <2>1. work'.pc \notin InHand
        BY <1>7 DEF DeleteOrphan, InHand, Work
    <2> QED  BY <2>1, WorkAsideClaims
<1> QED  BY <1>1, <1>2, <1>3, <1>4, <1>5, <1>6, <1>7 DEF Reconcile

LEMMA OthersClaims ==
    TypeOK /\ ListIsClaimed /\ (Environment \/ Watches \/ Failing \/ UNCHANGED vars)
    => ListIsClaimed'
<1> SUFFICES ASSUME TypeOK, ListIsClaimed, Environment \/ Watches \/ Failing \/ UNCHANGED vars
             PROVE  ListIsClaimed'
    OBVIOUS
<1>. work \in Work /\ Idle.pc \notin InHand
    BY IdleIsNoCleanup DEF TypeOK, InHand
<1>1. CASE Environment \/ Watches
    <2>1. \/ UNCHANGED work
          \/ work'.pc \notin InHand
          \/ /\ work'.pc = work.pc /\ work'.inst = work.inst
             /\ work'.list \subseteq work.list /\ work'.claims = work.claims
        BY <1>1 DEF Environment, Watches, SetCR, SetPlaced, MapDecisionFails, Decide,
                    MovePlacement, SetSource, Resync, MoveArgo, LoseCopy, Restart, SyncCR,
                    SyncCopy, InHand, Work
    <2> QED  BY <2>1, WorkAsideClaims
<1>2. CASE GetManagedClustersFails /\ work'.pc \in InHand
    BY <1>2 DEF GetManagedClustersFails, NoClusters, Goto, ComeBack, ListIsClaimed, InHand,
                Work
<1>3. CASE Failing /\ ~(GetManagedClustersFails /\ work'.pc \in InHand)
    <2>1. ASSUME NEW c \in Clusters, CopyFails(c) PROVE ListIsClaimed'
        <3>. DEFINE k == <<work.inst.argo, c>>
        <3>1. work' = NotCopied(k)
            BY <2>1 DEF CopyFails
        <3>. HIDE DEF k
        <3>2. /\ work'.pc = work.pc /\ work'.inst = work.inst
              /\ work'.list \subseteq work.list /\ work'.claims = work.claims
            BY <3>1 DEF NotCopied, Work
        <3> QED  BY <3>2, WorkAsideClaims
    <2>2. ASSUME NEW k \in Keys, DeleteFails(k) PROVE ListIsClaimed'
        <3>1. work'.pc \notin InHand
            BY <2>2 DEF DeleteFails, InHand, Work
        <3> QED  BY <3>1, WorkAsideClaims
    <2>5. ASSUME NEW k \in Keys, SkipOrphan(k) PROVE ListIsClaimed'
        <3>1. work'.pc \notin InHand
            BY <2>5 DEF SkipOrphan, InHand, Work
        <3> QED  BY <3>1, WorkAsideClaims
    <2>3. CASE ListFails \/ VerifyFails \/ UpdateFails
        <3>1. UNCHANGED work \/ work'.pc \notin InHand
            BY <2>3 DEF ListFails, VerifyFails, UpdateFails, SetPhaseAndNext, NextOne, Return,
                        ComeBack, InHand, Work
        <3> QED  BY <3>1, WorkAsideClaims
    <2>4. CASE GetManagedClustersFails /\ work'.pc \notin InHand
        BY <2>4, WorkAsideClaims
    <2> QED  BY <1>3, <2>1, <2>2, <2>3, <2>4, <2>5 DEF Failing
<1>4. CASE UNCHANGED vars
    BY <1>4 DEF vars, ListIsClaimed
<1> QED  BY <1>1, <1>2, <1>3, <1>4

-----------------------------------------------------------------------------
\* The inductive invariant: types, orphans that nobody asked for, a cache that lacks
\* only what is on its way, GitOpsClusters served so far, copies accounted for.
THEOREM Invariance == Spec => []Inv
<1>1. Init => OrphansAreAll /\ DeletionsAreNews
    BY DEF Init, OrphansAreAll, DeletionsAreNews, Undisturbed, Told
<1>2. /\ TypeOK /\ CacheIsCurrent /\ ServedSoFar /\ OrphansAreAll /\ DeletionsAreNews
      /\ [Next]_vars
      => OrphansAreAll' /\ DeletionsAreNews'
    <2> SUFFICES ASSUME TypeOK, CacheIsCurrent, ServedSoFar, OrphansAreAll, DeletionsAreNews,
                        [Next]_vars
                 PROVE  OrphansAreAll'
        BY DeletionsStayNews
    <2>1. CASE UNCHANGED vars
        <3>1. Undisturbed' => Undisturbed
            BY <2>1 DEF vars, Undisturbed, Told
        <3> QED  BY <2>1, <3>1, AsideOrphans, SameAsked DEF vars
    <2>2. CASE Next
        BY <2>1, <2>2, EnvironmentOrphans, WatchesOrphans, ReconcileOrphans, FailingOrphans
        DEF Next, Quiet
    <2> QED  BY <2>1, <2>2
<1>3. Orderly => TypeOK
    BY DEF Orderly
<1>4. Init => ListIsClaimed
    BY DEF Init, Idle, ListIsClaimed
<1>5. TypeOK /\ ListIsClaimed /\ [Next]_vars => ListIsClaimed'
    BY ReconcileClaims, OthersClaims DEF Next, Quiet
<1> QED  BY <1>1, <1>2, <1>3, <1>4, <1>5, ServedInvariant, PTL DEF Spec, Inv

\* When no request is waiting, all copies are asked for, but those missing from the last
\* Reconcile's list.
THEOREM NoLeftOvers == Spec => []NothingLeftOver
<1>1. Inv => NothingLeftOver
    BY DEF Inv, Orderly, TypeOK, OrphansAreAll, NothingLeftOver, Settled, Undisturbed, Told
<1> QED  BY <1>1, Invariance, PTL

-----------------------------------------------------------------------------
(* The controller implements CopyKeeper.                                    *)

LEMMA SameRequests ==
    /\ Keeper!Keys = Keys /\ Keeper!SpecRecord = SpecRecord
    /\ \A old, new : Keeper!OnlyAnnotated(old, new) <=> OnlyAnnotated(old, new)
    /\ \A g : Keeper!Asked(g) = Asked(g)
    /\ \A k : Keeper!AskedFor(k) <=> AskedFor(k)
    /\ Keeper!Provided <=> Provided
    /\ Keeper!Existing = {k \in Keys : secrets[k] # Nil}
<1>1. /\ Keeper!Keys = Keys /\ Keeper!SpecRecord = SpecRecord
      /\ \A old, new : Keeper!OnlyAnnotated(old, new) <=> OnlyAnnotated(old, new)
    BY DEF Keeper!Keys, Keys, Keeper!SpecRecord, SpecRecord, Keeper!OnlyAnnotated, OnlyAnnotated
<1>2. \A g : Keeper!Asked(g) = Asked(g)
    BY DEF Keeper!Asked, Asked, Keeper!Readable, Readable
<1>3. \A g : Keeper!Served(g) <=> Served(g)
    BY <1>2 DEF Keeper!Served, Served
<1> QED
    BY <1>1, <1>2, <1>3
    DEF Keeper!AskedFor, AskedFor, Keeper!Provided, Provided, Keeper!Existing

LEMMA KeptByInv == Inv => Keeper!Kept
<1> SUFFICES ASSUME Inv, work.pc = "idle", Undisturbed PROVE Keeper!Kept
    BY DEF Inv, Orderly, TypeOK, Work, Keeper!Kept, Busy, Undisturbed
<1>1. Provided
    BY DEF Inv, ServedSoFar
<1>2. \A k \in Keys : secrets[k] # Nil => k \in missed \/ AskedFor(k)
    BY DEF Inv, OrphansAreAll
<1> QED  BY <1>1, <1>2, SameRequests DEF Keeper!Kept

LEMMA KeptByInvNext == (Inv => Keeper!Kept)'
<1> QED  BY KeptByInv, PTL

\* A step that CopyKeeper allows.
Allowed == [Keeper!Next]_(Keeper!vars)

\* What CopyKeeper does not see.
LEMMA Unseen ==
    ASSUME UNCHANGED <<crs, present, placed, source, argoUp, secrets, missed, unnoticed>>,
           Busy <=> Busy', Told <=> Told', work'.claims = work.claims
    PROVE  Allowed
<1> QED  BY DEF Allowed, Keeper!vars, Keeper!world, Keeper!passes, Busy, Told

LEMMA Annotated ==
    ASSUME NEW old \in SpecRecord \cup {Nil}, NEW new \in SpecRecord \cup {Nil},
           OnlyAnnotated(old, new)
    PROVE  /\ old # Nil /\ new # Nil
           /\ old.argo = new.argo /\ old.placement = new.placement
<1>1. old \in SpecRecord /\ new \in SpecRecord /\ old = [new EXCEPT !.skip = old.skip]
    BY DEF OnlyAnnotated
<1>2. old.argo = new.argo /\ old.placement = new.placement
    BY <1>1 DEF SpecRecord
<1> QED  BY <1>2 DEF OnlyAnnotated

LEMMA SetCRAllowed ==
    ASSUME Inv, NEW g \in GitOpsClusters, NEW spec \in SpecsOf[g] \cup {Nil}, SetCR(g, spec)
    PROVE  Allowed
<1>1. TypeOK /\ spec \in SpecRecord \cup {Nil} /\ crs[g] \in SpecRecord \cup {Nil}
      /\ spec # crs[g] /\ crs'[g] = spec
    BY InputsAssumption DEF Inv, Orderly, TypeOK, SetCR
<1>2. /\ crs' = [crs EXCEPT ![g] = crs'[g]]
      /\ UNCHANGED <<present, placed, source, argoUp, secrets, missed, gone, wanted>>
      /\ \A h \in GitOpsClusters : h # g => news'[h] = news[h]
    BY <1>1 DEF SetCR, world, copies, TypeOK
<1>3. (Busy <=> Busy') /\ work'.claims = work.claims
    BY <1>1 DEF SetCR, Busy, TypeOK, Work
<1>4. CASE OnlyAnnotated(crs[g], spec)
    <2>1. ~GitOpsClusterPredicate(crs[g], spec)
        BY <1>1, <1>4, Annotated DEF GitOpsClusterPredicate
    <2>2. news'[g] = "change" <=> news[g] = "change"
        BY <1>1, <2>1 DEF SetCR, TypeOK
    <2>3. Told <=> Told'
        BY <1>2, <2>2 DEF Told
    <2>4. unnoticed'
        BY <1>4 DEF SetCR
    <2>5. Keeper!SpecChanges(g)
        BY <1>1, <1>2, <1>3, <1>4, <2>3, <2>4, SameRequests
        DEF Keeper!SpecChanges, Keeper!world, Busy, Told, TypeOK
    <2> QED  BY <2>5 DEF Allowed, Keeper!Next
<1>5. CASE ~OnlyAnnotated(crs[g], spec)
    <2>1. GitOpsClusterPredicate(crs[g], spec)
        BY <1>1, <1>5, HeldBackIsAnnotation
    <2>2. news'[g] = "change"
        BY <1>1, <2>1 DEF SetCR, TypeOK
    <2>3. Told'
        BY <2>2 DEF Told
    <2>4. unnoticed' = unnoticed
        BY <1>1, <1>5 DEF SetCR, TypeOK
    <2>5. Keeper!SpecChanges(g)
        BY <1>1, <1>2, <1>3, <1>5, <2>3, <2>4, SameRequests
        DEF Keeper!SpecChanges, Keeper!world, Busy
    <2> QED  BY <2>5 DEF Allowed, Keeper!Next
<1> QED  BY <1>4, <1>5

LEMMA SetPlacedAllowed ==
    ASSUME Inv, NEW p \in Placements, NEW chosen \in (SUBSET Clusters) \cup {Nil},
           SetPlaced(p, chosen)
    PROVE  Allowed
<1>1. /\ placed' = [placed EXCEPT ![p] = placed'[p]] /\ placed'[p] = chosen
      /\ UNCHANGED <<crs, news, present, source, argoUp, secrets, missed, gone, unnoticed, work>>
      /\ wanted' <=> wanted \/ \E g \in GitOpsClusters :
                                   crCache[g] # Nil /\ crCache[g].placement = p
    BY DEF SetPlaced, Decide, MapDecision, Inv, Orderly, TypeOK, users, copies
<1>2. ASSUME ~Told, NEW g \in GitOpsClusters
      PROVE  (crCache[g] # Nil /\ crCache[g].placement = p)
             <=> (crs[g] # Nil /\ crs[g].placement = p)
    <2>1. crCache[g] = crs[g] \/ OnlyAnnotated(crCache[g], crs[g])
        BY <1>2 DEF Inv, CacheIsCurrent, Told
    <2>2. crCache[g] \in SpecRecord \cup {Nil} /\ crs[g] \in SpecRecord \cup {Nil}
        BY DEF Inv, Orderly, TypeOK
    <2> QED  BY <2>1, <2>2, Annotated
<1>3. Told' <=> Told \/ \E g \in GitOpsClusters : crs[g] # Nil /\ crs[g].placement = p
    BY <1>1, <1>2 DEF Told
<1>4. Told' = (Told \/ \E g \in GitOpsClusters : crs[g] # Nil /\ crs[g].placement = p)
    BY <1>3 DEF Told
<1>5. Keeper!DecisionsChange(p)
    BY <1>1, <1>4 DEF Keeper!DecisionsChange, Busy
<1> QED  BY <1>5 DEF Allowed, Keeper!Next

LEMMA MapDecisionFailsAllowed ==
    ASSUME Inv, NEW p \in Placements, NEW chosen \in (SUBSET Clusters) \cup {Nil},
           MapDecisionFails(p, chosen)
    PROVE  Allowed
<1>1. /\ placed' = [placed EXCEPT ![p] = placed'[p]] /\ placed'[p] = chosen /\ unnoticed'
      /\ UNCHANGED <<crs, news, present, source, argoUp, secrets, missed, gone, wanted, work>>
    BY DEF MapDecisionFails, Decide, Inv, Orderly, TypeOK, users, copies
<1>2. Keeper!DecisionsChange(p)
    BY <1>1 DEF Keeper!DecisionsChange, Busy, Told
<1> QED  BY <1>2 DEF Allowed, Keeper!Next

LEMMA EnvironmentAllowed == Inv /\ Environment => Allowed
<1> SUFFICES ASSUME Inv, Environment PROVE Allowed
    OBVIOUS
<1>. TypeOK
    BY DEF Inv, Orderly
<1>1. ASSUME NEW c \in Clusters, NEW new \in Versions \cup {Nil}, SetSource(c, new)
      PROVE  Allowed
    <2>1. /\ source' = [source EXCEPT ![c] = source'[c]] /\ source'[c] = new
          /\ UNCHANGED <<crs, news, present, placed, argoUp, secrets, missed, gone, unnoticed, work>>
          /\ wanted' <=> wanted \/ new # Nil
        BY <1>1 DEF SetSource, ManagedClusterSecretPredicate, TypeOK, users, copies
    <2>2. Told' <=> Told \/ source'[c] # Nil
        BY <2>1 DEF Told
    <2>3. Keeper!SourceChanges(c)
        BY <2>1, <2>2 DEF Keeper!SourceChanges, Busy, Told
    <2> QED  BY <2>3 DEF Allowed, Keeper!Next
<1>2. ASSUME NEW c \in Clusters, Resync(c) PROVE Allowed
    <2>1. Keeper!Remind
        BY <1>2 DEF Resync, Keeper!Remind, Keeper!world, world, users, copies, notice, Busy, Told
    <2> QED  BY <2>1 DEF Allowed, Keeper!Next
<1>3. ASSUME \/ \E a \in Argos : MoveArgo(a)
             \/ \E p \in Placements : MovePlacement(p)
      PROVE  Allowed
    <2>1. /\ argoUp' \subseteq Argos /\ present' \subseteq Placements /\ unnoticed'
          /\ UNCHANGED <<crs, news, placed, source, secrets, gone, missed, wanted, work>>
        <3>1. ASSUME NEW a \in Argos, MoveArgo(a) PROVE argoUp' \subseteq Argos /\ UNCHANGED present
            BY <3>1 DEF MoveArgo, TypeOK
        <3>2. ASSUME NEW p \in Placements, MovePlacement(p)
              PROVE  present' \subseteq Placements /\ UNCHANGED argoUp
            BY <3>2 DEF MovePlacement, TypeOK
        <3> QED  BY <1>3, <3>1, <3>2 DEF MoveArgo, MovePlacement, TypeOK, users, copies
    <2>2. Keeper!UnwatchedChange
        BY <2>1 DEF Keeper!UnwatchedChange, Keeper!passes, Busy, Told
    <2> QED  BY <2>2 DEF Allowed, Keeper!Next
<1>4. ASSUME NEW k \in Keys, LoseCopy(k) PROVE Allowed
    <2>1. Told'
        BY <1>4 DEF LoseCopy, Told
    <2>2. Keeper!CopyIsLost(k)
        BY <1>4, <2>1 DEF LoseCopy, Keeper!CopyIsLost, Keeper!world, world, users, Busy
    <2> QED  BY <2>2, SameRequests DEF Allowed, Keeper!Next
<1>5. CASE Restart
    <2>1. /\ UNCHANGED <<crs, present, placed, source, argoUp, secrets, unnoticed>>
          /\ ~Busy' /\ work'.claims = {} /\ missed' = {k \in Keys : secrets[k] # Nil}
        BY <1>5 DEF Restart, world, Busy, Idle
    <2>2. Told' <=> \/ \E g \in GitOpsClusters : crs[g] # Nil
                    \/ \E c \in Clusters : source[c] # Nil
        BY <1>5 DEF Restart, Told
    <2>3. Keeper!Restart
        BY <2>1, <2>2, SameRequests DEF Keeper!Restart, Keeper!world, Busy, Told
    <2> QED  BY <2>3 DEF Allowed, Keeper!Next
<1> QED
    BY <1>1, <1>2, <1>3, <1>4, <1>5, SetCRAllowed, SetPlacedAllowed, MapDecisionFailsAllowed
    DEF Environment

LEMMA WatchesAllowed == Inv /\ Watches => Allowed
<1> SUFFICES ASSUME Inv, Watches PROVE Allowed
    OBVIOUS
<1>. TypeOK
    BY DEF Inv, Orderly
<1>1. ASSUME NEW g \in GitOpsClusters, SyncCR(g) PROVE Allowed
    <2>1. UNCHANGED <<crs, present, placed, source, argoUp, secrets, missed, gone, unnoticed, work>>
        BY <1>1 DEF SyncCR, world, copies, notice
    <2>2. Told <=> Told'
        BY <1>1, <2>1 DEF SyncCR, Told, TypeOK
    <2> QED  BY <2>1, <2>2, Unseen DEF Busy
<1>2. ASSUME NEW k \in Keys, SyncCopy(k) PROVE Allowed
    <2>1. UNCHANGED <<crs, news, present, placed, source, argoUp, secrets, missed, unnoticed, work>>
        BY <1>2 DEF SyncCopy, world, users, notice
    <2>2. Told <=> Told'
        <3>1. CASE k \in gone
            BY <1>2, <3>1 DEF SyncCopy, Told
        <3>2. CASE k \notin gone
            BY <1>2, <2>1, <3>2 DEF SyncCopy, Told
        <3> QED  BY <3>1, <3>2
    <2> QED  BY <2>1, <2>2, Unseen DEF Busy
<1> QED  BY <1>1, <1>2 DEF Watches

\* A pass that ends, or is given up, may: the invariant says the controller may rest.
LEMMA Ends ==
    ASSUME TypeOK, Inv', Busy, work' = Idle,
           UNCHANGED <<crs, present, placed, source, argoUp, secrets, missed>>,
           Told => Told', unnoticed => unnoticed'
    PROVE  Allowed
<1>1. Keeper!Kept'
    BY KeptByInvNext
<1>2. ~Busy' /\ work'.claims = {}
    BY DEF Busy, Idle
<1>3. Told' \in {Told, TRUE} /\ unnoticed' \in {unnoticed, TRUE}
    <2>1. unnoticed' \in {unnoticed, TRUE}
        BY DEF Inv, Orderly, TypeOK
    <2>2. Told' \in {Told, TRUE}
        <3>1. CASE Told
            BY <3>1 DEF Told
        <3>2. CASE ~Told
            BY <3>2 DEF Told
        <3> QED  BY <3>1, <3>2
    <2> QED  BY <2>1, <2>2
<1>4. Keeper!End
    BY <1>1, <1>2, <1>3 DEF Keeper!End, Keeper!world, Busy, Told
<1> QED  BY <1>4 DEF Allowed, Keeper!Next

LEMMA ComesBack ==
    ASSUME TypeOK, Inv', Busy, ComeBack,
           UNCHANGED <<crs, present, placed, source, argoUp, secrets, missed>>,
           unnoticed => unnoticed'
    PROVE  Allowed
<1> QED  BY Ends DEF ComeBack, Told

\* A step that goes on with the same claims, having written a status perhaps.
LEMMA GoesOn ==
    ASSUME TypeOK, UNCHANGED users \/ \E p \in {"failed", "successful"} : SetPhase(p),
           UNCHANGED <<present, placed, source, argoUp, secrets, gone, missed, wanted, unnoticed>>,
           Busy, Busy', work'.claims = work.claims
    PROVE  Allowed
<1>1. UNCHANGED crs /\ (Told <=> Told')
    BY PhaseKeepsNews DEF Told
<1> QED  BY <1>1, Unseen

\* The same when a read has failed.
LEMMA GoesOnUnnoticed ==
    ASSUME TypeOK, UNCHANGED users \/ \E p \in {"failed", "successful"} : SetPhase(p),
           UNCHANGED <<present, placed, source, argoUp, secrets, gone, missed, wanted>>, unnoticed',
           Busy, Busy', work'.claims = work.claims
    PROVE  Allowed
<1>1. UNCHANGED crs /\ (Told <=> Told')
    BY PhaseKeepsNews DEF Told
<1>2. Keeper!Swallow
    BY <1>1 DEF Keeper!Swallow, Keeper!world, Keeper!passes, Busy, Told
<1> QED  BY <1>2 DEF Allowed, Keeper!Next

\* What is claimed is asked for, unless something has interfered.
LEMMA ClaimAllowed ==
    ASSUME Inv, GetManagedClusters, Readable(work.inst.placement)
    PROVE  Allowed
<1>. DEFINE a == work.inst.argo
            p == work.inst.placement
<1>1. /\ TypeOK /\ work \in Work /\ work.pc = "clusters"
      /\ work.g \in GitOpsClusters /\ work.inst \in SpecRecord
    BY DEF Inv, Orderly, TypeOK, GetManagedClusters, InHand
<1>2. a \in Argos /\ p \in Placements /\ p \in present /\ placed[p] # Nil
    BY <1>1 DEF SpecRecord, Readable
<1>3. /\ UNCHANGED <<crs, news, present, placed, source, argoUp>>
      /\ UNCHANGED <<secrets, missed, gone, wanted, unnoticed>>
      /\ work'.claims = work.claims \cup ({a} \X placed[p])
      /\ Busy /\ Busy'
    BY <1>1 DEF GetManagedClusters, users, world, copies, notice, Busy, Work
<1>4. ASSUME Undisturbed PROVE {a} \X placed[p] = Asked(work.g)
    <2>1. work.inst = crs[work.g] /\ Verified
        BY <1>1, <1>4 DEF Inv, ServedSoFar, OrphansAreAll, InHand
    <2> QED  BY <1>1, <2>1, InputsAssumption DEF Asked, Verified
<1>5. Told <=> Told'
    BY <1>3 DEF Told
<1>. HIDE DEF a, p
<1>6. \/ Told \/ unnoticed
      \/ \E g \in GitOpsClusters : {a} \X placed[p] = Keeper!Asked(g)
    BY <1>1, <1>4, SameRequests DEF Undisturbed
<1>7. Keeper!Claim(a, p)
    BY <1>2, <1>3, <1>5, <1>6 DEF Keeper!Claim, Keeper!world, Busy, Told
<1> QED  BY <1>2, <1>7 DEF Allowed, Keeper!Next

LEMMA CopyAllowed ==
    ASSUME Inv, NEW c \in Clusters, CopySecret(c) \/ CopyFails(c)
    PROVE  Allowed
<1>. DEFINE k == <<work.inst.argo, c>>
<1>1. /\ TypeOK /\ work \in Work /\ work.pc = "copy" /\ c \in work.list
      /\ work.inst \in SpecRecord
    BY DEF Inv, Orderly, TypeOK, CopySecret, CopyFails, InHand
<1>2. k \in Keys /\ k[2] = c
    BY <1>1 DEF Keys, SpecRecord
<1>3. k \in work.claims
    BY <1>1 DEF Inv, ListIsClaimed
<1>4. /\ UNCHANGED <<users, crs, news, present, placed, source, argoUp>>
      /\ UNCHANGED <<missed, gone, wanted, unnoticed>>
      /\ work'.claims = work.claims
      /\ Busy /\ Busy'
    BY <1>1 DEF CopySecret, CopyFails, Copied, NotCopied, users, world, notice, Busy, Work
<1>5. CASE UNCHANGED secrets
    BY <1>1, <1>4, <1>5, GoesOn
<1>6. CASE source[c] # Nil /\ secrets' = [secrets EXCEPT ![k] = source[c]]
    <2>1. Told <=> Told'
        BY <1>4 DEF Told
    <2>. HIDE DEF k
    <2>2. Keeper!Copy(k)
        BY <1>2, <1>3, <1>4, <1>6, <2>1
        DEF Keeper!Copy, Keeper!world, Keeper!passes, Busy, Told
    <2> QED  BY <1>2, <2>2, SameRequests DEF Allowed, Keeper!Next
<1> QED  BY <1>5, <1>6 DEF CopySecret, CopyFails

LEMMA DeleteAllowed ==
    ASSUME Inv, NEW k \in Keys, DeleteOrphan(k) \/ DeleteFails(k)
    PROVE  Allowed
<1>1. TypeOK /\ work \in Work /\ work.pc = "cleanup" /\ k \in work.orphans
    BY DEF Inv, Orderly, TypeOK, DeleteOrphan, DeleteFails
<1>2. /\ UNCHANGED <<users, crs, news, present, placed, source, argoUp, missed, wanted, unnoticed>>
      /\ work'.claims = work.claims
      /\ Busy /\ Busy'
    BY <1>1 DEF DeleteOrphan, DeleteFails, users, world, notice, Busy, Work
<1>3. CASE UNCHANGED <<secrets, gone>>
    BY <1>1, <1>2, <1>3, GoesOn
<1>4. CASE secrets' = [secrets EXCEPT ![k] = Nil] /\ gone' = gone \cup {k}
    <2>1. k \notin work.claims
        BY <1>1 DEF Inv, Orderly, OrphansUnclaimed
    <2>2. Told'
        BY <1>4 DEF Told
    <2>3. Keeper!Delete(k)
        BY <1>2, <1>4, <2>1, <2>2 DEF Keeper!Delete, Keeper!world, Busy
    <2> QED  BY <2>3, SameRequests DEF Allowed, Keeper!Next
<1> QED  BY <1>3, <1>4 DEF DeleteOrphan, DeleteFails

\* What reconcileGitOpsCluster does next when it has written a status, or could not.
LEMMA WritesOrComesBack ==
    ASSUME Inv, Inv', Busy, UNCHANGED <<present, placed, source, argoUp, secrets, gone, missed>>,
           UNCHANGED unnoticed \/ unnoticed',
           \/ /\ UNCHANGED users \/ \E p \in {"failed", "successful"} : SetPhase(p)
              /\ Busy' /\ work'.claims = work.claims /\ UNCHANGED wanted
           \/ ComeBack /\ UNCHANGED crs
    PROVE  Allowed
<1>. TypeOK
    BY DEF Inv, Orderly
<1>1. CASE ComeBack /\ UNCHANGED crs
    BY <1>1, ComesBack DEF Inv, Orderly, TypeOK
<1>2. CASE /\ UNCHANGED users \/ \E p \in {"failed", "successful"} : SetPhase(p)
           /\ Busy' /\ work'.claims = work.claims /\ UNCHANGED wanted
    BY <1>2, GoesOn, GoesOnUnnoticed
<1> QED  BY <1>1, <1>2

LEMMA ListCopiesAllowed == ASSUME Inv, ListCopies PROVE Allowed
<1>1. /\ TypeOK /\ Told /\ ~Busy /\ Busy' /\ work'.claims = work.claims
      /\ UNCHANGED <<crs, present, placed, source, argoUp, secrets>>
      /\ missed' \subseteq {k \in Keys : secrets[k] # Nil}
      /\ unnoticed' \in BOOLEAN
    BY DEF Inv, Orderly, TypeOK, ListCopies, Work, Told, Busy, users, world
<1>2. Told' \in BOOLEAN
    BY DEF Told
<1>3. Keeper!Begin
    BY <1>1, <1>2, SameRequests DEF Keeper!Begin, Keeper!world, Busy, Told
<1> QED  BY <1>3 DEF Allowed, Keeper!Next

LEMMA ReconcileAllowed == Inv /\ Inv' /\ Reconcile => Allowed
<1> SUFFICES ASSUME Inv, Inv', Reconcile PROVE Allowed
    OBVIOUS
<1>. TypeOK /\ work \in Work
    BY DEF Inv, Orderly, TypeOK
<1>1. ASSUME \/ ListCRs \/ StartCleanup
             \/ \E g \in GitOpsClusters : NextCR(g)
      PROVE  Allowed
    <2>1. /\ UNCHANGED <<users, present, placed, source, argoUp, secrets, gone, missed, wanted, unnoticed>>
          /\ Busy /\ Busy' /\ work'.claims = work.claims
        <3>1. CASE ListCRs \/ StartCleanup
            BY <3>1 DEF ListCRs, StartCleanup, Goto, world, copies, notice, Busy, Work
        <3>2. ASSUME NEW g \in GitOpsClusters, NextCR(g)
              PROVE  /\ UNCHANGED <<users, present, placed, source, argoUp, secrets, gone, missed, wanted,
                                   unnoticed>>
                     /\ Busy /\ Busy' /\ work'.claims = work.claims
            BY <3>2 DEF NextCR, world, copies, notice, Busy, Work
        <3> QED  BY <1>1, <3>1, <3>2
    <2> QED  BY <2>1, GoesOn
<1>2. CASE VerifyArgo
    <2>1. /\ UNCHANGED <<present, placed, source, argoUp, secrets, gone, missed, unnoticed>> /\ Busy
        BY <1>2 DEF VerifyArgo, world, copies, notice, Busy
    <2>2. \/ /\ UNCHANGED users \/ \E p \in {"failed", "successful"} : SetPhase(p)
             /\ Busy' /\ work'.claims = work.claims /\ UNCHANGED wanted
          \/ ComeBack /\ UNCHANGED crs
        BY <1>2 DEF VerifyArgo, SetPhaseAndNext, NextOne, Goto, users, Busy, Work
    <2> QED  BY <2>1, <2>2, WritesOrComesBack
<1>3. CASE GetManagedClusters /\ ~Readable(work.inst.placement)
    <2>1. /\ UNCHANGED <<present, placed, source, argoUp, secrets, gone, missed, unnoticed>> /\ Busy
        BY <1>3 DEF GetManagedClusters, world, copies, notice, Busy
    <2>2. \/ /\ UNCHANGED users \/ \E p \in {"failed", "successful"} : SetPhase(p)
             /\ Busy' /\ work'.claims = work.claims /\ UNCHANGED wanted
          \/ ComeBack /\ UNCHANGED crs
        BY <1>3 DEF GetManagedClusters, NoClusters, Goto, users, Busy, Work
    <2> QED  BY <2>1, <2>2, WritesOrComesBack
<1>4. CASE FinishCR
    <2>1. /\ UNCHANGED <<present, placed, source, argoUp, secrets, gone, missed, unnoticed>> /\ Busy
        BY <1>4 DEF FinishCR, world, copies, notice, Busy
    <2>2. \/ /\ UNCHANGED users \/ \E p \in {"failed", "successful"} : SetPhase(p)
             /\ Busy' /\ work'.claims = work.claims /\ UNCHANGED wanted
          \/ ComeBack /\ UNCHANGED crs
        BY <1>4 DEF FinishCR, SetPhaseAndNext, NextOne, SetPhase, users, Busy, Work
    <2> QED  BY <2>1, <2>2, WritesOrComesBack
<1>5. CASE Finish
    <2>1. /\ UNCHANGED <<crs, present, placed, source, argoUp, secrets, missed, unnoticed>> /\ Busy
          /\ work' = Idle
        BY <1>5 DEF Finish, Return, ComeBack, users, world, copies, notice, Busy
    <2>2. Told => Told'
        BY <1>5 DEF Finish, Return, ComeBack, users, copies, Told
    <2> QED  BY <2>1, <2>2, Ends
<1> QED
    BY <1>1, <1>2, <1>3, <1>4, <1>5, ListCopiesAllowed, ClaimAllowed, CopyAllowed, DeleteAllowed
    DEF Reconcile

LEMMA FailingAllowed == Inv /\ Inv' /\ Failing => Allowed
<1> SUFFICES ASSUME Inv, Inv', Failing PROVE Allowed
    OBVIOUS
<1>. TypeOK /\ work \in Work
    BY DEF Inv, Orderly, TypeOK
<1>1. CASE ListFails
    <2>1. /\ UNCHANGED <<crs, news, present, placed, source, argoUp, secrets, gone, missed>>
          /\ unnoticed'
        BY <1>1 DEF ListFails, users, world, copies
    <2>2. CASE work.pc = "idle" /\ wanted /\ UNCHANGED work
        <3>1. Told /\ ~Busy /\ Told' \in BOOLEAN
            BY <2>2 DEF Told, Busy
        <3>2. Keeper!Drop
            BY <2>1, <2>2, <3>1 DEF Keeper!Drop, Keeper!world, Busy, Told
        <3> QED  BY <3>2 DEF Allowed, Keeper!Next
    <2>3. CASE work.pc = "crs" /\ Return
        <3>1. Busy /\ work' = Idle /\ (Told => Told')
            BY <2>1, <2>3 DEF Return, Told, Busy
        <3> QED  BY <2>1, <3>1, Ends
    <2> QED  BY <1>1, <2>2, <2>3 DEF ListFails
<1>2. CASE VerifyFails \/ GetManagedClustersFails
    <2>1. UNCHANGED <<present, placed, source, argoUp, secrets, gone, missed>> /\ unnoticed' /\ Busy
        BY <1>2 DEF VerifyFails, GetManagedClustersFails, world, copies, Busy
    <2>2. \/ /\ UNCHANGED users \/ \E p \in {"failed", "successful"} : SetPhase(p)
             /\ Busy' /\ work'.claims = work.claims /\ UNCHANGED wanted
          \/ ComeBack /\ UNCHANGED crs
        BY <1>2 DEF VerifyFails, GetManagedClustersFails, SetPhaseAndNext, NoClusters, NextOne,
                    Goto, users, Busy, Work
    <2> QED  BY <2>1, <2>2, WritesOrComesBack
<1>3. CASE UpdateFails
    <2>1. /\ UNCHANGED <<present, placed, source, argoUp, secrets, missed, unnoticed>>
          /\ Busy /\ ComeBack
        BY <1>3 DEF UpdateFails, world, copies, Busy
    <2>2. UNCHANGED crs
        BY <1>3 DEF UpdateFails, SetPhase, users
    <2> QED  BY <2>1, <2>2, ComesBack
<1>4. ASSUME NEW k \in Keys, SkipOrphan(k) PROVE Allowed
    <2>1. /\ UNCHANGED <<users, present, placed, source, argoUp, secrets, gone, missed, wanted>>
          /\ unnoticed' /\ Busy /\ Busy' /\ work'.claims = work.claims
        BY <1>4 DEF SkipOrphan, world, copies, Busy, Work
    <2> QED  BY <2>1, GoesOnUnnoticed
<1> QED  BY <1>1, <1>2, <1>3, <1>4, CopyAllowed, DeleteAllowed DEF Failing

-----------------------------------------------------------------------------
\* The gitopscluster controller implements CopyKeeper: every step of its loops, caches,
\* queue and status updates, whatever fails, is one that CopyKeeper allows, or one that
\* it does not see.
THEOREM Implementation == Spec => ImplementsKeeper
<1>1. Init => Keeper!Init
    <2> SUFFICES ASSUME Init PROVE Keeper!Init
        OBVIOUS
    <2>1. TypeOK
        BY InitInv DEF Orderly
    <2>2. work.pc = "idle" /\ work.claims = {} /\ wanted /\ ~unnoticed
          /\ missed = {k \in Keys : secrets[k] # Nil}
        BY DEF Init, Idle
    <2>3. Keeper!TypeOK
        BY <2>1, <2>2, SameRequests DEF TypeOK, Keeper!TypeOK, Busy, Told
    <2> QED  BY <2>2, <2>3, SameRequests DEF Keeper!Init, Busy, Told
<1>2. Inv /\ Inv' /\ [Next]_vars => [Keeper!Next]_(Keeper!vars)
    <2> SUFFICES ASSUME Inv, Inv', [Next]_vars PROVE Allowed
        BY DEF Allowed
    <2>1. CASE UNCHANGED vars
        <3>1. /\ UNCHANGED <<crs, present, placed, source, argoUp, secrets, missed, unnoticed, work>>
              /\ (Told <=> Told')
            BY <2>1 DEF vars, Told
        <3> QED  BY <3>1, Unseen DEF Busy
    <2> QED
        BY <2>1, EnvironmentAllowed, WatchesAllowed, ReconcileAllowed, FailingAllowed
        DEF Next, Quiet
<1> QED  BY <1>1, <1>2, Invariance, PTL DEF Spec, ImplementsKeeper, Keeper!Spec

-----------------------------------------------------------------------------
(* What CopyKeeper comes to.                                                *)

LEMMA KeeperTypes == Keeper!TypeOK /\ [Keeper!Next]_(Keeper!vars) => Keeper!TypeOK'
<1> SUFFICES ASSUME Keeper!TypeOK, [Keeper!Next]_(Keeper!vars) PROVE Keeper!TypeOK'
    OBVIOUS
<1>. Keeper!Keys = Argos \X Clusters
    BY DEF Keeper!Keys
<1>1. CASE UNCHANGED Keeper!vars
    BY <1>1 DEF Keeper!vars, Keeper!world, Keeper!passes, Keeper!TypeOK
<1>2. ASSUME NEW g \in GitOpsClusters, Keeper!SpecChanges(g) PROVE Keeper!TypeOK'
    BY <1>2 DEF Keeper!SpecChanges, Keeper!world, Keeper!TypeOK
<1>3. ASSUME NEW p \in Placements, Keeper!DecisionsChange(p) PROVE Keeper!TypeOK'
    BY <1>3 DEF Keeper!DecisionsChange, Keeper!TypeOK
<1>4. ASSUME NEW c \in Clusters, Keeper!SourceChanges(c) PROVE Keeper!TypeOK'
    BY <1>4 DEF Keeper!SourceChanges, Keeper!TypeOK
<1>5. ASSUME NEW k \in Keeper!Keys PROVE Keeper!CopyIsLost(k) => Keeper!TypeOK'
    BY DEF Keeper!CopyIsLost, Keeper!world, Keeper!TypeOK
<1>6. ASSUME NEW k \in Keeper!Keys PROVE Keeper!Copy(k) => Keeper!TypeOK'
    <2>1. source[k[2]] \in Versions \cup {Nil}
        BY DEF Keeper!TypeOK
    <2> QED  BY <2>1 DEF Keeper!Copy, Keeper!world, Keeper!passes, Keeper!TypeOK
<1>7. ASSUME NEW k \in Keeper!Keys PROVE Keeper!Delete(k) => Keeper!TypeOK'
    BY DEF Keeper!Delete, Keeper!world, Keeper!TypeOK
<1>8. ASSUME NEW a \in Argos, NEW p \in Placements, Keeper!Claim(a, p) PROVE Keeper!TypeOK'
    BY <1>8 DEF Keeper!Claim, Keeper!world, Keeper!TypeOK
<1>9. CASE Keeper!UnwatchedChange \/ Keeper!Remind
    BY <1>9 DEF Keeper!UnwatchedChange, Keeper!Remind, Keeper!world, Keeper!passes, Keeper!TypeOK
<1>10. CASE Keeper!Restart \/ Keeper!Begin \/ Keeper!Drop \/ Keeper!Swallow \/ Keeper!End
    <2>1. Busy' \in BOOLEAN /\ Told' \in BOOLEAN
        BY DEF Busy, Told
    <2>2. UNCHANGED <<crs, present, placed, source, argoUp, secrets>>
        BY <1>10
        DEF Keeper!Restart, Keeper!Begin, Keeper!Drop, Keeper!Swallow, Keeper!End, Keeper!world
    <2>3. work'.claims \subseteq Keeper!Keys
        BY <1>10
        DEF Keeper!Restart, Keeper!Begin, Keeper!Drop, Keeper!Swallow, Keeper!End, Keeper!passes,
            Keeper!TypeOK
    <2>4. missed' \subseteq Keeper!Keys
        BY <1>10
        DEF Keeper!Restart, Keeper!Begin, Keeper!Drop, Keeper!Swallow, Keeper!End, Keeper!Existing,
            Keeper!TypeOK
    <2>5. unnoticed' \in BOOLEAN
        <3>1. CASE Keeper!Restart \/ Keeper!Begin \/ Keeper!Drop \/ Keeper!Swallow
            BY <3>1 DEF Keeper!Restart, Keeper!Begin, Keeper!Drop, Keeper!Swallow, Keeper!TypeOK
        <3>2. CASE Keeper!End
            BY <3>2 DEF Keeper!End, Keeper!TypeOK
        <3> QED  BY <1>10, <3>1, <3>2
    <2> QED  BY <2>1, <2>2, <2>3, <2>4, <2>5 DEF Keeper!TypeOK
<1> QED
    BY <1>1, <1>2, <1>3, <1>4, <1>5, <1>6, <1>7, <1>8, <1>9, <1>10
    DEF Keeper!Next

\* What a GitOpsCluster asks for does not depend on what the controller does.
LEMMA SameKept ==
    ASSUME Keeper!Kept, UNCHANGED <<crs, present, placed, argoUp, secrets, missed>>,
           \A c \in Clusters : source'[c] # Nil => source'[c] = source[c],
           \A g \in GitOpsClusters : Keeper!Asked(g) \subseteq Keeper!Keys,
           ~Busy, ~Told, ~unnoticed
    PROVE  Keeper!Kept'
<1>1. \A g \in GitOpsClusters : Keeper!Asked(g)' = Keeper!Asked(g)
    BY DEF Keeper!Asked, Keeper!Readable
<1>2. \A k \in Keeper!Keys : k[2] \in Clusters
    BY DEF Keeper!Keys
<1>3. Keeper!Provided'
    BY <1>1, <1>2 DEF Keeper!Kept, Keeper!Provided, Keeper!Served
<1>4. \A k : Keeper!AskedFor(k) => Keeper!AskedFor(k)'
    BY <1>1 DEF Keeper!AskedFor
<1> QED  BY <1>3, <1>4 DEF Keeper!Kept, Keeper!Existing

LEMMA AsksForKeys ==
    ASSUME Keeper!TypeOK, NEW g \in GitOpsClusters
    PROVE  Keeper!Asked(g) \subseteq Keeper!Keys
<1> SUFFICES ASSUME crs[g] # Nil, Keeper!Readable(crs[g].placement)
             PROVE  {crs[g].argo} \X placed[crs[g].placement] \subseteq Keeper!Keys
    BY DEF Keeper!Asked
<1>1. crs[g].argo \in Argos /\ placed[crs[g].placement] \subseteq Clusters
    BY DEF Keeper!TypeOK, Keeper!Readable, Keeper!SpecRecord
<1> QED  BY <1>1 DEF Keeper!Keys

\* A decision that the controller is not told of is about a Placement nobody refers to.
LEMMA DecisionKeeps ==
    ASSUME Keeper!TypeOK, Keeper!Kept, NEW p \in Placements, Keeper!DecisionsChange(p)
    PROVE  Keeper!Kept'
<1> SUFFICES ASSUME ~Busy, ~Told, ~Told', ~unnoticed' PROVE Keeper!Kept'
    BY DEF Keeper!Kept, Keeper!DecisionsChange
<1>1. /\ \A q \in Placements : q # p => placed'[q] = placed[q]
      /\ \A g \in GitOpsClusters : crs[g] # Nil => crs[g].placement # p
      /\ UNCHANGED <<crs, present, source, argoUp, secrets, missed, unnoticed>>
    BY DEF Keeper!DecisionsChange, Keeper!TypeOK
<1>2. ASSUME NEW g \in GitOpsClusters PROVE Keeper!Asked(g)' = Keeper!Asked(g)
    <2>1. CASE crs[g] = Nil
        BY <1>1, <2>1 DEF Keeper!Asked
    <2>2. CASE crs[g] # Nil
        <3>1. crs[g].placement \in Placements \cup {Nil}
            BY <2>2 DEF Keeper!TypeOK, Keeper!SpecRecord
        <3> QED  BY <1>1, <2>2, <3>1 DEF Keeper!Asked, Keeper!Readable
    <2> QED  BY <2>1, <2>2
<1>3. Keeper!Provided'
    BY <1>1, <1>2 DEF Keeper!Kept, Keeper!Provided, Keeper!Served
<1>4. \A k : Keeper!AskedFor(k) => Keeper!AskedFor(k)'
    BY <1>2 DEF Keeper!AskedFor
<1> QED  BY <1>1, <1>3, <1>4 DEF Keeper!Kept, Keeper!Existing

\* When it starts with nothing to look at, nobody can ask for anything.
LEMMA RestartKeeps == ASSUME Keeper!TypeOK, Keeper!Restart PROVE Keeper!Kept'
<1> SUFFICES ASSUME ~Told' PROVE Keeper!Kept'
    BY DEF Keeper!Kept
<1>1. \A g \in GitOpsClusters : crs'[g] = Nil
    BY DEF Keeper!Restart
<1>2. Keeper!Provided'
    BY <1>1 DEF Keeper!Provided, Keeper!Served, Keeper!Asked
<1>3. \A k \in Keeper!Existing' : k \in missed'
    BY DEF Keeper!Restart, Keeper!Existing, Keeper!world
<1> QED  BY <1>2, <1>3 DEF Keeper!Kept

LEMMA NextKept ==
    Keeper!TypeOK /\ Keeper!Kept /\ [Keeper!Next]_(Keeper!vars) => Keeper!Kept'
<1> SUFFICES ASSUME Keeper!TypeOK, Keeper!Kept, [Keeper!Next]_(Keeper!vars) PROVE Keeper!Kept'
    OBVIOUS
<1>1. CASE Busy' \/ Told' \/ unnoticed'
    BY <1>1 DEF Keeper!Kept
<1>2. CASE UNCHANGED Keeper!vars
    <2>1. CASE Busy \/ Told \/ unnoticed
        BY <1>2, <2>1 DEF Keeper!vars, Keeper!passes, Keeper!Kept
    <2>2. CASE ~Busy /\ ~Told /\ ~unnoticed
        BY <1>2, <2>2, AsksForKeys, SameKept DEF Keeper!vars, Keeper!world
    <2> QED  BY <2>1, <2>2
<1>3. ASSUME NEW g \in GitOpsClusters, Keeper!SpecChanges(g) PROVE Keeper!Kept'
    BY <1>3 DEF Keeper!SpecChanges, Keeper!Kept
<1>4. ASSUME NEW p \in Placements, Keeper!DecisionsChange(p) PROVE Keeper!Kept'
    BY <1>4, DecisionKeeps
<1>5. ASSUME NEW c \in Clusters, Keeper!SourceChanges(c) PROVE Keeper!Kept'
    <2>1. CASE Busy \/ Told \/ unnoticed
        BY <1>5, <2>1 DEF Keeper!SourceChanges, Keeper!Kept
    <2>2. CASE ~Busy /\ ~Told /\ ~unnoticed /\ ~Told'
        <3>1. /\ UNCHANGED <<crs, present, placed, argoUp, secrets, missed>>
              /\ \A d \in Clusters : source'[d] # Nil => source'[d] = source[d]
            BY <1>5, <2>2 DEF Keeper!SourceChanges, Keeper!TypeOK
        <3> QED  BY <2>2, <3>1, AsksForKeys, SameKept
    <2> QED  BY <1>1, <2>1, <2>2
<1>6. CASE \E k \in Keeper!Keys : Keeper!CopyIsLost(k) \/ Keeper!Delete(k)
    BY <1>6 DEF Keeper!CopyIsLost, Keeper!Delete, Keeper!Kept
<1>7. ASSUME \/ Keeper!Swallow \/ Keeper!Begin \/ Keeper!Drop
             \/ Keeper!UnwatchedChange \/ Keeper!Remind
      PROVE  Keeper!Kept'
    BY <1>7
    DEF Keeper!Swallow, Keeper!Begin, Keeper!Drop, Keeper!UnwatchedChange, Keeper!Remind,
        Keeper!Kept
<1>8. ASSUME \/ \E k \in Keeper!Keys : Keeper!Copy(k)
             \/ \E a \in Argos : \E p \in Placements : Keeper!Claim(a, p)
      PROVE  Busy'
    BY <1>8 DEF Keeper!Copy, Keeper!Claim, Keeper!passes, Busy
<1>9. CASE Keeper!End
    BY <1>9 DEF Keeper!End
<1> QED
    BY <1>1, <1>2, <1>3, <1>4, <1>5, <1>6, <1>7, <1>8, <1>9, RestartKeeps DEF Keeper!Next

\* What CopyKeeper comes to for users: whenever no pass is under way and none is to
\* come, all copies asked for are there and up to date, and no other is, but those that
\* it does not know of.
THEOREM KeeperKeeps == Keeper!Spec => []Keeper!Kept
<1>1. Keeper!Init => Keeper!TypeOK /\ Keeper!Kept
    BY DEF Keeper!Init, Keeper!Kept
<1> QED  BY <1>1, KeeperTypes, NextKept, PTL DEF Keeper!Spec

\* The controller never rests, not even while its caches lag behind, when a copy asked
\* for is missing or outdated or, as far as it knows, one is left over: unless what it is
\* not told of has happened since its last Reconcile began.
THEOREM RestsOnlyWhenKept == Spec => []Keeper!Kept
<1> QED  BY Implementation, KeeperKeeps DEF ImplementsKeeper
=============================================================================
