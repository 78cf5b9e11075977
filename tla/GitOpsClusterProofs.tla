------------------------- MODULE GitOpsClusterProofs -------------------------
(****************************************************************************)
(* Proofs about GitOpsCluster, for any GitOpsClusters, namespaces, clusters *)
(* and Placements: the variables keep their types, and the cleanup takes    *)
(* away no copy that the Reconcile's GitOpsClusters asked for.              *)
(****************************************************************************)
EXTENDS GitOpsCluster, TLAPS

-----------------------------------------------------------------------------
(* The initial states.                                                      *)

LEMMA IdleIsWork == Idle \in Work
<1> QED  BY DEF Idle, Work

LEMMA InitInv == Init => Orderly
<1> SUFFICES ASSUME Init PROVE Orderly
    OBVIOUS
<1>1. crs \in [GitOpsClusters -> SpecRecord \cup {Nil}]
    BY InputsAssumption DEF Init
<1>2. (CHOOSE v \in Versions : TRUE) \in Versions
    BY InputsAssumption
<1>3. secrets \in [Keys -> Versions \cup {Nil}] /\ source \in [Clusters -> Versions \cup {Nil}]
    BY <1>2 DEF Init
<1>4. work = Idle
    BY DEF Init
<1>5. present \subseteq Placements /\ placed \in [Placements -> (SUBSET Clusters) \cup {Nil}]
    BY DEF Init
<1>6. TypeOK
    <2>1. work.pc = "idle"
        BY <1>4 DEF Idle
    <2>2. /\ crCache \in [GitOpsClusters -> SpecRecord \cup {Nil}]
          /\ phase \in [GitOpsClusters -> {"none", "failed", "successful"}]
          /\ \A g \in GitOpsClusters : crs[g] = Nil => phase[g] = "none"
          /\ news \in [GitOpsClusters -> News]
        BY <1>1 DEF Init, News
    <2>3. /\ argoUp \subseteq Argos /\ secretCache \in [Keys -> Versions \cup {Nil}]
          /\ gone \subseteq Keys /\ missed \subseteq Keys
        BY <1>3 DEF Init
    <2>4. wanted \in BOOLEAN /\ unnoticed \in BOOLEAN
        BY DEF Init
    <2>5. changes \in 0 .. MaxChanges /\ faults \in 0 .. MaxFaults
        BY InputsAssumption DEF Init
    <2> QED
        BY <1>1, <1>3, <1>4, <1>5, <2>1, <2>2, <2>3, <2>4, <2>5, IdleIsWork DEF TypeOK, InHand
<1>7. OrphansUnclaimed
    BY <1>4 DEF Idle, OrphansUnclaimed
<1> QED  BY <1>6, <1>7 DEF Orderly

-----------------------------------------------------------------------------
(* The types, in the parts that actions leave alone or change.              *)

UserTypes == /\ crs \in [GitOpsClusters -> SpecRecord \cup {Nil}]
             /\ phase \in [GitOpsClusters -> {"none", "failed", "successful"}]
             /\ \A g \in GitOpsClusters : crs[g] = Nil => phase[g] = "none"
             /\ news \in [GitOpsClusters -> News]

CacheTypes == crCache \in [GitOpsClusters -> SpecRecord \cup {Nil}]

WorldTypes == /\ present \subseteq Placements
              /\ placed \in [Placements -> (SUBSET Clusters) \cup {Nil}]
              /\ source \in [Clusters -> Versions \cup {Nil}]
              /\ argoUp \subseteq Argos

CopyTypes == /\ secrets \in [Keys -> Versions \cup {Nil}]
             /\ secretCache \in [Keys -> Versions \cup {Nil}]
             /\ gone \subseteq Keys /\ missed \subseteq Keys

WorkTypes == /\ work \in Work
             /\ work.pc \in InHand => work.g \in GitOpsClusters /\ work.inst \in SpecRecord

BudgetTypes == changes \in 0 .. MaxChanges /\ faults \in 0 .. MaxFaults

LEMMA TypesSplit == TypeOK <=> /\ UserTypes /\ CacheTypes /\ WorldTypes /\ CopyTypes
                               /\ WorkTypes /\ BudgetTypes
                               /\ wanted \in BOOLEAN /\ unnoticed \in BOOLEAN
<1> QED
    BY DEF TypeOK, UserTypes, CacheTypes, WorldTypes, CopyTypes, WorkTypes, BudgetTypes

LEMMA Unchanged ==
    TypeOK => /\ UNCHANGED users => UserTypes'
              /\ UNCHANGED crCache => CacheTypes'
              /\ UNCHANGED world => WorldTypes'
              /\ UNCHANGED copies => CopyTypes'
              /\ UNCHANGED work => WorkTypes'
              /\ UNCHANGED budget => BudgetTypes'
              /\ UNCHANGED wanted => wanted' \in BOOLEAN
              /\ UNCHANGED unnoticed => unnoticed' \in BOOLEAN
<1> QED
    BY TypesSplit DEF UserTypes, users, CacheTypes, WorldTypes, world, CopyTypes, copies,
        WorkTypes, BudgetTypes, budget

LEMMA Bounded == TypeOK /\ (Change \/ Fault) => BudgetTypes'
<1> QED
    BY InputsAssumption DEF TypeOK, Change, Fault, BudgetTypes

-----------------------------------------------------------------------------
(* The worker's own state.                                                  *)

\* Nothing was claimed yet when a Reconcile ends, or is cut off.
LEMMA IdleIsFine == work' = Idle => WorkTypes' /\ OrphansUnclaimed'
<1> SUFFICES ASSUME work' = Idle PROVE WorkTypes' /\ OrphansUnclaimed'
    OBVIOUS
<1>1. work'.pc = "idle" /\ work'.claims = {}
    BY DEF Idle
<1> QED  BY <1>1, IdleIsWork DEF WorkTypes, OrphansUnclaimed, InHand

LEMMA SameWorkIsFine == Orderly /\ UNCHANGED work => WorkTypes' /\ OrphansUnclaimed'
<1> QED  BY TypesSplit DEF Orderly, WorkTypes, OrphansUnclaimed

\* The status update, taken or refused.
LEMMA PhaseTypes ==
    ASSUME TypeOK, work.pc \in InHand, NEW p \in {"failed", "successful"}, SetPhase(p)
    PROVE  UserTypes'
<1>1. work.g \in GitOpsClusters /\ crs[work.g] # Nil
    BY DEF TypeOK, SetPhase, CanUpdate
<1> QED  BY <1>1, TypesSplit DEF SetPhase, UserTypes, News

\* The end of a GitOpsCluster leaves no orphan that was asked for.
LEMMA NextOneIsFine ==
    ASSUME Orderly, work.pc \in InHand, work.orphans \cap work.claims = {}, NextOne
    PROVE  WorkTypes' /\ OrphansUnclaimed'
<1>1. work \in Work
    BY DEF Orderly, TypeOK
<1>2. /\ work'.pc = "next"
      /\ work'.orphans = work.orphans /\ work'.claims = work.claims
    BY <1>1 DEF NextOne, Work
<1>3. work' \in Work
    BY <1>1 DEF NextOne, Work
<1> QED  BY <1>2, <1>3 DEF WorkTypes, OrphansUnclaimed, InHand

LEMMA SetPhaseAndNextIsFine ==
    ASSUME Orderly, work.pc \in InHand, work.orphans \cap work.claims = {},
           NEW p \in {"failed", "successful"}, SetPhaseAndNext(p)
    PROVE  UserTypes' /\ WorkTypes' /\ OrphansUnclaimed' /\ wanted' \in BOOLEAN
<1>1. CASE SetPhase(p) /\ NextOne /\ UNCHANGED wanted
    BY <1>1, PhaseTypes, NextOneIsFine, TypesSplit DEF Orderly
<1>2. CASE ComeBack /\ UNCHANGED users
    BY <1>2, IdleIsFine, Unchanged DEF ComeBack, Orderly
<1> QED  BY <1>1, <1>2 DEF SetPhaseAndNext

LEMMA NoClustersIsFine ==
    ASSUME Orderly, work.pc = "clusters", NoClusters
    PROVE  UserTypes' /\ WorkTypes' /\ OrphansUnclaimed' /\ wanted' \in BOOLEAN
<1>1. CASE SetPhase("failed") /\ Goto("copy") /\ UNCHANGED wanted
    <2>1. work \in Work /\ work.g \in GitOpsClusters /\ work.inst \in SpecRecord
        BY DEF Orderly, TypeOK, InHand
    <2>2. /\ work' \in Work
          /\ work'.pc = "copy" /\ work'.g = work.g /\ work'.inst = work.inst
          /\ work'.orphans = work.orphans /\ work'.claims = work.claims
        BY <1>1, <2>1 DEF Goto, Work, InHand
    <2>3. WorkTypes' /\ OrphansUnclaimed'
        BY <2>1, <2>2 DEF Orderly, WorkTypes, OrphansUnclaimed
    <2> QED  BY <1>1, <2>3, PhaseTypes, TypesSplit DEF Orderly, InHand
<1>2. CASE ComeBack /\ UNCHANGED users
    BY <1>2, IdleIsFine, Unchanged DEF ComeBack, Orderly
<1> QED  BY <1>1, <1>2 DEF NoClusters

-----------------------------------------------------------------------------
(* The environment and the informers.                                       *)

LEMMA InvRebuilt ==
    (/\ UserTypes /\ CacheTypes /\ WorldTypes /\ CopyTypes /\ WorkTypes /\ BudgetTypes
     /\ wanted \in BOOLEAN /\ unnoticed \in BOOLEAN
     /\ OrphansUnclaimed)' => Orderly'
<1>1. (/\ UserTypes /\ CacheTypes /\ WorldTypes /\ CopyTypes /\ WorkTypes /\ BudgetTypes
       /\ wanted \in BOOLEAN /\ unnoticed \in BOOLEAN
       /\ OrphansUnclaimed) => Orderly
    BY TypesSplit DEF Orderly
<1> QED  BY <1>1, PTL

LEMMA EnvironmentIsFine == Orderly /\ Environment => Orderly'
<1> SUFFICES ASSUME Orderly, Environment PROVE Orderly'
    OBVIOUS
<1>. TypeOK
    BY DEF Orderly
<1>1. ASSUME NEW g \in GitOpsClusters, NEW spec \in SpecsOf[g] \cup {Nil}, SetCR(g, spec)
      PROVE  Orderly'
    <2>1. spec \in SpecRecord \cup {Nil}
        BY InputsAssumption
    <2>2. UserTypes'
        BY <1>1, <2>1, TypesSplit DEF SetCR, UserTypes, News
    <2>3. WorkTypes' /\ OrphansUnclaimed'
        <3>1. CASE work' = work
            BY <3>1, SameWorkIsFine
        <3>2. CASE work' = [work EXCEPT !.stale = TRUE]
            <4>1. work \in Work
                BY DEF TypeOK
            <4>2. /\ work' \in Work
                  /\ work'.pc = work.pc /\ work'.g = work.g /\ work'.inst = work.inst
                  /\ work'.orphans = work.orphans /\ work'.claims = work.claims
                  /\ work'.list = work.list /\ work'.failed = work.failed
                BY <3>2, <4>1 DEF Work
            <4> QED  BY <4>2 DEF Orderly, TypeOK, WorkTypes, OrphansUnclaimed
        <3> QED  BY <1>1, <3>1, <3>2 DEF SetCR
    <2>4. unnoticed' \in BOOLEAN
        BY <1>1 DEF SetCR
    <2> QED  BY <1>1, <2>2, <2>3, <2>4, Unchanged, Bounded, InvRebuilt DEF SetCR
<1>2. ASSUME NEW p \in Placements, NEW chosen \in (SUBSET Clusters) \cup {Nil},
             SetPlaced(p, chosen)
      PROVE  Orderly'
    <2>1. WorldTypes'
        BY <1>2, TypesSplit DEF SetPlaced, Decide, WorldTypes
    <2>2. wanted' \in BOOLEAN
        BY <1>2 DEF SetPlaced, MapDecision
    <2> QED
        BY <1>2, <2>1, <2>2, Unchanged, Bounded, SameWorkIsFine, InvRebuilt
        DEF SetPlaced, Decide
<1>8. ASSUME NEW p \in Placements, NEW chosen \in (SUBSET Clusters) \cup {Nil},
             MapDecisionFails(p, chosen)
      PROVE  Orderly'
    <2>1. WorldTypes' /\ unnoticed' \in BOOLEAN
        BY <1>8, TypesSplit DEF MapDecisionFails, Decide, WorldTypes
    <2> QED
        BY <1>8, <2>1, Unchanged, Bounded, SameWorkIsFine, InvRebuilt
        DEF MapDecisionFails, Decide
<1>9. ASSUME NEW p \in Placements, MovePlacement(p) PROVE Orderly'
    <2>1. WorldTypes' /\ unnoticed' \in BOOLEAN
        BY <1>9, TypesSplit DEF MovePlacement, WorldTypes
    <2> QED  BY <1>9, <2>1, Unchanged, Bounded, SameWorkIsFine, InvRebuilt DEF MovePlacement
<1>3. ASSUME NEW c \in Clusters, NEW new \in Versions \cup {Nil}, SetSource(c, new)
      PROVE  Orderly'
    <2>1. WorldTypes'
        BY <1>3, TypesSplit DEF SetSource, WorldTypes
    <2>2. wanted' \in BOOLEAN
        BY <1>3 DEF SetSource
    <2> QED  BY <1>3, <2>1, <2>2, Unchanged, Bounded, SameWorkIsFine, InvRebuilt DEF SetSource
<1>4. ASSUME NEW c \in Clusters, Resync(c) PROVE Orderly'
    BY <1>4, Unchanged, SameWorkIsFine, InvRebuilt DEF Resync, notice
<1>5. ASSUME NEW a \in Argos, MoveArgo(a) PROVE Orderly'
    <2>1. WorldTypes'
        BY <1>5, TypesSplit DEF MoveArgo, WorldTypes
    <2> QED  BY <1>5, <2>1, Unchanged, Bounded, SameWorkIsFine, InvRebuilt DEF MoveArgo
<1>6. ASSUME NEW k \in Keys, LoseCopy(k) PROVE Orderly'
    <2>1. CopyTypes'
        BY <1>6, TypesSplit DEF LoseCopy, CopyTypes
    <2> QED  BY <1>6, <2>1, Unchanged, Bounded, SameWorkIsFine, InvRebuilt DEF LoseCopy
<1>7. CASE Restart
    <2>1. UserTypes' /\ CacheTypes' /\ CopyTypes'
        BY <1>7, TypesSplit DEF Restart, UserTypes, CacheTypes, CopyTypes, News
    <2>2. wanted' \in BOOLEAN
        BY <1>7 DEF Restart
    <2> QED  BY <1>7, <2>1, <2>2, Unchanged, Bounded, IdleIsFine, InvRebuilt DEF Restart
<1> QED  BY <1>1, <1>2, <1>3, <1>4, <1>5, <1>6, <1>7, <1>8, <1>9 DEF Environment

LEMMA WatchesAreFine == Orderly /\ Watches => Orderly'
<1> SUFFICES ASSUME Orderly, Watches PROVE Orderly'
    OBVIOUS
<1>. TypeOK
    BY DEF Orderly
<1>1. ASSUME NEW g \in GitOpsClusters, SyncCR(g) PROVE Orderly'
    <2>1. UserTypes' /\ CacheTypes'
        BY <1>1, TypesSplit DEF SyncCR, UserTypes, CacheTypes, News
    <2>2. wanted' \in BOOLEAN
        BY <1>1 DEF SyncCR
    <2> QED  BY <1>1, <2>1, <2>2, Unchanged, SameWorkIsFine, InvRebuilt DEF SyncCR, notice
<1>2. ASSUME NEW k \in Keys, SyncCopy(k) PROVE Orderly'
    <2>1. CopyTypes'
        BY <1>2, TypesSplit DEF SyncCopy, CopyTypes
    <2>2. wanted' \in BOOLEAN
        BY <1>2 DEF SyncCopy
    <2> QED  BY <1>2, <2>1, <2>2, Unchanged, SameWorkIsFine, InvRebuilt DEF SyncCopy, notice
<1> QED  BY <1>1, <1>2 DEF Watches

-----------------------------------------------------------------------------
(* Reconcile.                                                               *)

\* A round of copying takes from the orphans what it copies, or fails.
LEMMA CopyRoundIsFine ==
    ASSUME Orderly, work.pc = "copy", NEW c \in work.list,
           \/ work' = Copied(<<work.inst.argo, c>>)
           \/ work' = NotCopied(<<work.inst.argo, c>>)
    PROVE  WorkTypes' /\ OrphansUnclaimed'
<1>1. work \in Work /\ work.g \in GitOpsClusters /\ work.inst \in SpecRecord
    BY DEF Orderly, TypeOK, InHand
<1>2. \A k \in work.orphans \cap work.claims :
          k[1] = work.inst.argo /\ (k[2] \in work.list \/ work.failed)
    BY DEF Orderly, OrphansUnclaimed
<1>3. <<work.inst.argo, c>>[2] = c
    OBVIOUS
<1>4. work.orphans \subseteq Keys
    BY <1>1 DEF Work
<1>5. \A k \in work.orphans : k[1] = work.inst.argo /\ k[2] = c => k = <<work.inst.argo, c>>
    BY <1>4 DEF Keys
<1>6. CASE work' = Copied(<<work.inst.argo, c>>)
    <2>1. /\ work' \in Work
          /\ work'.pc = "copy" /\ work'.g = work.g /\ work'.inst = work.inst
          /\ work'.claims = work.claims /\ work'.failed = work.failed
          /\ work'.orphans = work.orphans \ {<<work.inst.argo, c>>}
          /\ work'.list = work.list \ {c}
        BY <1>1, <1>3, <1>6 DEF Copied, Work
    <2> QED  BY <1>1, <1>2, <1>5, <2>1 DEF WorkTypes, OrphansUnclaimed
<1>7. CASE work' = NotCopied(<<work.inst.argo, c>>)
    <2>1. /\ work' \in Work
          /\ work'.pc = "copy" /\ work'.g = work.g /\ work'.inst = work.inst
          /\ work'.claims = work.claims /\ work'.failed = TRUE
          /\ work'.orphans = work.orphans
        BY <1>1, <1>7 DEF NotCopied, Work
    <2> QED  BY <1>1, <1>2, <2>1 DEF WorkTypes, OrphansUnclaimed
<1> QED  BY <1>6, <1>7

\* The cleanup crosses off orphans.
LEMMA CrossedOffIsFine ==
    ASSUME Orderly, work.pc = "cleanup", NEW k, NEW trouble \in BOOLEAN,
           work' = [work EXCEPT !.orphans = @ \ {k}, !.trouble = trouble]
    PROVE  WorkTypes' /\ OrphansUnclaimed'
<1>1. work \in Work
    BY DEF Orderly, TypeOK
<1>2. /\ work' \in Work /\ work'.pc = "cleanup"
      /\ work'.orphans \subseteq work.orphans /\ work'.claims = work.claims
    BY <1>1 DEF Work
<1> QED  BY <1>2 DEF Orderly, WorkTypes, OrphansUnclaimed, InHand

\* The GitOpsCluster in hand claims what its Placement decided on.
LEMMA ClaimIsFine ==
    ASSUME Orderly, GetManagedClusters, Readable(work.inst.placement)
    PROVE  WorkTypes' /\ OrphansUnclaimed'
<1>1. /\ work \in Work /\ work.g \in GitOpsClusters /\ work.inst \in SpecRecord
      /\ work.pc = "clusters" /\ work.orphans \cap work.claims = {}
    BY DEF GetManagedClusters, Orderly, TypeOK, InHand, OrphansUnclaimed
<1>. DEFINE chosen == placed[work.inst.placement]
<1>2. chosen \subseteq Clusters /\ work.inst.argo \in Argos
    BY <1>1 DEF Readable, Orderly, TypeOK, SpecRecord
<1>. HIDE DEF chosen
<1>3. work' = [work EXCEPT !.pc = "copy", !.list = chosen,
                           !.claims = @ \cup ({work.inst.argo} \X chosen)]
    BY DEF GetManagedClusters, chosen
<1>4. {work.inst.argo} \X chosen \subseteq Keys
    BY <1>2 DEF Keys
<1>5. /\ work' \in Work
      /\ work'.pc = "copy" /\ work'.g = work.g /\ work'.inst = work.inst
      /\ work'.orphans = work.orphans /\ work'.list = chosen
      /\ work'.claims = work.claims \cup ({work.inst.argo} \X chosen)
    BY <1>1, <1>2, <1>3, <1>4 DEF Work, InHand
<1> QED  BY <1>1, <1>5 DEF WorkTypes, OrphansUnclaimed

LEMMA ReconcileIsFine == Orderly /\ Reconcile => Orderly'
<1> SUFFICES ASSUME Orderly, Reconcile PROVE Orderly'
    OBVIOUS
<1>. TypeOK /\ work \in Work
    BY DEF Orderly, TypeOK
<1>1. CASE ListCopies
    <2>1. /\ work' \in Work /\ work'.pc = "crs" /\ work'.claims = work.claims
          /\ work.pc = "idle"
        BY <1>1 DEF ListCopies, Work
    <2>2. WorkTypes' /\ OrphansUnclaimed'
        BY <2>1 DEF Orderly, WorkTypes, OrphansUnclaimed, InHand
    <2>3. wanted' \in BOOLEAN /\ unnoticed' \in BOOLEAN
        BY <1>1 DEF ListCopies
    <2>4. CopyTypes'
        BY <1>1, TypesSplit DEF ListCopies, CopyTypes
    <2> QED  BY <1>1, <2>2, <2>3, <2>4, Unchanged, InvRebuilt DEF ListCopies
<1>2. CASE ListCRs
    <2>1. /\ work' \in Work /\ work'.pc = "next" /\ work'.claims = work.claims
          /\ work.pc = "crs"
        BY <1>2 DEF ListCRs, Work
    <2>2. WorkTypes' /\ OrphansUnclaimed'
        BY <2>1 DEF Orderly, WorkTypes, OrphansUnclaimed, InHand
    <2> QED  BY <1>2, <2>2, Unchanged, InvRebuilt DEF ListCRs, notice
<1>3. ASSUME NEW g \in GitOpsClusters, NextCR(g) PROVE Orderly'
    <2>1. CASE crCache[g] = Nil
        <3>1. /\ work' \in Work /\ work'.pc = "next" /\ work.pc = "next"
              /\ work'.orphans = work.orphans /\ work'.claims = work.claims
            BY <1>3, <2>1 DEF NextCR, Work
        <3> QED
            BY <1>3, <3>1, Unchanged, InvRebuilt
            DEF NextCR, notice, Orderly, WorkTypes, OrphansUnclaimed, InHand
    <2>2. CASE crCache[g] # Nil
        <3>1. crCache[g] \in SpecRecord
            BY <2>2 DEF TypeOK
        <3>2. /\ work' \in Work /\ work'.pc = "verify" /\ work.pc = "next"
              /\ work'.g = g /\ work'.inst = crCache[g]
              /\ work'.orphans = work.orphans /\ work'.claims = work.claims
            BY <1>3, <2>2, <3>1 DEF NextCR, Work, InHand
        <3>3. WorkTypes' /\ OrphansUnclaimed'
            BY <3>1, <3>2 DEF Orderly, WorkTypes, OrphansUnclaimed
        <3> QED  BY <1>3, <3>3, Unchanged, InvRebuilt DEF NextCR, notice
    <2> QED  BY <2>1, <2>2
<1>4. CASE VerifyArgo
    <2>1. work.pc = "verify" /\ work.orphans \cap work.claims = {}
        BY <1>4 DEF VerifyArgo, Orderly, OrphansUnclaimed
    <2>2. CASE Verified
        <3>1. /\ work' \in Work /\ work'.pc = "clusters"
              /\ work'.g = work.g /\ work'.inst = work.inst
              /\ work'.orphans = work.orphans /\ work'.claims = work.claims
            BY <1>4, <2>2 DEF VerifyArgo, Goto, Work, InHand
        <3>2. WorkTypes' /\ OrphansUnclaimed'
            BY <2>1, <3>1 DEF TypeOK, WorkTypes, OrphansUnclaimed, InHand
        <3> QED  BY <1>4, <2>2, <3>2, Unchanged, InvRebuilt DEF VerifyArgo, notice
    <2>3. CASE ~Verified
        <3>1. UserTypes' /\ WorkTypes' /\ OrphansUnclaimed' /\ wanted' \in BOOLEAN
            BY <1>4, <2>1, <2>3, SetPhaseAndNextIsFine DEF VerifyArgo, InHand
        <3> QED  BY <1>4, <3>1, Unchanged, InvRebuilt DEF VerifyArgo, notice
    <2> QED  BY <2>2, <2>3
<1>5. CASE GetManagedClusters
    <2>1. CASE Readable(work.inst.placement)
        BY <1>5, <2>1, ClaimIsFine, Unchanged, InvRebuilt DEF GetManagedClusters, notice
    <2>2. CASE ~Readable(work.inst.placement)
        BY <1>5, <2>2, NoClustersIsFine, Unchanged, InvRebuilt DEF GetManagedClusters, notice
    <2> QED  BY <2>1, <2>2
<1>6. ASSUME NEW c \in Clusters, CopySecret(c) PROVE Orderly'
    <2>1. work.pc = "copy" /\ c \in work.list /\ work.inst.argo \in Argos
        BY <1>6 DEF CopySecret, TypeOK, InHand, SpecRecord
    <2>2. WorkTypes' /\ OrphansUnclaimed'
        BY <1>6, <2>1, CopyRoundIsFine DEF CopySecret
    <2>3. CopyTypes'
        BY <1>6, TypesSplit DEF CopySecret, CopyTypes, TypeOK
    <2> QED  BY <1>6, <2>2, <2>3, Unchanged, InvRebuilt DEF CopySecret, notice
<1>7. CASE FinishCR
    <2>1. work.pc = "copy" /\ work.list = {}
        BY <1>7 DEF FinishCR
    <2>2. CASE work.failed
        <3>1. UserTypes'
            BY <1>7, <2>1, <2>2, PhaseTypes, Unchanged DEF FinishCR, InHand
        <3>2. WorkTypes' /\ OrphansUnclaimed' /\ wanted' \in BOOLEAN
            BY <1>7, <2>2, IdleIsFine DEF FinishCR, ComeBack
        <3> QED  BY <1>7, <3>1, <3>2, Unchanged, InvRebuilt DEF FinishCR, notice
    <2>3. CASE ~work.failed
        <3>1. work.orphans \cap work.claims = {}
            BY <2>1, <2>3 DEF Orderly, OrphansUnclaimed
        <3>2. UserTypes' /\ WorkTypes' /\ OrphansUnclaimed' /\ wanted' \in BOOLEAN
            BY <1>7, <2>1, <2>3, <3>1, SetPhaseAndNextIsFine DEF FinishCR, InHand
        <3> QED  BY <1>7, <3>2, Unchanged, InvRebuilt DEF FinishCR, notice
    <2> QED  BY <2>2, <2>3
<1>8. CASE StartCleanup
    <2>1. /\ work' \in Work /\ work'.pc = "cleanup" /\ work.pc = "next"
          /\ work'.orphans = work.orphans /\ work'.claims = work.claims
        BY <1>8 DEF StartCleanup, Goto, Work
    <2>2. WorkTypes' /\ OrphansUnclaimed'
        BY <2>1 DEF Orderly, WorkTypes, OrphansUnclaimed, InHand
    <2> QED  BY <1>8, <2>2, Unchanged, InvRebuilt DEF StartCleanup, notice
<1>9. ASSUME NEW k \in Keys, DeleteOrphan(k) PROVE Orderly'
    <2>1. (work.trouble \/ (secretCache[k] # Nil /\ secrets[k] = Nil)) \in BOOLEAN
        OBVIOUS
    <2>2. WorkTypes' /\ OrphansUnclaimed'
        BY <1>9, <2>1, CrossedOffIsFine DEF DeleteOrphan, Work
    <2>3. CopyTypes'
        BY <1>9, TypesSplit DEF DeleteOrphan, CopyTypes
    <2> QED  BY <1>9, <2>2, <2>3, Unchanged, InvRebuilt DEF DeleteOrphan, notice
<1>10. CASE Finish
    <2>1. WorkTypes' /\ OrphansUnclaimed'
        BY <1>10, IdleIsFine DEF Finish, ComeBack, Return
    <2>2. wanted' \in BOOLEAN
        BY <1>10, Unchanged DEF Finish, ComeBack, Return
    <2> QED  BY <1>10, <2>1, <2>2, Unchanged, InvRebuilt DEF Finish, notice
<1> QED
    BY <1>1, <1>2, <1>3, <1>4, <1>5, <1>6, <1>7, <1>8, <1>9, <1>10 DEF Reconcile

LEMMA FailingIsFine == Orderly /\ Failing => Orderly'
<1> SUFFICES ASSUME Orderly, Failing PROVE Orderly'
    OBVIOUS
<1>. TypeOK /\ work \in Work
    BY DEF Orderly, TypeOK
<1>1. CASE ListFails
    <2>1. WorkTypes' /\ OrphansUnclaimed'
        BY <1>1, IdleIsFine, SameWorkIsFine DEF ListFails, Return
    <2>2. wanted' \in BOOLEAN /\ unnoticed' \in BOOLEAN
        BY <1>1, Unchanged DEF ListFails, Return
    <2> QED  BY <1>1, <2>1, <2>2, Unchanged, Bounded, InvRebuilt DEF ListFails
<1>2. CASE VerifyFails
    <2>1. work.pc = "verify" /\ work.orphans \cap work.claims = {}
        BY <1>2 DEF VerifyFails, Orderly, OrphansUnclaimed
    <2>2. UserTypes' /\ WorkTypes' /\ OrphansUnclaimed' /\ wanted' \in BOOLEAN
        BY <1>2, <2>1, SetPhaseAndNextIsFine DEF VerifyFails, InHand
    <2>3. unnoticed' \in BOOLEAN
        BY <1>2 DEF VerifyFails
    <2> QED  BY <1>2, <2>2, <2>3, Unchanged, Bounded, InvRebuilt DEF VerifyFails
<1>3. CASE GetManagedClustersFails
    <2>1. unnoticed' \in BOOLEAN
        BY <1>3 DEF GetManagedClustersFails
    <2> QED
        BY <1>3, <2>1, NoClustersIsFine, Unchanged, Bounded, InvRebuilt DEF GetManagedClustersFails
<1>4. CASE UpdateFails
    <2>1. WorkTypes' /\ OrphansUnclaimed' /\ wanted' \in BOOLEAN
        BY <1>4, IdleIsFine DEF UpdateFails, ComeBack
    <2>2. UserTypes'
        <3>1. CASE UNCHANGED users
            BY <3>1, Unchanged
        <3>2. ASSUME NEW p \in {"failed", "successful"}, SetPhase(p) PROVE UserTypes'
            BY <1>4, <3>2, PhaseTypes DEF UpdateFails, InHand
        <3> QED  BY <1>4, <3>1, <3>2 DEF UpdateFails
    <2> QED  BY <1>4, <2>1, <2>2, Unchanged, Bounded, InvRebuilt DEF UpdateFails
<1>5. ASSUME NEW c \in Clusters, CopyFails(c) PROVE Orderly'
    <2>1. WorkTypes' /\ OrphansUnclaimed'
        BY <1>5, CopyRoundIsFine DEF CopyFails
    <2>2. CopyTypes'
        BY <1>5, TypesSplit DEF CopyFails, CopyTypes, TypeOK
    <2> QED  BY <1>5, <2>1, <2>2, Unchanged, Bounded, InvRebuilt DEF CopyFails
<1>6. ASSUME NEW k \in Keys, DeleteFails(k) PROVE Orderly'
    <2>1. WorkTypes' /\ OrphansUnclaimed'
        BY <1>6, CrossedOffIsFine DEF DeleteFails
    <2>2. CopyTypes'
        BY <1>6, TypesSplit DEF DeleteFails, CopyTypes
    <2> QED  BY <1>6, <2>1, <2>2, Unchanged, Bounded, InvRebuilt DEF DeleteFails
<1>7. ASSUME NEW k \in Keys, SkipOrphan(k) PROVE Orderly'
    <2>1. /\ work.trouble \in BOOLEAN
          /\ work' = [work EXCEPT !.orphans = @ \ {k}, !.trouble = work.trouble]
        BY <1>7 DEF SkipOrphan, Work
    <2>2. WorkTypes' /\ OrphansUnclaimed'
        BY <1>7, <2>1, CrossedOffIsFine DEF SkipOrphan
    <2> QED  BY <1>7, <2>2, Unchanged, Bounded, InvRebuilt DEF SkipOrphan
<1> QED  BY <1>1, <1>2, <1>3, <1>4, <1>5, <1>6, <1>7 DEF Failing

-----------------------------------------------------------------------------
\* An orphan that was asked for is still to be copied, or ends the Reconcile.
THEOREM OrphansInvariant == Spec => []Orderly
<1>1. Orderly /\ [Next]_vars => Orderly'
    <2> SUFFICES ASSUME Orderly, [Next]_vars PROVE Orderly'
        OBVIOUS
    <2>1. CASE UNCHANGED vars
        <3>1. UNCHANGED <<users, crCache, world, copies, work, budget, wanted, unnoticed>>
            BY <2>1 DEF vars, users, world, copies, budget
        <3> QED  BY <3>1, Unchanged, SameWorkIsFine, InvRebuilt DEF Orderly
    <2>2. CASE Quiet
        BY <2>1, <2>2 DEF Quiet
    <2> QED
        BY <2>1, <2>2, EnvironmentIsFine, WatchesAreFine, ReconcileIsFine, FailingIsFine DEF Next
<1> QED  BY <1>1, InitInv, PTL DEF Spec

\* The cleanup never takes away a copy that was asked for.
THEOREM ClaimsAreKept == Spec => KeepsClaimed
<1>1. Orderly /\ [Next]_vars =>
          [\A k \in Keys : (DeleteOrphan(k) \/ DeleteFails(k)) /\ secrets'[k] # secrets[k]
                             => k \notin work.claims]_vars
    <2> SUFFICES ASSUME Orderly, NEW k \in Keys, DeleteOrphan(k) \/ DeleteFails(k)
                 PROVE  k \notin work.claims
        OBVIOUS
    <2> QED  BY DEF DeleteOrphan, DeleteFails, Orderly, OrphansUnclaimed
<1> QED  BY <1>1, OrphansInvariant, PTL DEF Spec, KeepsClaimed
=============================================================================
