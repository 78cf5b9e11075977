----------------------------- MODULE CopyKeeper -----------------------------
(****************************************************************************)
(* What the gitopscluster controller promises.  Informers, the queue, the   *)
(* loops of Reconcile, status updates, conflicts and retries are gone: a    *)
(* pass is under way or not, and another one is to come or not.  In a pass  *)
(* the controller claims what GitOpsClusters ask for, makes only claimed    *)
(* copies and deletes only others, in any order.  It comes to rest only     *)
(* when the copies are those asked for, and while it rests they stay so.    *)
(*                                                                          *)
(* GitOpsCluster implements this.                                           *)
(****************************************************************************)
EXTENDS CopyRequests

VARIABLES busy,       \* a pass is under way
          told,       \* another one will follow by itself
          claimed,    \* copies asked for in this pass
          missed,     \* copies it does not know of
          unnoticed   \* what it is not told of has happened since it began

passes == <<busy, told, claimed>>
vars == <<crs, world, secrets, passes, missed, unnoticed>>

Existing == {k \in Keys : secrets[k] # Nil}

TypeOK == /\ crs \in [GitOpsClusters -> SpecRecord \cup {Nil}]
          /\ present \subseteq Placements
          /\ placed \in [Placements -> (SUBSET Clusters) \cup {Nil}]
          /\ source \in [Clusters -> Versions \cup {Nil}]
          /\ argoUp \subseteq Argos
          /\ secrets \in [Keys -> Versions \cup {Nil}]
          /\ {busy, told, unnoticed} \subseteq BOOLEAN
          /\ claimed \subseteq Keys /\ missed \subseteq Keys

Init == /\ TypeOK
        /\ busy = FALSE /\ told = TRUE /\ claimed = {}
        /\ missed = Existing /\ unnoticed = FALSE

-----------------------------------------------------------------------------
(* The environment.                                                         *)

\* It is told of a GitOpsCluster's spec, but not of its annotations.
SpecChanges(g) ==
    /\ crs' = [crs EXCEPT ![g] = crs'[g]] /\ crs'[g] \in SpecRecord \cup {Nil}
    /\ IF OnlyAnnotated(crs[g], crs'[g]) THEN unnoticed' = TRUE /\ UNCHANGED told
                                         ELSE told' = TRUE /\ UNCHANGED unnoticed
    /\ UNCHANGED <<world, secrets, busy, claimed, missed>>

\* It is told of the decisions of a Placement that a GitOpsCluster refers to, unless
\* the news is lost.
DecisionsChange(p) ==
    /\ placed' = [placed EXCEPT ![p] = placed'[p]] /\ placed'[p] \in (SUBSET Clusters) \cup {Nil}
    /\ \/ /\ told' = (told \/ \E g \in GitOpsClusters : crs[g] # Nil /\ crs[g].placement = p)
          /\ UNCHANGED unnoticed
       \/ unnoticed' = TRUE /\ UNCHANGED told
    /\ UNCHANGED <<crs, present, source, argoUp, secrets, busy, claimed, missed>>

\* It is told of a managed cluster's secret, unless that is deleted.
SourceChanges(c) ==
    /\ source' = [source EXCEPT ![c] = source'[c]] /\ source'[c] \in Versions \cup {Nil}
    /\ told' = (told \/ source'[c] # Nil)
    /\ UNCHANGED <<crs, present, placed, argoUp, secrets, busy, claimed, missed, unnoticed>>

\* It is not told of Placements and of the services of Argo CD.
UnwatchedChange ==
    /\ present' \subseteq Placements /\ argoUp' \subseteq Argos
    /\ unnoticed' = TRUE
    /\ UNCHANGED <<crs, placed, source, secrets, passes, missed>>

\* Someone else deletes a copy.
CopyIsLost(k) ==
    /\ secrets' = [secrets EXCEPT ![k] = Nil]
    /\ told' = TRUE
    /\ UNCHANGED <<crs, world, busy, claimed, missed, unnoticed>>

Remind == told' = TRUE /\ UNCHANGED <<crs, world, secrets, busy, claimed, missed, unnoticed>>

\* It starts anew, with nothing in hand; if nobody can ask for anything, and no
\* secret is there to be copied, it does not even look at the copies there are.
Restart ==
    /\ busy' = FALSE /\ claimed' = {}
    /\ told' = \/ \E g \in GitOpsClusters : crs[g] # Nil
               \/ \E c \in Clusters : source[c] # Nil
    /\ missed' = Existing
    /\ UNCHANGED <<crs, world, secrets, unnoticed>>

-----------------------------------------------------------------------------
(* The controller.                                                          *)

\* A pass begins, with a list of copies that may lack some; what it was not told of
\* before it sees now, but for what is on its way.
Begin ==
    /\ told /\ ~busy
    /\ busy' = TRUE /\ told' \in BOOLEAN
    /\ missed' \subseteq Existing
    /\ unnoticed' \in BOOLEAN
    /\ UNCHANGED <<crs, world, secrets, claimed>>

\* A request is dropped before a pass could begin.
Drop ==
    /\ told /\ ~busy
    /\ told' \in BOOLEAN /\ unnoticed' = TRUE
    /\ UNCHANGED <<crs, world, secrets, busy, claimed, missed>>

\* Clusters of a Placement in a namespace: those a GitOpsCluster asks for, or, if
\* that has changed, will be looked at again.
Claim(a, p) ==
    /\ busy
    /\ p \in present /\ placed[p] # Nil
    /\ \/ told \/ unnoticed
       \/ \E g \in GitOpsClusters : {a} \X placed[p] = Asked(g)
    /\ claimed' = claimed \cup ({a} \X placed[p])
    /\ UNCHANGED <<crs, world, secrets, busy, told, missed, unnoticed>>

\* A claimed copy is made or brought up to date.
Copy(k) ==
    /\ busy /\ k \in claimed
    /\ source[k[2]] # Nil
    /\ secrets' = [secrets EXCEPT ![k] = source[k[2]]]
    /\ UNCHANGED <<crs, world, passes, missed, unnoticed>>

\* Another one is deleted; another pass will follow.
Delete(k) ==
    /\ busy /\ k \notin claimed
    /\ secrets' = [secrets EXCEPT ![k] = Nil]
    /\ told' = TRUE
    /\ UNCHANGED <<crs, world, busy, claimed, missed, unnoticed>>

\* A read fails and is taken for an answer, be it what is asked for or an orphan.
Swallow ==
    /\ busy
    /\ unnoticed' = TRUE
    /\ UNCHANGED <<crs, world, secrets, passes, missed>>

\* It may rest only if the copies are those asked for, as far as it can know.
Kept == \/ busy \/ told \/ unnoticed
        \/ Provided /\ \A k \in Existing : k \in missed \/ AskedFor(k)

\* A pass ends, or is given up.
End ==
    /\ busy
    /\ busy' = FALSE /\ claimed' = {}
    /\ told' \in {told, TRUE} /\ unnoticed' \in {unnoticed, TRUE}
    /\ Kept'
    /\ UNCHANGED <<crs, world, secrets, missed>>

Next == \/ \E g \in GitOpsClusters : SpecChanges(g)
        \/ \E p \in Placements : DecisionsChange(p)
        \/ \E c \in Clusters : SourceChanges(c)
        \/ \E k \in Keys : CopyIsLost(k) \/ Copy(k) \/ Delete(k)
        \/ \E a \in Argos : \E p \in Placements : Claim(a, p)
        \/ UnwatchedChange \/ Remind \/ Restart
        \/ Begin \/ Drop \/ Swallow \/ End

Spec == Init /\ [][Next]_vars
=============================================================================
