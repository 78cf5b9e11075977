---------------------------- MODULE CopyRequests ----------------------------
(****************************************************************************)
(* Which copies GitOpsClusters ask for: of the secrets of the clusters that *)
(* the PlacementDecisions of their Placement name, in their Argo CD server's*)
(* namespace, provided the Placement itself is there.  Placements, decisions*)
(* and GitOpsClusters live in one namespace.                                *)
(****************************************************************************)
EXTENDS Naturals, FiniteSets

CONSTANTS GitOpsClusters, Argos, Clusters, Placements,
          Versions,    \* contents of a managed cluster's secret
          Nil          \* absent

Keys == Argos \X Clusters

\* placement: the Placement named by spec.placementRef; Nil: a reference of the
\* wrong kind or version.  skip: the skipArgoNamespaceVerify annotation.
SpecRecord == [argo : Argos, placement : Placements \cup {Nil}, skip : BOOLEAN]

VARIABLES crs,          \* GitOpsClusters in the API server: their specs
          present,      \* Placements in their informer
          placed,       \* clusters in the PlacementDecisions of a Placement
          source,       \* secrets in the managed clusters' namespaces
          argoUp,       \* namespaces with an Argo CD server service
          secrets       \* copies in the API server

world  == <<present, placed, source, argoUp>>

OnlyAnnotated(old, new) ==
    old # Nil /\ new # Nil /\ old # new /\ old = [new EXCEPT !.skip = old.skip]

\* GetManagedClusters of the controller finds clusters, be it none: the Placement
\* and a decision of its.
Readable(p) == p # Nil /\ p \in present /\ placed[p] # Nil

\* What g asks for, of what can be had.
Asked(g) == IF crs[g] # Nil /\ Readable(crs[g].placement)
                   /\ (crs[g].skip \/ crs[g].argo \in argoUp)
            THEN {crs[g].argo} \X placed[crs[g].placement] ELSE {}

AskedFor(k) == \E g \in GitOpsClusters : k \in Asked(g)

Served(g) == \A k \in Asked(g) : source[k[2]] # Nil => secrets[k] = source[k[2]]

Provided == \A g \in GitOpsClusters : Served(g)
=============================================================================
