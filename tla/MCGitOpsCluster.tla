--------------------------- MODULE MCGitOpsCluster ---------------------------
(* Small instances of GitOpsCluster.                                        *)
EXTENDS GitOpsCluster, TLC

CONSTANTS g1, g2, a1, a2, c1, c2, p1, p2, v1, v2

Ref(argo, placement, skip) == [argo |-> argo, placement |-> placement, skip |-> skip]

\* Two GitOpsClusters with a Placement each share a namespace of Argo CD; one may move
\* to another one.
SharedArgo == (g1 :> {Ref(a1, p1, FALSE), Ref(a2, p1, FALSE)}) @@ (g2 :> {Ref(a1, p2, FALSE)})

\* One Placement for both; the first may be annotated.
OneArgo == (g1 :> {Ref(a1, p1, FALSE), Ref(a1, p1, TRUE)}) @@ (g2 :> {Ref(a1, p1, FALSE)})

\* One Placement for both; the first may refer to none.
OnePlacement == (g1 :> {Ref(a1, p1, FALSE), Ref(a1, Nil, FALSE)}) @@ (g2 :> {Ref(a1, p1, FALSE)})
=============================================================================
