----------------------- MODULE MCApplicationSetObjects -----------------------
(* A small instance of ApplicationSetObjects.                               *)
EXTENDS ApplicationSetObjects, TLC

CONSTANTS g1, g2, g3, a1

\* Two GitOpsClusters share a namespace, a third one names none.
MCArgoOf == (g1 :> a1) @@ (g2 :> a1) @@ (g3 :> Nil)
=============================================================================
