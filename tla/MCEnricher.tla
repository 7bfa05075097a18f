----------------------------- MODULE MCEnricher -----------------------------
(* A small instance of Enricher for TLC.                                   *)
EXTENDS Enricher, TLC

CONSTANTS f1, f2, n1, l1, l2

\* Two versions of one name with one line each.
TwoNameOf == (f1 :> n1) @@ (f2 :> n1)
TwoRawOf == (l1 :> f1) @@ (l2 :> f2)
=============================================================================
