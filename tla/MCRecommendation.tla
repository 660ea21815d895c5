------------------------- MODULE MCRecommendation -------------------------
(* Small instances of Recommendation for TLC. *)
EXTENDS Recommendation, TLC

CONSTANTS r1, r2, k1, k2, c1, c2, t1

\* Every recommendation acts on the same object.
OneTarget == [r \in Recs |-> t1]
===========================================================================
