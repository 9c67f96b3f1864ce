----------------------------- MODULE MCEvalCache -----------------------------
(***************************************************************************)
(* Two models over one centroid set.  The budget holds the rank entry of   *)
(* the first only; that of the second exceeds it.  Two workers can then    *)
(* evict and rebuild an entry that a third waits for.                      *)
(***************************************************************************)
EXTENDS EvalCache, TLC

CONSTANTS w1, w2, w3, n1, r1, r2

MCNearestOf == [r \in RankKey |-> n1]
MCBytes     == [e \in Entry |-> IF e = r2 THEN 2 ELSE 1]
MCBudget    == [nearest |-> 1, rank |-> 1]
=============================================================================
