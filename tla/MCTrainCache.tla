---------------------------- MODULE MCTrainCache ----------------------------
(***************************************************************************)
(* A small selector: three keys, two of which share base, order and CDF,   *)
(* as candidates that differ only in a parameter outside those keys do.    *)
(***************************************************************************)
EXTENDS TrainCache, TLC

CONSTANTS w1, w2, k1, k2, k3, b1, o1, o2, c1, c2

MCBaseOf  == (k1 :> b1) @@ (k2 :> b1) @@ (k3 :> b1)
MCOrderOf == (k1 :> o1) @@ (k2 :> o1) @@ (k3 :> o2)
MCCdfOf   == (k1 :> c1) @@ (k2 :> c1) @@ (k3 :> c2)
=============================================================================
