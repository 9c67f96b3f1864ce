-------------------------- MODULE MCParallelRuntime --------------------------
(* Two callers, two pool threads, three tasks of which two may be in flight. *)
EXTENDS ParallelRuntime

CONSTANTS w1, w2
=============================================================================
