------------------------ MODULE MCCandidateScheduler ------------------------
(***************************************************************************)
(* Batches of up to three candidates, pools of up to two workers and the   *)
(* thread for missing models, under a deadline that may pass at any time.  *)
(***************************************************************************)
EXTENDS CandidateScheduler
=============================================================================
