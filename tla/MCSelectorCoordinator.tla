----------------------- MODULE MCSelectorCoordinator -----------------------
(***************************************************************************)
(* Up to three contexts, of which some may be dropped after probing, with  *)
(* as many trainings as contexts or twice as many; a phase proposes at     *)
(* most one cached and one missing candidate.                              *)
(***************************************************************************)
EXTENDS SelectorCoordinator

MCBudgets    == {3, 6}
MCReserves   == {0, 2}
MCCandidates == {0, 1}
MCQuality    == {0, 2}
=============================================================================
