------------------------- MODULE MCLoopCoordinator -------------------------
(* Instances of LoopCoordinator for TLC.  Requests are interchangeable, so *)
(* are the goroutines of run.                                              *)
EXTENDS LoopCoordinator, TLC

Symmetry == Permutations(Callers) \cup Permutations(Runners)
=============================================================================
