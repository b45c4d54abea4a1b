--------------------------- MODULE MCAnalysisQueue --------------------------
(* Model-checking instances of AnalysisQueue.                              *)
EXTENDS AnalysisQueue, TLC

Symmetry == Permutations(Requests) \cup Permutations(Cancellers)
=============================================================================
