----------------------- MODULE MCAnalyzeProjectServer -----------------------
(* Model-checking instances of AnalyzeProjectServer.                       *)
EXTENDS AnalyzeProjectServer, TLC

CONSTANTS r1, r2, x1

TwoRequests == {r1, r2}
OneCancelCall == {x1}
MCCancellers == Requests \cup CancelCalls
FirstIsUnary == Requests \ {r1}

\* The calls of one kind are interchangeable.
Symmetry == Permutations(Streams)
=============================================================================
