--------------------------- MODULE AnalysisResults ---------------------------
(***************************************************************************)
(* What an analysis of a project promises to whoever reads its results: it *)
(* reports files of the request, none of them twice, and all of them       *)
(* before it ends with its final data.  It may be cancelled or fail at any *)
(* point, and reports nothing after its end.                               *)
(***************************************************************************)
EXTENDS Sequences

CONSTANT Files   \* files of the request

VARIABLES
    reported,   \* the files reported, in order
    ended       \* "no", "meta", "cancelled" or "failed"

resultVars == <<reported, ended>>

IsReported(f) == \E i \in DOMAIN reported : reported[i] = f

Init == reported = <<>> /\ ended = "no"

Report(f) ==
    /\ ended = "no"
    /\ ~IsReported(f)
    /\ reported' = Append(reported, f)
    /\ UNCHANGED ended

Complete ==
    /\ ended = "no"
    /\ \A f \in Files : IsReported(f)
    /\ ended' = "meta"
    /\ UNCHANGED reported

BreakOff ==
    /\ ended = "no"
    /\ ended' \in {"cancelled", "failed"}
    /\ UNCHANGED reported

Next == (\E f \in Files : Report(f)) \/ Complete \/ BreakOff

ResultsSpec == Init /\ [][Next]_resultVars
=============================================================================
