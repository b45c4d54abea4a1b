------------------------ MODULE ProjectAnalysisProofs ------------------------
(* Proofs about ProjectAnalysis for every request and every set of tsconfigs, *)
(* whatever these contain and reference.                                      *)
EXTENDS ProjectAnalysis, SequenceTheorems, TLAPS

-----------------------------------------------------------------------------
(* Types.                                                                    *)

LEMMA TypeInit == Init => TypeOK
<1> SUFFICES ASSUME Init PROVE TypeOK
  OBVIOUS
<1>1. <<>> \in Seq(Files)
  OBVIOUS
<1>2. reported \in Seq(Files)
  BY <1>1 DEF Init
<1> QED
  BY <1>2 DEF Init, TypeOK

LEMMA TypeStep == TypeOK /\ [Next]_vars => TypeOK'
<1> SUFFICES ASSUME TypeOK, [Next]_vars PROVE TypeOK'
  OBVIOUS
<1> USE DEF TypeOK, params, loops, files, GoOnWithoutProgram, TakeTsConfig
<1>1. CASE Start
  BY <1>1 DEF Start
<1>2. ASSUME NEW t \in TsConfigs, SkipTsConfig(t) PROVE TypeOK'
  BY <1>2 DEF SkipTsConfig
<1>3. ASSUME NEW t \in TsConfigs, NEW program \in SUBSET (Files \cup OtherFiles),
             NEW references \in SUBSET TsConfigs, OpenProgram(t, program, references)
      PROVE  TypeOK'
  BY <1>3 DEF OpenProgram
<1>4. CASE CloseProgram \/ CloseGroup
  BY <1>4 DEF CloseProgram, CloseGroup
<1>5. CASE StopTsConfigs \/ EndEntryPoint \/ EndIncremental
  BY <1>5 DEF StopTsConfigs, EndEntryPoint, EndIncremental
<1>6. CASE EndTsConfigs
  BY <1>6 DEF EndTsConfigs
<1>7. ASSUME NEW group \in SUBSET Files, OpenGroup(group) PROVE TypeOK'
  BY <1>7 DEF OpenGroup
<1>8. ASSUME NEW f \in Files, AnalyzeTyped(f) \/ AnalyzeUntyped(f) PROVE TypeOK'
  <2>1. reported' = Append(reported, f)
    BY <1>8 DEF AnalyzeTyped, AnalyzeUntyped, NextFile
  <2>2. reported' \in Seq(Files)
    BY <2>1, AppendProperties
  <2>3. /\ pending' \subseteq Files
        /\ untyped' \subseteq Files
        /\ batch' \subseteq Files
    BY <1>8 DEF AnalyzeTyped, AnalyzeUntyped, NextFile
  <2>4. UNCHANGED <<params, phase, tsconfigs, processed, roots, cancelled, covered, ended>>
    BY <1>8 DEF AnalyzeTyped, AnalyzeUntyped, NextFile
  <2> QED
    BY <2>2, <2>3, <2>4
<1>9. CASE Finish \/ Fail
  BY <1>9 DEF Finish, Fail
<1>10. CASE Cancel
  BY <1>10 DEF Cancel
<1>11. CASE UNCHANGED vars
  BY <1>11 DEF vars
<1> QED
  BY <1>1, <1>2, <1>3, <1>4, <1>5, <1>6, <1>7, <1>8, <1>9, <1>10, <1>11
     DEF Next, Analyze, AnalyzeWithProgram, AnalyzeSomeFile

\* The variables of an analysis keep their types.
THEOREM AnalysisTypeCorrect == Spec => []TypeOK
BY TypeInit, TypeStep, PTL DEF Spec

-----------------------------------------------------------------------------
(* Each file is before one loop.                                             *)

\* Reporting f takes f, and nothing else, from the files not reported.
LEMMA ReportTakesOne ==
    ASSUME TypeOK, NEW f \in Files, reported' = Append(reported, f)
    PROVE  Unreported' = Unreported \ {f}
<1>1. /\ DOMAIN reported = 1..Len(reported)
      /\ DOMAIN reported' = 1..(Len(reported) + 1)
      /\ Len(reported) \in Nat
      /\ reported'[Len(reported) + 1] = f
      /\ \A i \in 1..Len(reported) : reported'[i] = reported[i]
  <2>1. reported \in Seq(Files)
    BY DEF TypeOK
  <2>2. DOMAIN reported = 1..Len(reported) /\ Len(reported) \in Nat
    BY <2>1, LenProperties
  <2>3. /\ Append(reported, f) \in Seq(Files)
        /\ Len(Append(reported, f)) = Len(reported) + 1
        /\ \A i \in 1..Len(reported) : Append(reported, f)[i] = reported[i]
        /\ Append(reported, f)[Len(reported) + 1] = f
    BY <2>1, AppendProperties
  <2>4. DOMAIN Append(reported, f) = 1..(Len(reported) + 1)
    BY <2>3, LenProperties
  <2> QED
    BY <2>2, <2>3, <2>4
<1>2. ASSUME NEW g \in Files
      PROVE  (\E i \in DOMAIN reported' : reported'[i] = g)
                <=> (g = f \/ \E i \in DOMAIN reported : reported[i] = g)
  <2>1. ASSUME NEW i \in DOMAIN reported', reported'[i] = g
        PROVE  g = f \/ \E j \in DOMAIN reported : reported[j] = g
    BY <1>1, <2>1
  <2>2. ASSUME g = f PROVE \E i \in DOMAIN reported' : reported'[i] = g
    BY <1>1, <2>2
  <2>3. ASSUME NEW i \in DOMAIN reported, reported[i] = g
        PROVE  \E j \in DOMAIN reported' : reported'[j] = g
    BY <1>1, <2>3
  <2> QED
    BY <2>1, <2>2, <2>3
<1> QED
  BY <1>2 DEF Unreported, Results!IsReported

LEMMA OneLoopInit == Init => EachFileInOneLoop
<1> SUFFICES ASSUME Init PROVE EachFileInOneLoop
  OBVIOUS
<1>1. Unreported = Files
  BY DEF Init, Unreported, Results!IsReported
<1> QED
  BY <1>1 DEF Init, EachFileInOneLoop

LEMMA OneLoopStep ==
    TypeOK /\ EachFileInOneLoop /\ [Next]_vars => EachFileInOneLoop'
<1> SUFFICES ASSUME TypeOK, EachFileInOneLoop, [Next]_vars PROVE EachFileInOneLoop'
  OBVIOUS
<1>0. ASSUME UNCHANGED reported PROVE Unreported' = Unreported
  BY <1>0 DEF Unreported, Results!IsReported
<1> USE DEF EachFileInOneLoop, params, loops, files, GoOnWithoutProgram, TakeTsConfig
<1>1. CASE Start
  BY <1>0, <1>1 DEF Start, TypeOK
<1>2. ASSUME NEW t \in TsConfigs, SkipTsConfig(t) PROVE EachFileInOneLoop'
  BY <1>0, <1>2 DEF SkipTsConfig
<1>3. ASSUME NEW t \in TsConfigs, NEW program \in SUBSET (Files \cup OtherFiles),
             NEW references \in SUBSET TsConfigs, OpenProgram(t, program, references)
      PROVE  EachFileInOneLoop'
  BY <1>0, <1>3 DEF OpenProgram
<1>4. CASE CloseProgram \/ CloseGroup
  BY <1>0, <1>4 DEF CloseProgram, CloseGroup
<1>5. CASE StopTsConfigs \/ EndEntryPoint \/ EndIncremental
  BY <1>0, <1>5 DEF StopTsConfigs, EndEntryPoint, EndIncremental
<1>6. CASE EndTsConfigs
  BY <1>0, <1>6 DEF EndTsConfigs
<1>7. ASSUME NEW group \in SUBSET Files, OpenGroup(group) PROVE EachFileInOneLoop'
  BY <1>0, <1>7 DEF OpenGroup
<1>8. ASSUME NEW f \in Files, AnalyzeTyped(f) PROVE EachFileInOneLoop'
  <2>1. /\ Unreported' = Unreported \ {f}
        /\ pending' = pending \ {f} /\ batch' = batch \ {f} /\ f \in batch
        /\ UNCHANGED <<phase, roots, ended>>
        /\ phase \in {"program", "group", "incremental"}
    BY <1>8, ReportTakesOne DEF AnalyzeTyped, NextFile
  <2> QED
    BY <2>1
<1>9. ASSUME NEW f \in Files, AnalyzeUntyped(f) PROVE EachFileInOneLoop'
  <2>1. /\ Unreported' = Unreported \ {f}
        /\ batch' = batch \ {f}
        /\ UNCHANGED <<phase, ended>>
        /\ phase = "untyped"
    BY <1>9, ReportTakesOne DEF AnalyzeUntyped, NextFile
  <2> QED
    BY <2>1
<1>10. CASE Finish
  BY <1>10 DEF Finish
<1>11. CASE Fail
  BY <1>11 DEF Fail
<1>12. CASE Cancel
  BY <1>0, <1>12 DEF Cancel
<1>13. CASE UNCHANGED vars
  BY <1>0, <1>13 DEF vars
<1> QED
  BY <1>1, <1>2, <1>3, <1>4, <1>5, <1>6, <1>7, <1>8, <1>9, <1>10, <1>11, <1>12, <1>13
     DEF Next, Analyze, AnalyzeWithProgram, AnalyzeSomeFile

\* At any time the files not yet reported are those the loops still come to, and
\* each is before one loop only.
THEOREM OneLoopCorrect == Spec => []EachFileInOneLoop
<1>1. Init => TypeOK /\ EachFileInOneLoop
  BY TypeInit, OneLoopInit
<1>2. (TypeOK /\ EachFileInOneLoop) /\ [Next]_vars => (TypeOK /\ EachFileInOneLoop)'
  BY TypeStep, OneLoopStep
<1> QED
  BY <1>1, <1>2, PTL DEF Spec

-----------------------------------------------------------------------------
(* The loops implement AnalysisResults.                                      *)

LEMMA ResultsInit == Init => Results!Init
BY DEF Init, Results!Init

LEMMA ResultsStep ==
    TypeOK /\ EachFileInOneLoop /\ [Next]_vars => [Results!Next]_(Results!resultVars)
<1> SUFFICES ASSUME TypeOK, EachFileInOneLoop, [Next]_vars
             PROVE  Results!Next \/ UNCHANGED Results!resultVars
  OBVIOUS
<1>1. ASSUME UNCHANGED <<reported, ended>> PROVE UNCHANGED Results!resultVars
  BY <1>1 DEF Results!resultVars
<1> USE DEF params, loops, files
<1>2. ASSUME NEW f \in Files, AnalyzeTyped(f) \/ AnalyzeUntyped(f)
      PROVE  Results!Next
  <2>1. f \in Unreported /\ ended = "no"
    BY <1>2 DEF AnalyzeTyped, AnalyzeUntyped, NextFile, EachFileInOneLoop
  <2>2. Results!Report(f)
    BY <1>2, <2>1
       DEF AnalyzeTyped, AnalyzeUntyped, NextFile, Results!Report, Unreported
  <2> QED
    BY <2>2 DEF Results!Next
<1>3. CASE Finish
  <2>1. ended = "no" /\ UNCHANGED reported
    BY <1>3 DEF Finish, EachFileInOneLoop
  <2>2. CASE cancelled
    BY <1>3, <2>1, <2>2 DEF Finish, Results!BreakOff, Results!Next
  <2>3. CASE ~cancelled
    <3>1. Unreported = {} /\ ended' = "meta"
      BY <1>3, <2>3 DEF Finish, EachFileInOneLoop
    <3>2. Results!Complete
      BY <2>1, <3>1 DEF Results!Complete, Unreported
    <3> QED
      BY <3>2 DEF Results!Next
  <2> QED
    BY <2>2, <2>3
<1>4. CASE Fail
  BY <1>4 DEF Fail, EachFileInOneLoop, Results!BreakOff, Results!Next
<1>5. CASE Start
  BY <1>1, <1>5 DEF Start
<1>6. ASSUME NEW t \in TsConfigs, SkipTsConfig(t) PROVE UNCHANGED Results!resultVars
  BY <1>1, <1>6 DEF SkipTsConfig
<1>7. ASSUME NEW t \in TsConfigs, NEW program, NEW references,
             OpenProgram(t, program, references)
      PROVE  UNCHANGED Results!resultVars
  BY <1>1, <1>7 DEF OpenProgram
<1>8. CASE CloseProgram \/ CloseGroup \/ StopTsConfigs \/ EndTsConfigs
  BY <1>1, <1>8 DEF CloseProgram, CloseGroup, StopTsConfigs, EndTsConfigs
<1>9. CASE EndEntryPoint \/ EndIncremental \/ Cancel
  BY <1>1, <1>9 DEF EndEntryPoint, EndIncremental, Cancel
<1>10. ASSUME NEW group, OpenGroup(group) PROVE UNCHANGED Results!resultVars
  BY <1>1, <1>10 DEF OpenGroup
<1>11. CASE UNCHANGED vars
  BY <1>1, <1>11 DEF vars
<1> QED
  BY <1>2, <1>3, <1>4, <1>5, <1>6, <1>7, <1>8, <1>9, <1>10, <1>11
     DEF Next, Analyze, AnalyzeWithProgram, AnalyzeSomeFile

\* Whatever the programs contain, no file is reported twice, nothing after the
\* end, and everything before the final data.
THEOREM LoopsImplementResults == Spec => ResultsSpec
BY ResultsInit, ResultsStep, AnalysisTypeCorrect, OneLoopCorrect, PTL
   DEF Spec, ResultsSpec, Results!ResultsSpec

-----------------------------------------------------------------------------
(* No file loses its types.                                                  *)

\* What the loops of a scanner analysis have still before them: a covered file is
\* pending only while its own program is open, an orphan only while it is a root
\* or in the open group.  After a cancellation nothing is analysed any more.
TypedInv ==
    mode = "scanner" =>
        /\ phase # "incremental"
        /\ phase \notin {"untyped", "end"} => untyped = {}
        /\ untyped \cap covered = {}
        /\ orphans => untyped \cap JsTsFiles = {}
        /\ ~cancelled =>
              /\ phase \in {"start", "tsconfigs", "entry point", "group"} =>
                    covered \cap pending = {}
              /\ phase = "program" => covered \cap pending \subseteq batch
              /\ phase = "untyped" => covered \cap batch = {}
              /\ orphans =>
                    /\ phase = "entry point" => pending \cap JsTsFiles \subseteq roots
                    /\ phase = "group" =>
                          pending \cap JsTsFiles \subseteq roots \cup batch
                    /\ phase = "untyped" => batch \cap JsTsFiles = {}

LEMMA TypedInit == Init => TypedInv
BY DEF Init, TypedInv

LEMMA TypedStep == TypeOK /\ TypedInv /\ [Next]_vars => TypedInv'
<1> SUFFICES ASSUME TypeOK, TypedInv, [Next]_vars, mode' = "scanner" PROVE TypedInv'
  BY DEF TypedInv
<1>0. mode = "scanner"
  <2>1. mode' = mode
    BY DEF Next, Analyze, AnalyzeWithProgram, AnalyzeSomeFile, vars, params, Start,
           SkipTsConfig, OpenProgram, CloseProgram, StopTsConfigs, EndTsConfigs,
           OpenGroup, CloseGroup, EndEntryPoint, EndIncremental, AnalyzeTyped,
           AnalyzeUntyped, NextFile, Finish, Fail, Cancel
  <2> QED
    BY <2>1
<1> USE <1>0 DEF TypedInv, params, loops, files, GoOnWithoutProgram, TakeTsConfig
<1>1. CASE Start
  BY <1>1 DEF Start
<1>2. ASSUME NEW t \in TsConfigs, SkipTsConfig(t) PROVE TypedInv'
  BY <1>2 DEF SkipTsConfig
<1>3. ASSUME NEW t \in TsConfigs, NEW program \in SUBSET (Files \cup OtherFiles),
             NEW references \in SUBSET TsConfigs, OpenProgram(t, program, references)
      PROVE  TypedInv'
  BY <1>3 DEF OpenProgram
<1>4. CASE CloseProgram
  BY <1>4 DEF CloseProgram
<1>5. CASE StopTsConfigs
  BY <1>5 DEF StopTsConfigs
<1>6. CASE EndTsConfigs
  <2>1. CASE orphans
    BY <1>6, <2>1 DEF EndTsConfigs
  <2>2. CASE ~orphans
    BY <1>6, <2>2 DEF EndTsConfigs
  <2> QED
    BY <2>1, <2>2
<1>7. ASSUME NEW group \in SUBSET Files, OpenGroup(group) PROVE TypedInv'
  BY <1>7 DEF OpenGroup
<1>8. CASE CloseGroup
  BY <1>8 DEF CloseGroup
<1>9. CASE EndEntryPoint
  BY <1>9 DEF EndEntryPoint
<1>10. CASE EndIncremental
  BY <1>10 DEF EndIncremental
<1>11. ASSUME NEW f \in Files, AnalyzeTyped(f) PROVE TypedInv'
  BY <1>11 DEF AnalyzeTyped, NextFile
<1>12. ASSUME NEW f \in Files, AnalyzeUntyped(f) PROVE TypedInv'
  BY <1>12 DEF AnalyzeUntyped, NextFile
<1>13. CASE Finish \/ Fail
  BY <1>13 DEF Finish, Fail
<1>14. CASE Cancel
  BY <1>14 DEF Cancel
<1>15. CASE UNCHANGED vars
  BY <1>15 DEF vars
<1> QED
  BY <1>1, <1>2, <1>3, <1>4, <1>5, <1>6, <1>7, <1>8, <1>9, <1>10, <1>11, <1>12,
     <1>13, <1>14, <1>15
     DEF Next, Analyze, AnalyzeWithProgram, AnalyzeSomeFile

\* In a scanner analysis no file of an opened program, and no orphan if orphans get
\* programs, is analysed without types.
THEOREM TypedCorrect == Spec => []TypedWherePossible
<1>1. TypedInv => TypedWherePossible
  BY DEF TypedInv, TypedWherePossible
<1> QED
  BY <1>1, TypeInit, TypeStep, TypedInit, TypedStep, PTL DEF Spec
=============================================================================
