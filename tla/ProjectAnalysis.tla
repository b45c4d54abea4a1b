--------------------------- MODULE ProjectAnalysis ---------------------------
(***************************************************************************)
(* One analysis of a project (analyzeProject.ts): which loop analyses      *)
(* which file.  The scanner goes through the programs of the tsconfigs,    *)
(* discovering referenced ones on the way, and then through programs for   *)
(* the files no tsconfig has (analyzeWithProgram.ts); the IDE goes through *)
(* its files with a cached program each (analyzeWithIncrementalProgram.ts);*)
(* what is left is analysed without types (analyzeWithoutProgram.ts).      *)
(* All of them share pendingFiles.                                         *)
(*                                                                         *)
(* A step is a file, or what a loop does between two files.  A             *)
(* cancellation sets a flag at any time; the loops look at it before each  *)
(* file and each program.  What TypeScript makes of a tsconfig is          *)
(* external: a program of any files with any references, or an error.      *)
(* The order of the tsconfigs and of the files of a program is left open.  *)
(***************************************************************************)
EXTENDS Integers, Sequences

CONSTANTS
    Files,      \* files of the request
    JsTsFiles,  \* those that isJsTsFile says yes to
    OtherFiles, \* files outside the request that programs contain
    TsConfigs

ASSUME JsTsAssumption == JsTsFiles \subseteq Files

VARIABLES
    mode,       \* "scanner", "ide", or "untyped": no rules, or no type checking
    orphans,    \* createTSProgramForOrphanFiles
    phase,      \* the loop the analysis is in
    tsconfigs,  \* listed tsconfigs the loop has not come to
    processed,  \* processedTSConfigs
    batch,      \* files the innermost loop has not come to
    roots,      \* orphan files of the groups not yet begun
    pending,    \* pendingFiles
    cancelled,  \* analysisStatus.cancelled
    reported,   \* files whose results were handled, in order
    untyped,    \* those of them that were analysed without a program
    covered,    \* files of the programs of the tsconfigs (auxiliary)
    ended       \* how the analysis ended

loops  == <<phase, tsconfigs, processed, batch, roots>>
files  == <<pending, reported, untyped>>
params == <<mode, orphans>>
vars   == <<params, loops, files, cancelled, covered, ended>>

-----------------------------------------------------------------------------
Init ==
    /\ mode \in {"scanner", "ide", "untyped"}
    /\ orphans \in BOOLEAN
    /\ phase = "start"
    /\ tsconfigs \in SUBSET TsConfigs
    /\ processed = {}
    /\ batch = {}
    /\ roots = {}
    /\ pending = Files
    /\ cancelled = FALSE
    /\ reported = <<>>
    /\ untyped = {}
    /\ covered = {}
    /\ ended = "no"

\* analyzeWithoutProgram iterates over pendingFiles, which no longer changes.
GoOnWithoutProgram ==
    /\ phase' = "untyped"
    /\ batch' = pending

-----------------------------------------------------------------------------
(* analyzeProjectWithCancellation: the choice of the first loop.            *)

Start ==
    /\ phase = "start"
    /\ CASE mode = "scanner" -> phase' = "tsconfigs" /\ UNCHANGED batch
         [] mode = "ide"     -> phase' = "incremental" /\ batch' = pending \cap JsTsFiles
         [] mode = "untyped" -> GoOnWithoutProgram
    /\ UNCHANGED <<params, tsconfigs, processed, roots, files, cancelled, covered, ended>>

-----------------------------------------------------------------------------
(* analyzeWithProgram: tsconfigs, then orphan files.                        *)

TakeTsConfig(t) ==
    /\ phase = "tsconfigs"
    /\ t \in tsconfigs
    /\ ~cancelled
    /\ pending # {}
    /\ processed' = processed \cup {t}

\* createProgramOptions throws: a warning, and on to the next tsconfig.
SkipTsConfig(t) ==
    /\ TakeTsConfig(t)
    /\ tsconfigs' = tsconfigs \ {t}
    /\ UNCHANGED <<params, phase, batch, roots, files, cancelled, covered, ended>>

\* Mutant: references are listed again although they were processed.
OpenProgramAgain(t, program, references) ==
    /\ TakeTsConfig(t)
    /\ tsconfigs' = (tsconfigs \ {t}) \cup references
    /\ phase' = "program"
    /\ batch' = program \cap pending
    /\ covered' = covered \cup program
    /\ UNCHANGED <<params, roots, files, cancelled, ended>>

\* A program with these files: those still pending are analysed.  Its references
\* join the live list the loop iterates over.
OpenProgram(t, program, references) ==
    /\ TakeTsConfig(t)
    /\ tsconfigs' = (tsconfigs \ {t}) \cup (references \ processed')
    /\ phase' = "program"
    /\ batch' = program \cap pending
    /\ covered' = covered \cup program
    /\ UNCHANGED <<params, roots, files, cancelled, ended>>

\* The program's loop ends, or stops for a cancellation.
CloseProgram ==
    /\ phase = "program"
    /\ cancelled \/ batch = {}
    /\ phase' = "tsconfigs"
    /\ batch' = {}
    /\ UNCHANGED <<params, tsconfigs, processed, roots, files, cancelled, covered, ended>>

\* The loop over the tsconfigs stops for a cancellation: so does analyzeWithProgram.
StopTsConfigs ==
    /\ phase = "tsconfigs"
    /\ tsconfigs # {} /\ cancelled
    /\ GoOnWithoutProgram
    /\ UNCHANGED <<params, tsconfigs, processed, roots, files, cancelled, covered, ended>>

\* It ends: analyzeFilesFromEntryPoint takes the pending files that are JS or TS,
\* if programs are made for orphans.
EndTsConfigs ==
    /\ phase = "tsconfigs"
    /\ tsconfigs = {} \/ (~cancelled /\ pending = {})
    /\ IF orphans
       THEN phase' = "entry point" /\ roots' = pending \cap JsTsFiles /\ UNCHANGED batch
       ELSE GoOnWithoutProgram /\ UNCHANGED roots
    /\ UNCHANGED <<params, tsconfigs, processed, files, cancelled, covered, ended>>

\* Mutant: one program for the first group only.
OpenOnlyGroup(group) ==
    /\ phase = "entry point"
    /\ ~cancelled
    /\ group # {} /\ group \subseteq roots
    /\ batch' = group
    /\ roots' = {}
    /\ phase' = "group"
    /\ UNCHANGED <<params, tsconfigs, processed, files, cancelled, covered, ended>>

\* A program for the orphans of one group: those whose package has the same lib.
OpenGroup(group) ==
    /\ phase = "entry point"
    /\ ~cancelled
    /\ group # {} /\ group \subseteq roots
    /\ batch' = group
    /\ roots' = roots \ group
    /\ phase' = "group"
    /\ UNCHANGED <<params, tsconfigs, processed, files, cancelled, covered, ended>>

CloseGroup ==
    /\ phase = "group"
    /\ cancelled \/ batch = {}
    /\ phase' = "entry point"
    /\ batch' = {}
    /\ UNCHANGED <<params, tsconfigs, processed, roots, files, cancelled, covered, ended>>

EndEntryPoint ==
    /\ phase = "entry point"
    /\ cancelled \/ roots = {}
    /\ GoOnWithoutProgram
    /\ UNCHANGED <<params, tsconfigs, processed, roots, files, cancelled, covered, ended>>

-----------------------------------------------------------------------------
(* analyzeWithIncrementalProgram.                                           *)

EndIncremental ==
    /\ phase = "incremental"
    /\ cancelled \/ batch = {}
    /\ GoOnWithoutProgram
    /\ UNCHANGED <<params, tsconfigs, processed, roots, files, cancelled, covered, ended>>

-----------------------------------------------------------------------------
(* analyzeFile, and the end.                                                *)

NextFile(f) ==
    /\ f \in batch
    /\ ~cancelled
    /\ batch' = batch \ {f}
    /\ reported' = Append(reported, f)
    /\ UNCHANGED <<params, phase, tsconfigs, processed, roots, cancelled, covered, ended>>

\* Mutant: pendingFiles.delete is forgotten.
AnalyzeTypedAndKeep(f) ==
    /\ phase \in {"program", "group", "incremental"}
    /\ NextFile(f)
    /\ UNCHANGED <<pending, untyped>>

\* A file of a loop that passes pendingFiles on.  (An IDE file may get no program;
\* it is analysed in this loop all the same.)
AnalyzeTyped(f) ==
    /\ phase \in {"program", "group", "incremental"}
    /\ NextFile(f)
    /\ pending' = pending \ {f}
    /\ UNCHANGED untyped

\* analyzeWithoutProgram passes undefined for pendingFiles.
AnalyzeUntyped(f) ==
    /\ phase = "untyped"
    /\ NextFile(f)
    /\ untyped' = untyped \cup {f}
    /\ UNCHANGED pending

\* Mutant: the last event does not depend on the cancellation.
FinishAnyway ==
    /\ phase = "untyped"
    /\ cancelled \/ batch = {}
    /\ phase' = "end"
    /\ ended' = "meta"
    /\ UNCHANGED <<params, tsconfigs, processed, batch, roots, files, cancelled, covered>>

\* The last event: "cancelled", or the final data.
Finish ==
    /\ phase = "untyped"
    /\ cancelled \/ batch = {}
    /\ phase' = "end"
    /\ ended' = IF cancelled THEN "cancelled" ELSE "meta"
    /\ UNCHANGED <<params, tsconfigs, processed, batch, roots, files, cancelled, covered>>

\* Nothing catches an exception of Linter.initialize, createStandardProgram or the
\* incremental program: the analysis is rejected.  (That of a file becomes its result.)
Fail ==
    /\ \/ phase = "start"
       \/ ~cancelled /\ phase = "tsconfigs" /\ tsconfigs # {} /\ pending # {}
       \/ ~cancelled /\ phase = "entry point" /\ roots # {}
       \/ ~cancelled /\ phase = "incremental" /\ batch # {}
    /\ phase' = "end"
    /\ ended' = "failed"
    /\ UNCHANGED <<params, tsconfigs, processed, batch, roots, files, cancelled, covered>>

\* cancelAnalysis, from the worker's message handler.
Cancel ==
    /\ ended = "no"
    /\ ~cancelled
    /\ cancelled' = TRUE
    /\ UNCHANGED <<params, loops, files, covered, ended>>

AnalyzeWithProgram ==
    \/ \E t \in TsConfigs :
          \/ SkipTsConfig(t)
          \/ \E program \in SUBSET (Files \cup OtherFiles),
                references \in SUBSET TsConfigs :
                OpenProgram(t, program, references)
    \/ CloseProgram \/ StopTsConfigs \/ EndTsConfigs
    \/ \E group \in SUBSET Files : OpenGroup(group)
    \/ CloseGroup \/ EndEntryPoint

AnalyzeSomeFile == \E f \in Files : AnalyzeTyped(f) \/ AnalyzeUntyped(f)

Analyze ==
    Start \/ AnalyzeWithProgram \/ EndIncremental \/ AnalyzeSomeFile \/ Finish \/ Fail

Next == Analyze \/ Cancel

Spec == Init /\ [][Next]_vars

\* The analysis goes on, if no file hangs.
FairSpec == Spec /\ WF_vars(Analyze)

-----------------------------------------------------------------------------
\* The type of the state.
TypeOK ==
    /\ mode \in {"scanner", "ide", "untyped"}
    /\ orphans \in BOOLEAN
    /\ phase \in {"start", "tsconfigs", "program", "entry point", "group",
                  "incremental", "untyped", "end"}
    /\ tsconfigs \subseteq TsConfigs
    /\ processed \subseteq TsConfigs
    /\ batch \subseteq Files
    /\ roots \subseteq Files
    /\ pending \subseteq Files
    /\ cancelled \in BOOLEAN
    /\ reported \in Seq(Files)
    /\ untyped \subseteq Files
    /\ covered \subseteq Files \cup OtherFiles
    /\ ended \in {"no", "meta", "cancelled", "failed"}

Results == INSTANCE AnalysisResults

\* The loops, whatever the tsconfigs contain and reference and whenever a
\* cancellation comes, together keep the promise of AnalysisResults: no file is
\* reported twice, and all are before the final data.
ResultsSpec == Results!ResultsSpec

Unreported == {f \in Files : ~Results!IsReported(f)}

\* The files the loops have still to analyse are those not reported, and no two
\* loops have the same file before them.
EachFileInOneLoop ==
    /\ phase \notin {"untyped", "end"} =>
          /\ pending = Unreported
          /\ batch \subseteq pending /\ roots \subseteq pending
          /\ batch \cap roots = {}
    /\ phase = "untyped" => batch = Unreported
    /\ phase \in {"start", "tsconfigs"} => batch = {} /\ roots = {}
    /\ phase \in {"program", "incremental"} => roots = {}
    /\ phase = "entry point" => batch = {}
    /\ phase = "end" <=> ended # "no"

\* A scanner analysis leaves no file without types that a tsconfig's program
\* contained, nor any JS/TS file if it makes programs for orphans.
TypedWherePossible ==
    mode = "scanner" =>
        /\ untyped \cap covered = {}
        /\ orphans => untyped \cap JsTsFiles = {}

\* Every analysis ends, although its tsconfigs may reference each other.
AnalysisEnds == <>(ended # "no")
=============================================================================
