-------------------------- MODULE TsConfigSelection --------------------------
(***************************************************************************)
(* How an incremental analysis finds the tsconfig of a file                *)
(* (programOptionsFromClosestTsconfig of analyzeWithIncrementalProgram.ts):*)
(* it tries the tsconfigs of the store, the best match first, until one    *)
(* has the file among its root files.  Each one tried adds the tsconfigs   *)
(* it references to the very list the loop is reading                      *)
(* (TsConfigStore.addDiscoveredTsConfig), for this file and for those      *)
(* after it.                                                               *)
(*                                                                         *)
(* A path is a sequence of names.  Reading a tsconfig is external: it is   *)
(* broken, or it has root files and references.                            *)
(***************************************************************************)
EXTENDS Integers, Sequences, SequencesExt

CONSTANTS
    Files,
    TsConfigs,
    PathOf,       \* path of each file and tsconfig
    References,   \* the references of each tsconfig, in order
    InitialLists, \* lists the store may have when it is initialised
    Orphan,       \* the selection of a file that no tsconfig has
    None          \* no file; no selection

ASSUME NamesAssumption ==
    Orphan \notin TsConfigs /\ None \notin Files \cup TsConfigs \cup {Orphan}
ASSUME PathsAssumption ==
    /\ DOMAIN PathOf = Files \cup TsConfigs
    /\ \A x \in DOMAIN PathOf : PathOf[x] \in Seq(ToSet(PathOf[x])) /\ PathOf[x] # <<>>
ASSUME ReferencesAssumption == References \in [TsConfigs -> Seq(TsConfigs)]
ASSUME ListsAssumption ==
    \A l \in InitialLists : l \in Seq(TsConfigs) /\ IsInjective(l)

\* A tsconfig is a file: no path of a file of the project goes through it.  (startsWith
\* would also take web/tsconfig.json for the beginning of web/tsconfig.json.ts; files
\* named like that, beside the tsconfig, are left out.)  Only the stability of
\* selections rests on it.
ASSUME FilesAssumption ==
    \A t \in TsConfigs, f \in Files : ~IsPrefix(PathOf[t], PathOf[f])

VARIABLES
    list,       \* getTsConfigs(), live
    rootNames,  \* root files of each tsconfig
    broken,     \* tsconfigs that cannot be parsed
    file,       \* the file of the selection under way
    processed,  \* processedTsConfigs of that selection
    selection   \* what each file got last

vars == <<list, rootNames, broken, file, processed, selection>>

-----------------------------------------------------------------------------
Dirname(x) == Front(PathOf[x])

\* The places in the list of the candidates of an iteration:
\* getTsConfigs().filter(not processed).
Remaining == {i \in DOMAIN list : list[i] \notin processed}

\* pickBestMatchTsConfig: of the candidates whose path (not whose directory) begins
\* the path of the file, the first with the longest directory; without any, the
\* first of all.
BestMatch(f) ==
    LET matching == {i \in Remaining : IsPrefix(PathOf[list[i]], PathOf[f])}
        depth(i) == Len(Dirname(list[i]))
    IN  IF matching = {}
        THEN list[CHOOSE i \in Remaining : \A j \in Remaining : i <= j]
        ELSE list[CHOOSE i \in matching : \A j \in matching :
                    depth(j) < depth(i) \/ (depth(j) = depth(i) /\ i <= j)]

\* Mutant: unshift instead of push.
PutFirst(tsconfigs, t) ==
    IF t \in ToSet(tsconfigs) THEN tsconfigs ELSE <<t>> \o tsconfigs

\* addDiscoveredTsConfig: push, unless the list has it.
AddDiscovered(tsconfigs, t) ==
    IF t \in ToSet(tsconfigs) THEN tsconfigs ELSE Append(tsconfigs, t)

\* One reference after the other.
AddAll(tsconfigs, references) ==
    LET added[i \in 0..Len(references)] ==
            IF i = 0 THEN tsconfigs ELSE AddDiscovered(added[i - 1], references[i])
    IN  added[Len(references)]

\* Mutant: only the references of the tsconfig that has the file.
DiscoverIfUsed(t) == IF file \in rootNames[t] THEN AddAll(list, References[t]) ELSE list

\* The list after the references of t are added.
Discover(t) == AddAll(list, References[t])

-----------------------------------------------------------------------------
Init ==
    /\ list \in InitialLists
    /\ rootNames \in [TsConfigs -> SUBSET Files]
    /\ broken \in SUBSET TsConfigs
    /\ file = None
    /\ processed = {}
    /\ selection = [f \in Files |-> None]

\* createOrGetCachedProgramForFile asks for the options of f.
Ask(f) ==
    /\ file = None
    /\ file' = f
    /\ processed' = {}
    /\ UNCHANGED <<list, rootNames, broken, selection>>

Answer(result) ==
    /\ selection' = [selection EXCEPT ![file] = result]
    /\ file' = None

\* createProgramOptions throws: a warning, and on to the next.
SkipBroken(t) ==
    /\ t \in broken
    /\ processed' = processed \cup {t}
    /\ UNCHANGED <<list, file, selection>>

\* Its references are discovered, whether or not it has the file.
TryParsed(t) ==
    /\ t \notin broken
    /\ processed' = processed \cup {t}
    /\ list' = Discover(t)
    /\ IF file \in rootNames[t] THEN Answer(t) ELSE UNCHANGED <<file, selection>>

Iterate ==
    /\ file # None
    /\ Remaining # {}
    /\ LET t == BestMatch(file) IN SkipBroken(t) \/ TryParsed(t)
    /\ UNCHANGED <<rootNames, broken>>

\* No tsconfig has the file: the options of an orphan.
GiveUp ==
    /\ file # None
    /\ Remaining = {}
    /\ Answer(Orphan)
    /\ UNCHANGED <<list, rootNames, broken, processed>>

Next == (\E f \in Files : Ask(f)) \/ Iterate \/ GiveUp

Spec == Init /\ [][Next]_vars

-----------------------------------------------------------------------------
\* The type of the state; the list never has a tsconfig twice.
TypeOK ==
    /\ list \in Seq(TsConfigs) /\ IsInjective(list)
    /\ rootNames \in [TsConfigs -> SUBSET Files]
    /\ broken \subseteq TsConfigs
    /\ file \in Files \cup {None}
    /\ processed \subseteq ToSet(list)
    /\ selection \in [Files -> TsConfigs \cup {Orphan, None}]

Usable(f) == {t \in ToSet(list) \ broken : f \in rootNames[t]}

\* A file is an orphan only if no tsconfig that is listed and can be parsed has
\* it, those included that its own selection discovered.
CoveredFileIsNoOrphan ==
    \A f \in Files : selection[f] = Orphan => Usable(f) = {}

\* Asked again, in this or a later request, a file gets the tsconfig it had: what
\* other selections discovered meanwhile does not come before it.
SelectionIsStable ==
    [][\A f \in Files : selection[f] # None => selection'[f] = selection[f]]_vars

=============================================================================
