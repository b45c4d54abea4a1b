----------------------------- MODULE FileStores -----------------------------
(* What the analyzer process remembers of a project between two requests:  *)
(* the tsconfig store with the programs built from it, the dependency      *)
(* manifest store and the generated source store (file-stores/), kept      *)
(* current by the file events the IDE sends with each request              *)
(* (FSListenerImpl, WebSensor.getRequest).                                 *)
(*                                                                         *)
(* A file of the project is a tsconfig.json, another TypeScript            *)
(* configuration, or a manifest; its content is a version, 0 when it does  *)
(* not exist.  The walk reads one file per step while the project changes. *)
(* Requests bring their source files and may read the file system: the     *)
(* source file store, reseeded by each request, and the simulated walk are *)
(* left out, and so are files that decide what is generated other than     *)
(* manifests.                                                              *)
EXTENDS Naturals, FiniteSets

CONSTANTS
    TsConfigJsons,  \* the paths named tsconfig.json
    OtherConfigs,   \* configurations under another name
    Manifests,      \* the paths of dependency manifests
    Configurations, \* what requests are configured with
    MaxVersion,     \* bound: contents a file may have
    MaxChanges,     \* bound: changes of the project
    MaxRequests     \* bound: requests

TsConfigs == TsConfigJsons \cup OtherConfigs
Paths == TsConfigs \cup Manifests

\* excluded stands for jsTsExclusions, provided for the tsConfigPaths.
ASSUME ConfigurationsAssumption ==
    Configurations \subseteq
      [sonarlint : BOOLEAN, excluded : SUBSET Paths, provided : SUBSET TsConfigs]
ASSUME KindsAssumption ==
    TsConfigJsons \cap OtherConfigs = {} /\ TsConfigs \cap Manifests = {}
ASSUME BoundsAssumption ==
    MaxVersion \in Nat /\ MaxChanges \in Nat /\ MaxRequests \in Nat

VARIABLES
    disk,       \* the version of each file
    changes,    \* how often the project changed
    events,     \* changedFilesMap of the listener
    phase,      \* of the current request
    request,    \* its configuration
    fsEvents,   \* and its file events
    requests,   \* how many there were
    pending,    \* pendingStores
    toVisit,    \* what the walk has not visited yet
    tsStore,    \* tsConfigStore: for which configuration, and what it found
    manifests,  \* dependencyManifestStore: for which exclusions, and what it read
    generated,  \* generatedSourceStore: for which exclusions, from which manifests
    programs,   \* the version of each tsconfig that its cached options and programs have
    missed,     \* changes whose events no request brought to the stores
    halfFilled  \* stores whose walk failed

environmentVars == <<disk, changes, events>>
requestVars == <<phase, request, fsEvents, requests, pending, toVisit>>
storeVars == <<tsStore, manifests, generated, programs, missed, halfFilled>>
vars == <<environmentVars, requestVars, storeVars>>

Stores == {"tsConfig", "manifest", "generated"}
Versions == 0..MaxVersion

\* A store is initialised for one configuration, or for none.
EmptyTsStore == [for |-> {}, property |-> {}, lookup |-> {}]
EmptyManifests == [for |-> {}, content |-> [m \in Manifests |-> 0]]
EmptyGenerated == [for |-> {}, derived |-> FALSE, from |-> [m \in Manifests |-> 0]]
NoPrograms == [t \in TsConfigs |-> 0]

TypeOK ==
    /\ disk \in [Paths -> Versions]
    /\ changes \in 0..MaxChanges
    /\ events \subseteq Paths
    /\ phase \in {"idle", "sent", "walking", "analysing"}
    /\ request \in Configurations
    /\ fsEvents \subseteq Paths
    /\ requests \in 0..MaxRequests
    /\ pending \subseteq Stores
    /\ toVisit \subseteq Paths
    /\ tsStore.property \subseteq TsConfigs /\ tsStore.lookup \subseteq TsConfigs
    /\ manifests.content \in [Manifests -> Versions]
    /\ generated.from \in [Manifests -> Versions]
    /\ programs \in [TsConfigs -> Versions]
    /\ missed \subseteq Paths
    /\ halfFilled \subseteq Stores

Init ==
    /\ disk \in [Paths -> {0, 1}]
    /\ changes = 0
    /\ events = {}
    /\ phase = "idle"
    /\ request \in Configurations
    /\ fsEvents = {}
    /\ requests = 0
    /\ pending = {}
    /\ toVisit = {}
    /\ tsStore = EmptyTsStore
    /\ manifests = EmptyManifests
    /\ generated = EmptyGenerated
    /\ programs = NoPrograms
    /\ missed = {}
    /\ halfFilled = {}

-----------------------------------------------------------------------------
(* The project, and the requests                                           *)

\* A file is written, created or deleted, and the IDE reports it.
ProjectChanges(p, version) ==
    /\ changes < MaxChanges
    /\ version # disk[p]
    /\ disk' = [disk EXCEPT ![p] = version]
    /\ changes' = changes + 1
    /\ events' = events \cup {p}
    /\ UNCHANGED <<requestVars, storeVars>>

\* getRequest takes the events out of the listener, which only the IDE has.  One
\* process serves the IDE or a scanner.
SendRequest(configuration) ==
    /\ phase = "idle"
    /\ requests < MaxRequests
    /\ configuration.sonarlint = request.sonarlint
    /\ requests' = requests + 1
    /\ phase' = "sent"
    /\ request' = configuration
    /\ fsEvents' = IF request.sonarlint THEN events ELSE {}
    /\ events' = {}
    /\ UNCHANGED <<disk, changes, pending, toVisit, storeVars>>

\* The request is cancelled in the queue, or rejected: its events are gone.
LoseRequest ==
    /\ phase = "sent"
    /\ phase' = "idle"
    /\ missed' = missed \cup fsEvents
    /\ fsEvents' = {}
    /\ UNCHANGED <<environmentVars, request, requests, pending, toVisit, tsStore, manifests,
                   generated, programs, halfFilled>>

-----------------------------------------------------------------------------
(* initFileStores                                                          *)

GetTsConfigs(store) == IF store.property # {} THEN store.property ELSE store.lookup

\* An empty list is in use by nobody: getTsConfigs answers with a fresh array.
UsingProperty(store) == store.property # {}
UsingLookup(store) == ~UsingProperty(store) /\ store.lookup # {}

\* Mutant: only the lists are searched, so a new tsconfig.json is no news.
TouchesKnownTsConfigs(store, configuration, p) == p \in GetTsConfigs(store)

TouchesTsConfigs(store, configuration, p) ==
    \/ p \in GetTsConfigs(store)
    \/ UsingLookup(store) /\ p \in TsConfigJsons
    \/ UsingProperty(store) /\ p \in configuration.provided

Key(configuration) == [excluded |-> configuration.excluded, provided |-> configuration.provided]

\* Mutant: generated sources only follow the configuration.
UnwatchedGenerated(store) ==
    CASE store = "tsConfig" ->
           \/ tsStore.for # {Key(request)}
           \/ \E p \in fsEvents : TouchesTsConfigs(tsStore, request, p)
      [] store = "manifest" ->
           \/ manifests.for # {request.excluded}
           \/ fsEvents \cap Manifests # {}
      [] OTHER -> generated.for # {request.excluded}

\* Which stores dirtyCachesIfNeeded clears; one that is not initialised is cleared
\* again.
Dirty(store) ==
    CASE store = "tsConfig" ->
           \/ tsStore.for # {Key(request)}
           \/ \E p \in fsEvents : TouchesTsConfigs(tsStore, request, p)
      [] store = "manifest" ->
           \/ manifests.for # {request.excluded}
           \/ fsEvents \cap Manifests # {}
      [] OTHER ->
           \/ generated.for # {request.excluded}
           \/ fsEvents \cap Manifests # {}

\* Mutant: a scanner analysis begins with what the last one left.
Reused == {store \in Stores : Dirty(store)}

\* resetFileStores for an analysis that is not the IDE's.
Cleared == IF request.sonarlint THEN {store \in Stores : Dirty(store)} ELSE Stores

\* Mutant: clearing the tsconfig store leaves the programs.
KeepPrograms == programs

\* clearCache of the tsconfig store clears the programs built from it.
ProgramsLeft == IF "tsConfig" \in Cleared THEN NoPrograms ELSE programs

\* What the events of the request concern is known from here on, except for a
\* store that does not react to them.
Unreported(p) ==
    \/ p \in TsConfigs /\ "tsConfig" \notin Cleared
    \/ p \in Manifests /\ "manifest" \notin Cleared

\* isInitialized of every store, then setup of those it clears: they count as
\* initialised before the walk has begun.
InitFileStores ==
    /\ phase = "sent"
    /\ pending' = Cleared
    /\ toVisit' = IF Cleared = {} THEN {} ELSE Paths \ request.excluded
    /\ phase' = "walking"
    /\ tsStore' = IF "tsConfig" \in Cleared THEN [EmptyTsStore EXCEPT !.for = {Key(request)}]
                  ELSE tsStore
    /\ manifests' = IF "manifest" \in Cleared
                    THEN [EmptyManifests EXCEPT !.for = {request.excluded}] ELSE manifests
    /\ generated' = IF "generated" \in Cleared
                    THEN [EmptyGenerated EXCEPT !.for = {request.excluded}] ELSE generated
    /\ programs' = ProgramsLeft
    /\ missed' = {p \in missed : Unreported(p)}
    /\ halfFilled' = halfFilled \ Cleared
    /\ UNCHANGED <<environmentVars, request, fsEvents, requests>>

\* processPendingFileStores for one entry of the walk.
VisitFile(p) ==
    /\ phase = "walking"
    /\ p \in toVisit
    /\ toVisit' = toVisit \ {p}
    /\ tsStore' =
         IF "tsConfig" \in pending /\ disk[p] # 0
         THEN [tsStore EXCEPT !.property = @ \cup ({p} \cap request.provided),
                              !.lookup = @ \cup ({p} \cap TsConfigJsons)]
         ELSE tsStore
    /\ manifests' =
         IF "manifest" \in pending /\ p \in Manifests
         THEN [manifests EXCEPT !.content[p] = disk[p]]
         ELSE manifests
    /\ UNCHANGED <<environmentVars, phase, request, fsEvents, requests, pending, generated,
                   programs, missed, halfFilled>>

\* postProcess: what is generated is derived from the manifests read.
PostProcess ==
    /\ phase = "walking"
    /\ toVisit = {}
    /\ phase' = "analysing"
    /\ pending' = {}
    /\ generated' = IF "generated" \in pending
                    THEN [generated EXCEPT !.derived = TRUE, !.from = manifests.content]
                    ELSE generated
    /\ UNCHANGED <<environmentVars, request, fsEvents, requests, toVisit, tsStore, manifests,
                   programs, missed, halfFilled>>

\* A directory cannot be opened or a file read: the request is answered with an
\* error, and the stores stay as they are.
WalkFails ==
    /\ phase = "walking"
    /\ pending # {}
    /\ phase' = "idle"
    /\ halfFilled' = halfFilled \cup pending
    /\ pending' = {}
    /\ toVisit' = {}
    /\ UNCHANGED <<environmentVars, request, fsEvents, requests, tsStore, manifests, generated,
                   programs, missed>>

-----------------------------------------------------------------------------
(* The analysis                                                            *)

\* The options of a tsconfig are parsed and its program is built, or what is cached
\* is used.
UseProgram(t) ==
    /\ phase = "analysing"
    /\ t \in GetTsConfigs(tsStore)
    /\ disk[t] # 0
    /\ programs[t] = 0
    /\ programs' = [programs EXCEPT ![t] = disk[t]]
    /\ UNCHANGED <<environmentVars, requestVars, tsStore, manifests, generated, missed, halfFilled>>

\* addDiscoveredTsConfig: a program references another configuration.
DiscoverTsConfig(t) ==
    /\ phase = "analysing"
    /\ \E by \in GetTsConfigs(tsStore) : programs[by] # 0
    /\ disk[t] # 0
    /\ t \notin GetTsConfigs(tsStore)
    /\ tsStore' = IF UsingProperty(tsStore)
                  THEN [tsStore EXCEPT !.property = @ \cup {t}]
                  ELSE [tsStore EXCEPT !.lookup = @ \cup {t}]
    /\ UNCHANGED <<environmentVars, requestVars, manifests, generated, programs, missed,
                   halfFilled>>

EndAnalysis ==
    /\ phase = "analysing"
    /\ phase' = "idle"
    /\ fsEvents' = {}
    /\ UNCHANGED <<environmentVars, request, requests, pending, toVisit, storeVars>>

\* Another process takes over: it remembers nothing.
NewProcess ==
    /\ phase = "idle"
    /\ tsStore' = EmptyTsStore
    /\ manifests' = EmptyManifests
    /\ generated' = EmptyGenerated
    /\ programs' = NoPrograms
    /\ missed' = {}
    /\ halfFilled' = {}
    /\ UNCHANGED <<environmentVars, requestVars>>

Next ==
    \/ \E p \in Paths, version \in Versions : ProjectChanges(p, version)
    \/ \E configuration \in Configurations : SendRequest(configuration)
    \/ LoseRequest \/ InitFileStores \/ PostProcess \/ WalkFails \/ EndAnalysis \/ NewProcess
    \/ \E p \in Paths : VisitFile(p)
    \/ \E t \in TsConfigs : UseProgram(t) \/ DiscoverTsConfig(t)

Spec == Init /\ [][Next]_vars

-----------------------------------------------------------------------------
(* Properties                                                              *)

\* Changes the stores cannot know of: the next request reports them, or the one
\* that did was lost.
Untold == events \cup missed

\* What a walk would find now.
Present(paths) == {p \in paths \ request.excluded : disk[p] # 0}
Fresh == IF Present(request.provided) # {} THEN Present(request.provided) ELSE Present(TsConfigJsons)

\* The tsconfigs that an analysis uses are those a walk would find, although the
\* last walk may be some requests ago.  Three things go unnoticed: that the walk failed,
\* the first tsconfig.json of a project that had none, and the first provided tsconfig
\* where none was found.
TsConfigsAreCurrent ==
    LET known == GetTsConfigs(tsStore)
    IN  /\ phase = "analysing"
        /\ "tsConfig" \notin halfFilled
        /\ known # {}
        /\ request.provided # {} => UsingProperty(tsStore)
        /\ Untold \cap request.provided = {}
        => /\ Fresh \ Untold \subseteq known
           /\ \A p \in known \ Untold : disk[p] # 0

\* The manifests that rules consult are those of the project, and what counts as
\* generated was derived from them, unless a walk failed.
ManifestsAreCurrent ==
    phase = "analysing" /\ {"manifest", "generated"} \cap halfFilled = {} =>
      \A m \in Manifests \ (Untold \cup request.excluded) :
        /\ manifests.content[m] = disk[m]
        /\ generated.derived /\ generated.from[m] = disk[m]

\* No analysis uses a program built from a tsconfig that has changed since.
ProgramsFollowTsConfigs ==
    phase = "analysing" =>
      \A t \in TsConfigs \ Untold : programs[t] \in {0, disk[t]}

\* A scanner analysis sees the project as it is, without any of these exceptions:
\* nothing is left of an earlier analysis, or of its failure.
ScannerSeesTheProject ==
    phase = "analysing" /\ ~request.sonarlint =>
      /\ halfFilled = {}
      /\ \A p \in TsConfigJsons \ (events \cup request.excluded) :
            p \in tsStore.lookup <=> disk[p] # 0
      /\ \A m \in Manifests \ (events \cup request.excluded) : manifests.content[m] = disk[m]
      /\ \A t \in TsConfigs \ events : programs[t] \in {0, disk[t]}

=============================================================================
