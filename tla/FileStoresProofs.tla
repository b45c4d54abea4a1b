-------------------------- MODULE FileStoresProofs --------------------------
(* Proofs about FileStores for every project, every configuration and any  *)
(* number of changes and requests.                                         *)
EXTENDS FileStores, TLAPS

\* What a cached program may be stale about before the stores have looked at the
\* events of the request.
NotYetSeen == IF phase = "sent" THEN fsEvents ELSE {}

InSight == request.sonarlint \/ phase \in {"walking", "analysing"}

ProgramTypes ==
    /\ request \in Configurations
    /\ disk \in [Paths -> Nat]
    /\ programs \in [TsConfigs -> Nat]
    /\ tsStore = [for |-> tsStore.for, property |-> tsStore.property, lookup |-> tsStore.lookup]

\* A program is only built for a tsconfig in use, and a tsconfig in use stays in
\* use until the store is cleared: an event about it therefore clears the store.
ProgramsAreOfKnown ==
    \A t \in TsConfigs : programs[t] # 0 => t \in GetTsConfigs(tsStore)

ProgramsCurrentOrUntold ==
    InSight => \A t \in TsConfigs \ (Untold \cup NotYetSeen) : programs[t] \in {0, disk[t]}

\* Inductive: the third conjunct needs the second when the stores look at the
\* events of a request.
ProgramInv == ProgramTypes /\ ProgramsAreOfKnown /\ ProgramsCurrentOrUntold

LEMMA ProgramInvInit == Init => ProgramInv
<1> SUFFICES ASSUME Init PROVE ProgramInv
  OBVIOUS
<1>1. ProgramTypes
  BY DEF Init, ProgramTypes, NoPrograms, EmptyTsStore
<1>2. \A t \in TsConfigs : programs[t] = 0
  BY DEF Init, NoPrograms
<1> QED
  BY <1>1, <1>2 DEF ProgramInv, ProgramsAreOfKnown, ProgramsCurrentOrUntold

\* A step that leaves the stores, the project and the events as they are.
LEMMA StoresUntouched ==
    ASSUME ProgramInv, UNCHANGED <<disk, request, tsStore, programs>>,
           Untold \cup NotYetSeen \subseteq (Untold \cup NotYetSeen)',
           InSight' => InSight
    PROVE  ProgramInv'
BY DEF ProgramInv, ProgramTypes, ProgramsAreOfKnown, ProgramsCurrentOrUntold, GetTsConfigs

LEMMA ProjectChangesKeeps ==
    ASSUME ProgramInv, NEW p \in Paths, NEW v \in Versions, ProjectChanges(p, v)
    PROVE  ProgramInv'
<1>1. /\ disk' = [disk EXCEPT ![p] = v]
      /\ events' = events \cup {p}
      /\ UNCHANGED <<phase, request, fsEvents, tsStore, programs, missed>>
  BY DEF ProjectChanges, requestVars, storeVars
<1>2. v \in Nat
  BY BoundsAssumption DEF Versions
<1>3. ProgramTypes'
  BY <1>1, <1>2 DEF ProgramInv, ProgramTypes
<1>4. ProgramsAreOfKnown'
  BY <1>1 DEF ProgramInv, ProgramsAreOfKnown, GetTsConfigs
<1>5. ProgramsCurrentOrUntold'
  <2> SUFFICES ASSUME InSight', NEW t \in TsConfigs, t \notin (Untold \cup NotYetSeen)'
               PROVE  (programs[t] \in {0, disk[t]})'
    BY DEF ProgramsCurrentOrUntold
  <2>1. InSight /\ t # p /\ t \notin Untold \cup NotYetSeen
    BY <1>1 DEF InSight, Untold, NotYetSeen
  <2>2. disk'[t] = disk[t]
    BY <1>1, <2>1 DEF ProgramInv, ProgramTypes, Paths
  <2> QED
    BY <1>1, <2>1, <2>2 DEF ProgramInv, ProgramsCurrentOrUntold
<1> QED
  BY <1>3, <1>4, <1>5 DEF ProgramInv

\* The stores look at the events: a program that one of them makes stale is dropped
\* with the store.
LEMMA InitFileStoresKeeps == ProgramInv /\ InitFileStores => ProgramInv'
<1> SUFFICES ASSUME ProgramInv, InitFileStores PROVE ProgramInv'
  OBVIOUS
<1>1. /\ phase = "sent" /\ phase' = "walking"
      /\ UNCHANGED <<disk, events, request, fsEvents>>
      /\ programs' = ProgramsLeft
      /\ missed' = {p \in missed : Unreported(p)}
      /\ tsStore' = IF "tsConfig" \in Cleared
                    THEN [EmptyTsStore EXCEPT !.for = {Key(request)}] ELSE tsStore
  BY DEF InitFileStores, environmentVars
<1>2. CASE "tsConfig" \in Cleared
  <2>1. programs' = NoPrograms /\ tsStore' = [EmptyTsStore EXCEPT !.for = {Key(request)}]
    BY <1>1, <1>2 DEF ProgramsLeft
  <2> DEFINE empty == [for |-> {Key(request)}, property |-> {}, lookup |-> {}]
  <2>4. tsStore' = empty
    BY <2>1 DEF EmptyTsStore
  <2>5. empty = [for |-> empty.for, property |-> empty.property, lookup |-> empty.lookup]
    OBVIOUS
  <2>6. programs' \in [TsConfigs -> Nat]
    BY <2>1 DEF NoPrograms
  <2>2. ProgramTypes'
    BY <1>1, <2>4, <2>5, <2>6 DEF ProgramInv, ProgramTypes
  <2>3. \A t \in TsConfigs : programs'[t] = 0
    BY <2>1 DEF NoPrograms
  <2> QED
    BY <2>2, <2>3 DEF ProgramInv, ProgramsAreOfKnown, ProgramsCurrentOrUntold
<1>3. CASE "tsConfig" \notin Cleared
  <2>1. UNCHANGED <<programs, tsStore>>
    BY <1>1, <1>3 DEF ProgramsLeft
  <2>2. request.sonarlint /\ ~Dirty("tsConfig")
    BY <1>3 DEF Cleared, Stores
  <2>3. \A p \in fsEvents : p \notin GetTsConfigs(tsStore)
    BY <2>2 DEF Dirty, TouchesTsConfigs
  <2>4. ProgramTypes' /\ ProgramsAreOfKnown'
    BY <1>1, <2>1 DEF ProgramInv, ProgramTypes, ProgramsAreOfKnown, GetTsConfigs
  <2>5. ProgramsCurrentOrUntold'
    <3> SUFFICES ASSUME NEW t \in TsConfigs, t \notin (Untold \cup NotYetSeen)'
                 PROVE  programs[t] \in {0, disk[t]}
      BY <1>1, <2>1 DEF ProgramsCurrentOrUntold
    <3>1. t \notin Untold
      BY <1>1, <1>3 DEF Untold, Unreported
    <3>2. CASE t \in fsEvents
      BY <2>3, <3>2 DEF ProgramInv, ProgramsAreOfKnown
    <3>3. CASE t \notin fsEvents
      BY <2>2, <3>1, <3>3 DEF ProgramInv, ProgramsCurrentOrUntold, InSight, NotYetSeen
    <3> QED
      BY <3>2, <3>3
  <2> QED
    BY <2>4, <2>5 DEF ProgramInv
<1> QED
  BY <1>2, <1>3

\* The tsconfigs in use only grow between two clearings, except that the first
\* provided one takes precedence: the walk visits files before any program is built.
NoProgramsWhileWalking ==
    phase = "walking" /\ "tsConfig" \in pending => programs = NoPrograms

LEMMA VisitFileKeeps ==
    ASSUME ProgramInv, NoProgramsWhileWalking, NEW p \in Paths, VisitFile(p)
    PROVE  ProgramInv'
<1>1. UNCHANGED <<disk, events, phase, request, fsEvents, programs, missed>>
  BY DEF VisitFile, environmentVars
<1>2. ProgramsCurrentOrUntold'
  BY <1>1 DEF ProgramInv, ProgramsCurrentOrUntold, InSight, Untold, NotYetSeen
<1>3. CASE "tsConfig" \in pending
  <2>1. \A t \in TsConfigs : programs[t] = 0
    BY <1>3 DEF NoProgramsWhileWalking, VisitFile, NoPrograms
  <2>2. ProgramTypes'
    BY <1>1 DEF VisitFile, ProgramInv, ProgramTypes
  <2> QED
    BY <1>1, <1>2, <2>1, <2>2 DEF ProgramInv, ProgramsAreOfKnown
<1>4. CASE "tsConfig" \notin pending
  <2>1. tsStore' = tsStore
    BY <1>4 DEF VisitFile
  <2> QED
    BY <1>1, <1>2, <2>1 DEF ProgramInv, ProgramTypes, ProgramsAreOfKnown, GetTsConfigs
<1> QED
  BY <1>3, <1>4

LEMMA UseProgramKeeps ==
    ASSUME ProgramInv, NEW t \in TsConfigs, UseProgram(t)
    PROVE  ProgramInv'
<1>1. /\ t \in GetTsConfigs(tsStore)
      /\ programs' = [programs EXCEPT ![t] = disk[t]]
      /\ UNCHANGED <<disk, events, phase, request, fsEvents, tsStore, missed>>
  BY DEF UseProgram, environmentVars, requestVars
<1>2. ProgramTypes'
  BY <1>1 DEF ProgramInv, ProgramTypes, Paths
<1>3. ProgramsAreOfKnown'
  BY <1>1 DEF ProgramInv, ProgramTypes, ProgramsAreOfKnown, GetTsConfigs
<1>4. ProgramsCurrentOrUntold'
  BY <1>1 DEF ProgramInv, ProgramTypes, ProgramsCurrentOrUntold, InSight, Untold, NotYetSeen
<1> QED
  BY <1>2, <1>3, <1>4 DEF ProgramInv

LEMMA DiscoverKeeps ==
    ASSUME ProgramInv, NEW t \in TsConfigs, DiscoverTsConfig(t)
    PROVE  ProgramInv'
<1>1. /\ UNCHANGED <<disk, events, phase, request, fsEvents, programs, missed>>
      /\ tsStore' = IF UsingProperty(tsStore)
                    THEN [tsStore EXCEPT !.property = @ \cup {t}]
                    ELSE [tsStore EXCEPT !.lookup = @ \cup {t}]
  BY DEF DiscoverTsConfig, environmentVars, requestVars
<1>2. ProgramTypes'
  BY <1>1 DEF ProgramInv, ProgramTypes
<1>3. GetTsConfigs(tsStore) \subseteq GetTsConfigs(tsStore)'
  BY <1>1 DEF ProgramInv, ProgramTypes, GetTsConfigs, UsingProperty
<1>4. ProgramsAreOfKnown'
  BY <1>1, <1>3 DEF ProgramInv, ProgramsAreOfKnown
<1>5. ProgramsCurrentOrUntold'
  BY <1>1 DEF ProgramInv, ProgramsCurrentOrUntold, InSight, Untold, NotYetSeen
<1> QED
  BY <1>2, <1>4, <1>5 DEF ProgramInv

-----------------------------------------------------------------------------
\* The steps that touch neither the tsconfig store nor its programs: a request takes
\* the events with it, and what is lost with a request counts as untold.
LEMMA RequestsKeep ==
    ASSUME ProgramInv,
           \/ \E c \in Configurations : SendRequest(c)
           \/ LoseRequest
    PROVE  ProgramInv'
<1>1. CASE \E c \in Configurations : SendRequest(c)
  <2>1. PICK c \in Configurations : SendRequest(c)
    BY <1>1
  <2>2. /\ phase = "idle" /\ phase' = "sent"
        /\ request' = c /\ c.sonarlint = request.sonarlint
        /\ events' = {}
        /\ fsEvents' = IF request.sonarlint THEN events ELSE {}
        /\ UNCHANGED <<disk, tsStore, programs, missed>>
    BY <2>1 DEF SendRequest, storeVars
  <2>3. ProgramTypes' /\ ProgramsAreOfKnown'
    BY <2>2 DEF ProgramInv, ProgramTypes, ProgramsAreOfKnown, GetTsConfigs
  <2>4. ProgramsCurrentOrUntold'
    BY <2>2 DEF ProgramInv, ProgramsCurrentOrUntold, InSight, Untold, NotYetSeen
  <2> QED
    BY <2>3, <2>4 DEF ProgramInv
<1>2. CASE LoseRequest
  <2>1. /\ phase = "sent" /\ phase' = "idle"
        /\ missed' = missed \cup fsEvents
        /\ UNCHANGED <<disk, events, request, tsStore, programs>>
    BY <1>2 DEF LoseRequest, environmentVars
  <2> QED
    BY <2>1, StoresUntouched DEF Untold, NotYetSeen, InSight
<1> QED
  BY <1>1, <1>2

LEMMA EndOfWalkKeeps ==
    ASSUME ProgramInv, PostProcess \/ WalkFails \/ EndAnalysis
    PROVE  ProgramInv'
<1>1. /\ UNCHANGED <<disk, events, request, tsStore, programs, missed>>
      /\ phase \in {"walking", "analysing"}
      /\ phase' \in {"analysing", "idle"}
  BY DEF PostProcess, WalkFails, EndAnalysis, environmentVars, storeVars
<1> QED
  BY <1>1, StoresUntouched DEF Untold, NotYetSeen, InSight

LEMMA NewProcessKeeps == ProgramInv /\ NewProcess => ProgramInv'
<1> SUFFICES ASSUME ProgramInv, NewProcess PROVE ProgramInv'
  OBVIOUS
<1>1. /\ UNCHANGED <<disk, request>>
      /\ programs' = NoPrograms
      /\ tsStore' = EmptyTsStore
  BY DEF NewProcess, environmentVars, requestVars
<1>2. \A t \in TsConfigs : programs'[t] = 0
  BY <1>1 DEF NoPrograms
<1>3. ProgramTypes'
  BY <1>1 DEF ProgramInv, ProgramTypes, NoPrograms, EmptyTsStore
<1> QED
  BY <1>2, <1>3 DEF ProgramInv, ProgramsAreOfKnown, ProgramsCurrentOrUntold

LEMMA WalkingKeeps == NoProgramsWhileWalking /\ Next => NoProgramsWhileWalking'
<1> SUFFICES ASSUME NoProgramsWhileWalking, Next PROVE NoProgramsWhileWalking'
  OBVIOUS
<1>1. ASSUME NEW p \in Paths, NEW v \in Versions, ProjectChanges(p, v)
      PROVE  NoProgramsWhileWalking'
  BY <1>1 DEF ProjectChanges, requestVars, storeVars, NoProgramsWhileWalking, NoPrograms
<1>2. CASE (\E c \in Configurations : SendRequest(c)) \/ LoseRequest \/ PostProcess
           \/ WalkFails \/ EndAnalysis \/ NewProcess
  <2>1. phase' # "walking"
    BY <1>2 DEF SendRequest, LoseRequest, PostProcess, WalkFails, EndAnalysis, NewProcess,
                requestVars
  <2> QED
    BY <2>1 DEF NoProgramsWhileWalking
<1>3. CASE InitFileStores
  <2>1. pending' = Cleared /\ programs' = ProgramsLeft
    BY <1>3 DEF InitFileStores
  <2> QED
    BY <2>1 DEF ProgramsLeft, NoProgramsWhileWalking, NoPrograms
<1>4. ASSUME NEW p \in Paths, VisitFile(p) PROVE NoProgramsWhileWalking'
  BY <1>4 DEF VisitFile, NoProgramsWhileWalking, NoPrograms
<1>5. ASSUME NEW t \in TsConfigs, UseProgram(t) \/ DiscoverTsConfig(t)
      PROVE  NoProgramsWhileWalking'
  <2>1. phase' # "walking"
    BY <1>5 DEF UseProgram, DiscoverTsConfig, requestVars
  <2> QED
    BY <2>1 DEF NoProgramsWhileWalking
<1> QED
  BY <1>1, <1>2, <1>3, <1>4, <1>5 DEF Next

\* What keeps the programs of an analysis current, in every reachable state.
THEOREM ProgramInvCorrect == Spec => [](ProgramInv /\ NoProgramsWhileWalking)
<1>1. Init => ProgramInv /\ NoProgramsWhileWalking
  BY ProgramInvInit DEF Init, NoProgramsWhileWalking
<1>2. ProgramInv /\ NoProgramsWhileWalking /\ [Next]_vars
        => (ProgramInv /\ NoProgramsWhileWalking)'
  <2> SUFFICES ASSUME ProgramInv, NoProgramsWhileWalking, [Next]_vars
               PROVE  ProgramInv' /\ NoProgramsWhileWalking'
    OBVIOUS
  <2>1. CASE Next
    <3>1. ProgramInv'
      BY <2>1, ProjectChangesKeeps, RequestsKeep, InitFileStoresKeeps, VisitFileKeeps,
         EndOfWalkKeeps, NewProcessKeeps, UseProgramKeeps, DiscoverKeeps DEF Next
    <3> QED
      BY <2>1, <3>1, WalkingKeeps
  <2>2. CASE UNCHANGED vars
    <3>1. UNCHANGED <<disk, events, phase, request, fsEvents, pending, tsStore, programs,
                      missed>>
      BY <2>2 DEF vars, environmentVars, requestVars, storeVars
    <3>2. ProgramInv'
      BY <3>1, StoresUntouched DEF Untold, NotYetSeen, InSight
    <3>3. NoProgramsWhileWalking'
      BY <3>1 DEF NoProgramsWhileWalking, NoPrograms
    <3> QED
      BY <3>2, <3>3
  <2> QED
    BY <2>1, <2>2
<1> QED
  BY <1>1, <1>2, PTL DEF Spec

\* No analysis uses a program of a tsconfig that has changed since, in any order of
\* requests, lost requests, failed walks and changes of the project: clearing the
\* tsconfig store clears the programs (tsconfigs.ts clearCache).
THEOREM ProgramsFollowTsConfigsCorrect == Spec => []ProgramsFollowTsConfigs
<1>1. ProgramInv => ProgramsFollowTsConfigs
  BY DEF ProgramInv, ProgramsCurrentOrUntold, ProgramsFollowTsConfigs, InSight, NotYetSeen
<1> QED
  BY <1>1, ProgramInvCorrect, PTL

-----------------------------------------------------------------------------
(* What the stores found, in every reachable state                         *)

\* Files of which a store need not know what became of them: no request has told, the
\* stores have not looked at the events yet, or their walk has not come by.
Unsure(store) == Untold \cup NotYetSeen \cup (IF store \in pending THEN toVisit ELSE {})

StoreTypes ==
    /\ request \in Configurations
    /\ disk \in [Paths -> Nat]
    /\ tsStore = [for |-> tsStore.for, property |-> tsStore.property, lookup |-> tsStore.lookup]
    /\ tsStore.property \subseteq TsConfigs /\ tsStore.lookup \subseteq TsConfigs
    /\ \A key \in tsStore.for : key.provided \subseteq TsConfigs
    /\ manifests = [for |-> manifests.for, content |-> manifests.content]
    /\ manifests.content \in [Manifests -> Nat]
    /\ generated = [for |-> generated.for, derived |-> generated.derived, from |-> generated.from]
    /\ pending \subseteq Stores /\ halfFilled \subseteq Stores

\* Stores wait for the walk only while there is one, and have been initialised for
\* the request that walks or is analysed.
StoresFollowRequest ==
    /\ phase # "walking" => pending = {}
    /\ phase = "walking" => toVisit \subseteq Paths \ request.excluded
    /\ phase \in {"walking", "analysing"} =>
         tsStore.for = {Key(request)} /\ manifests.for = {request.excluded}

\* The manifest store and the generated source store are cleared, filled and left
\* half filled together.
ManifestStoresAgree ==
    /\ generated.for = manifests.for
    /\ "generated" \in pending <=> "manifest" \in pending
    /\ "generated" \in halfFilled <=> "manifest" \in halfFilled
    /\ manifests.for # {} /\ "manifest" \notin pending \cup halfFilled =>
         generated.derived /\ generated.from = manifests.content

ManifestsRead ==
    InSight /\ "manifest" \notin halfFilled =>
      \A excluded \in manifests.for : \A m \in Manifests \ (excluded \cup Unsure("manifest")) :
        manifests.content[m] = disk[m]

\* A tsconfig in use exists.
KnownExist == InSight => \A p \in GetTsConfigs(tsStore) \ (Untold \cup NotYetSeen) : disk[p] # 0

\* The provided tsconfigs that exist are in use, once one of them was found.
ProvidedKnown ==
    InSight /\ "tsConfig" \notin halfFilled /\ (UsingProperty(tsStore) \/ "tsConfig" \in pending) =>
      \A key \in tsStore.for : \A p \in key.provided \ (key.excluded \cup Unsure("tsConfig")) :
        disk[p] # 0 => p \in tsStore.property

\* The same of those named tsconfig.json, once one of them was found.
LookupKnown ==
    InSight /\ "tsConfig" \notin halfFilled /\ (UsingLookup(tsStore) \/ "tsConfig" \in pending) =>
      \A key \in tsStore.for : \A p \in TsConfigJsons \ (key.excluded \cup Unsure("tsConfig")) :
        disk[p] # 0 => p \in tsStore.lookup

\* The property is only in use because a provided tsconfig was found.
PropertyFromProvided ==
    UsingProperty(tsStore) =>
      \A key \in tsStore.for : \E q \in tsStore.property : q \in key.provided \ key.excluded

\* A scanner's walk fills all stores, and finds each tsconfig.json on the way.
ScannerWalk ==
    phase \in {"walking", "analysing"} /\ ~request.sonarlint =>
      /\ halfFilled = {} /\ missed = {}
      /\ phase = "walking" => pending = Stores /\ toVisit \cap tsStore.lookup = {}
      /\ \A p \in TsConfigJsons \ (request.excluded \cup Unsure("tsConfig")) :
           p \in tsStore.lookup <=> disk[p] # 0

StoreInv ==
    /\ StoreTypes
    /\ StoresFollowRequest
    /\ ManifestStoresAgree
    /\ ManifestsRead
    /\ KnownExist
    /\ ProvidedKnown
    /\ LookupKnown
    /\ PropertyFromProvided
    /\ ScannerWalk

LEMMA StoreInvInit == Init => StoreInv
<1> SUFFICES ASSUME Init PROVE StoreInv
  OBVIOUS
<1>1. /\ tsStore.for = {} /\ tsStore.property = {} /\ tsStore.lookup = {}
      /\ manifests.for = {} /\ generated.for = {}
  BY DEF Init, EmptyTsStore, EmptyManifests, EmptyGenerated
<1>2. phase = "idle" /\ pending = {} /\ halfFilled = {} /\ request \in Configurations
  BY DEF Init
<1>3. StoreTypes
  <2>1. disk \in [Paths -> Nat]
    BY DEF Init
  <2>2. tsStore = [for |-> tsStore.for, property |-> tsStore.property, lookup |-> tsStore.lookup]
    BY DEF Init, EmptyTsStore
  <2>3. /\ manifests = [for |-> manifests.for, content |-> manifests.content]
        /\ manifests.content \in [Manifests -> Nat]
    BY DEF Init, EmptyManifests
  <2>4. generated = [for |-> generated.for, derived |-> generated.derived,
                     from |-> generated.from]
    BY DEF Init, EmptyGenerated
  <2> QED
    BY <1>1, <1>2, <2>1, <2>2, <2>3, <2>4 DEF StoreTypes
<1>4. StoresFollowRequest /\ ManifestStoresAgree /\ ManifestsRead /\ KnownExist /\ ScannerWalk
  BY <1>1, <1>2 DEF StoresFollowRequest, ManifestStoresAgree, ManifestsRead, KnownExist,
                    ScannerWalk, GetTsConfigs
<1>5. ProvidedKnown /\ LookupKnown /\ PropertyFromProvided
  BY <1>1 DEF ProvidedKnown, LookupKnown, PropertyFromProvided
<1> QED
  BY <1>3, <1>4, <1>5 DEF StoreInv

\* A step that leaves the tsconfig store and the manifests as they are keeps what is
\* known of them, when it makes the stores no surer of a file, and a file only changes
\* where it counts as untold.
LEMMA KnowledgeKept ==
    ASSUME StoreInv, UNCHANGED <<tsStore, manifests>>,
           InSight' => InSight,
           pending' \subseteq pending, halfFilled \subseteq halfFilled',
           InSight' => Untold \cup NotYetSeen \subseteq (Untold \cup NotYetSeen)',
           InSight' => \A store \in Stores \ halfFilled' : Unsure(store) \subseteq Unsure(store)',
           \A p \in Paths : disk'[p] # disk[p] => p \in Untold'
    PROVE  ManifestsRead' /\ KnownExist' /\ ProvidedKnown' /\ LookupKnown' /\ PropertyFromProvided'
<1>1. \A store : Untold \cup NotYetSeen \subseteq Unsure(store)
  BY DEF Unsure
<1>2. \A store : Untold' \subseteq Unsure(store)'
  BY DEF Unsure
<1>3. StoreTypes
  BY DEF StoreInv
<1>4. ManifestsRead'
  <2> SUFFICES ASSUME InSight', "manifest" \notin halfFilled', NEW excluded \in manifests.for,
                      NEW m \in Manifests, m \notin excluded, m \notin Unsure("manifest")'
               PROVE  manifests.content[m] = disk'[m]
    BY DEF ManifestsRead
  <2>1. m \notin Unsure("manifest") /\ m \notin Untold'
    BY <1>2 DEF Stores
  <2>2. disk'[m] = disk[m]
    BY <2>1 DEF Paths
  <2> QED
    BY <2>1, <2>2 DEF StoreInv, ManifestsRead
<1>5. KnownExist'
  <2> SUFFICES ASSUME InSight', NEW p \in GetTsConfigs(tsStore), p \notin (Untold \cup NotYetSeen)'
               PROVE  disk'[p] # 0
    BY DEF KnownExist, GetTsConfigs
  <2>1. p \in Paths
    BY <1>3 DEF StoreTypes, GetTsConfigs, Paths
  <2>2. disk'[p] = disk[p]
    BY <2>1
  <2> QED
    BY <2>2 DEF StoreInv, KnownExist
<1>6. ProvidedKnown'
  <2> SUFFICES ASSUME InSight', "tsConfig" \notin halfFilled',
                      UsingProperty(tsStore) \/ "tsConfig" \in pending',
                      NEW key \in tsStore.for, NEW p \in key.provided, p \notin key.excluded,
                      p \notin Unsure("tsConfig")', disk'[p] # 0
               PROVE  p \in tsStore.property
    BY DEF ProvidedKnown, UsingProperty
  <2>1. p \notin Unsure("tsConfig") /\ p \notin Untold' /\ p \in Paths
    BY <1>2, <1>3 DEF Stores, StoreTypes, Paths
  <2>2. disk'[p] = disk[p]
    BY <2>1
  <2>3. UsingProperty(tsStore) \/ "tsConfig" \in pending
    OBVIOUS
  <2> QED
    BY <2>1, <2>2, <2>3 DEF StoreInv, ProvidedKnown
<1>7. LookupKnown'
  <2> SUFFICES ASSUME InSight', "tsConfig" \notin halfFilled',
                      UsingLookup(tsStore) \/ "tsConfig" \in pending',
                      NEW key \in tsStore.for, NEW p \in TsConfigJsons, p \notin key.excluded,
                      p \notin Unsure("tsConfig")', disk'[p] # 0
               PROVE  p \in tsStore.lookup
    BY DEF LookupKnown, UsingLookup, UsingProperty
  <2>1. p \notin Unsure("tsConfig") /\ p \notin Untold' /\ p \in Paths
    BY <1>2 DEF Stores, Paths, TsConfigs
  <2>2. disk'[p] = disk[p]
    BY <2>1
  <2>3. UsingLookup(tsStore) \/ "tsConfig" \in pending
    OBVIOUS
  <2> QED
    BY <2>1, <2>2, <2>3 DEF StoreInv, LookupKnown
<1>8. PropertyFromProvided'
  BY DEF StoreInv, PropertyFromProvided, UsingProperty
<1> QED
  BY <1>4, <1>5, <1>6, <1>7, <1>8

LEMMA ProjectChangesKeepsStores ==
    ASSUME StoreInv, NEW p \in Paths, NEW v \in Versions, ProjectChanges(p, v)
    PROVE  StoreInv'
<1>1. /\ disk' = [disk EXCEPT ![p] = v]
      /\ events' = events \cup {p}
      /\ UNCHANGED <<phase, request, fsEvents, pending, toVisit, tsStore, manifests, generated,
                     missed, halfFilled>>
  BY DEF ProjectChanges, requestVars, storeVars
<1>2. v \in Nat /\ disk \in [Paths -> Nat]
  BY BoundsAssumption DEF Versions, StoreInv, StoreTypes
<1>3. StoreTypes'
  BY <1>1, <1>2 DEF StoreInv, StoreTypes
<1>4. StoresFollowRequest' /\ ManifestStoresAgree'
  BY <1>1 DEF StoreInv, StoresFollowRequest, ManifestStoresAgree
<1>5. \A q \in Paths : disk'[q] # disk[q] => q \in Untold'
  BY <1>1, <1>2 DEF Untold
<1>6. /\ Untold \cup NotYetSeen \subseteq (Untold \cup NotYetSeen)'
      /\ \A store : Unsure(store) \subseteq Unsure(store)'
  BY <1>1 DEF Untold, NotYetSeen, Unsure
<1>7. ManifestsRead' /\ KnownExist' /\ ProvidedKnown' /\ LookupKnown' /\ PropertyFromProvided'
  BY <1>1, <1>5, <1>6, KnowledgeKept DEF InSight
<1>8. ScannerWalk'
  <2> SUFFICES ASSUME phase \in {"walking", "analysing"}, ~request.sonarlint,
                      NEW q \in TsConfigJsons, q \notin request.excluded,
                      q \notin Unsure("tsConfig")'
               PROVE  q \in tsStore.lookup <=> disk'[q] # 0
    BY <1>1 DEF StoreInv, ScannerWalk
  <2>1. q \notin Unsure("tsConfig") /\ disk'[q] = disk[q]
    BY <1>5, <1>6 DEF Unsure, Paths, TsConfigs
  <2> QED
    BY <2>1 DEF StoreInv, ScannerWalk
<1> QED
  BY <1>3, <1>4, <1>7, <1>8 DEF StoreInv

\* What the stores have been told of is not forgotten when the events pass from the
\* listener to the request, or are lost with it.
LEMMA RequestsKeepStores ==
    ASSUME StoreInv,
           \/ \E c \in Configurations : SendRequest(c)
           \/ LoseRequest
    PROVE  StoreInv'
<1>1. /\ phase \in {"idle", "sent"} /\ phase' \in {"idle", "sent"}
      /\ UNCHANGED <<disk, pending, toVisit, tsStore, manifests, generated, halfFilled>>
      /\ request' \in Configurations
      /\ request'.sonarlint = request.sonarlint
  BY DEF SendRequest, LoseRequest, storeVars, environmentVars, StoreInv, StoreTypes
<1>2. StoreTypes' /\ StoresFollowRequest' /\ ManifestStoresAgree' /\ ScannerWalk'
  BY <1>1 DEF StoreInv, StoreTypes, StoresFollowRequest, ManifestStoresAgree, ScannerWalk
<1>3. InSight' => InSight /\ Untold \cup NotYetSeen \subseteq (Untold \cup NotYetSeen)'
  <2>1. CASE \E c \in Configurations : SendRequest(c)
    BY <2>1 DEF SendRequest, storeVars, InSight, Untold, NotYetSeen
  <2>2. CASE LoseRequest
    BY <2>2 DEF LoseRequest, environmentVars, InSight, Untold, NotYetSeen
  <2> QED
    BY <2>1, <2>2
<1>4. InSight' => \A store : Unsure(store) \subseteq Unsure(store)'
  BY <1>1, <1>3 DEF Unsure
<1>5. ManifestsRead' /\ KnownExist' /\ ProvidedKnown' /\ LookupKnown' /\ PropertyFromProvided'
  BY <1>1, <1>3, <1>4, KnowledgeKept
<1> QED
  BY <1>2, <1>5 DEF StoreInv

\* The end of a walk makes no store surer of a file, except one that is half filled
\* from then on.
LEMMA EndOfWalkKeepsStores ==
    ASSUME StoreInv, PostProcess \/ WalkFails \/ EndAnalysis
    PROVE  StoreInv'
<1>1. /\ UNCHANGED <<disk, events, request, tsStore, manifests, missed>>
      /\ phase \in {"walking", "analysing"}
      /\ phase' \in {"analysing", "idle"}
  BY DEF PostProcess, WalkFails, EndAnalysis, environmentVars, storeVars
<1>2. pending' = {}
  BY DEF PostProcess, WalkFails, EndAnalysis, StoreInv, StoresFollowRequest
<1>3. \/ toVisit = {} /\ halfFilled' = halfFilled
      \/ halfFilled' = halfFilled \cup pending
  BY DEF PostProcess, WalkFails, EndAnalysis, StoreInv, StoresFollowRequest, storeVars
<1>4. generated' = generated \/ PostProcess
  BY DEF WalkFails, EndAnalysis, storeVars
<1>5. StoreTypes'
  <2>1. generated' = [for |-> generated.for, derived |-> generated'.derived,
                      from |-> generated'.from]
    <3>1. CASE generated' = generated
      BY <3>1 DEF StoreInv, StoreTypes
    <3>2. CASE PostProcess
      BY <3>2 DEF PostProcess, StoreInv, StoreTypes
    <3> QED
      BY <1>4, <3>1, <3>2
  <2>2. generated' = [for |-> generated'.for, derived |-> generated'.derived,
                      from |-> generated'.from]
    BY <2>1
  <2> QED
    BY <1>1, <1>2, <1>3, <2>2 DEF StoreInv, StoreTypes
<1>6. StoresFollowRequest'
  BY <1>1, <1>2 DEF StoreInv, StoresFollowRequest, PostProcess, WalkFails, EndAnalysis
<1>7. ManifestStoresAgree'
  <2>1. CASE PostProcess
    <3>1. generated' = IF "generated" \in pending
                       THEN [generated EXCEPT !.derived = TRUE, !.from = manifests.content]
                       ELSE generated
      BY <2>1 DEF PostProcess
    <3>2. generated'.for = generated.for
      BY <3>1 DEF StoreInv, StoreTypes
    <3>3. "generated" \in pending => generated'.derived /\ generated'.from = manifests.content
      BY <3>1 DEF StoreInv, StoreTypes
    <3>4. "generated" \notin pending => generated' = generated
      BY <3>1
    <3> QED
      BY <1>1, <1>2, <2>1, <3>2, <3>3, <3>4 DEF PostProcess, StoreInv, ManifestStoresAgree
  <2>2. CASE WalkFails
    BY <2>2 DEF WalkFails, StoreInv, ManifestStoresAgree
  <2>3. CASE EndAnalysis
    BY <2>3 DEF EndAnalysis, storeVars, StoreInv, ManifestStoresAgree
  <2> QED
    BY <2>1, <2>2, <2>3
<1>8. InSight' => InSight /\ Untold \cup NotYetSeen \subseteq (Untold \cup NotYetSeen)'
  BY <1>1 DEF InSight, Untold, NotYetSeen
<1>9. \A store \in Stores \ halfFilled' : Unsure(store) \subseteq Unsure(store)'
  BY <1>1, <1>2, <1>3 DEF Unsure, Untold, NotYetSeen
<1>10. ManifestsRead' /\ KnownExist' /\ ProvidedKnown' /\ LookupKnown' /\ PropertyFromProvided'
  BY <1>1, <1>2, <1>3, <1>8, <1>9, KnowledgeKept
<1>11. ScannerWalk'
  <2> SUFFICES ASSUME phase' = "analysing", ~request.sonarlint PROVE ScannerWalk'
    BY <1>1 DEF ScannerWalk
  <2>1. PostProcess
    BY DEF WalkFails, EndAnalysis
  <2>2. halfFilled' = {} /\ missed = {} /\ toVisit = {}
    BY <1>1, <2>1 DEF PostProcess, StoreInv, ScannerWalk
  <2>3. Unsure("tsConfig") \subseteq Unsure("tsConfig")'
    BY <1>9, <2>2 DEF Stores
  <2> QED
    BY <1>1, <2>2, <2>3 DEF StoreInv, ScannerWalk
<1> QED
  BY <1>5, <1>6, <1>7, <1>10, <1>11 DEF StoreInv

\* A new process remembers nothing, so there is nothing it could be wrong about.
LEMMA NewProcessKeepsStores == StoreInv /\ NewProcess => StoreInv'
<1> SUFFICES ASSUME StoreInv, NewProcess PROVE StoreInv'
  OBVIOUS
<1>1. /\ UNCHANGED <<disk, phase, request, pending, toVisit>>
      /\ phase = "idle" /\ halfFilled' = {}
      /\ tsStore' = EmptyTsStore /\ manifests' = EmptyManifests /\ generated' = EmptyGenerated
  BY DEF NewProcess, environmentVars, requestVars
<1>2. /\ tsStore'.for = {} /\ tsStore'.property = {} /\ tsStore'.lookup = {}
      /\ manifests'.for = {} /\ generated'.for = {}
  BY <1>1 DEF EmptyTsStore, EmptyManifests, EmptyGenerated
<1>3. StoreTypes'
  <2>1. tsStore' = [for |-> tsStore'.for, property |-> tsStore'.property,
                    lookup |-> tsStore'.lookup]
    BY <1>1 DEF EmptyTsStore
  <2>2. /\ manifests' = [for |-> manifests'.for, content |-> manifests'.content]
        /\ manifests'.content \in [Manifests -> Nat]
    BY <1>1 DEF EmptyManifests
  <2>3. generated' = [for |-> generated'.for, derived |-> generated'.derived,
                      from |-> generated'.from]
    BY <1>1 DEF EmptyGenerated
  <2> QED
    BY <1>1, <1>2, <2>1, <2>2, <2>3 DEF StoreInv, StoreTypes
<1>4. pending = {}
  BY <1>1 DEF StoreInv, StoresFollowRequest
<1>5. StoresFollowRequest' /\ ManifestStoresAgree' /\ ManifestsRead' /\ KnownExist' /\ ScannerWalk'
  BY <1>1, <1>2, <1>4 DEF StoresFollowRequest, ManifestStoresAgree, ManifestsRead, KnownExist,
                          ScannerWalk, GetTsConfigs
<1>6. ProvidedKnown' /\ LookupKnown' /\ PropertyFromProvided'
  BY <1>2 DEF ProvidedKnown, LookupKnown, PropertyFromProvided
<1> QED
  BY <1>3, <1>5, <1>6 DEF StoreInv

\* Programs are not part of what the stores found.
LEMMA ProgramsDoNotMatter ==
    ASSUME StoreInv,
           UNCHANGED <<disk, events, phase, request, fsEvents, pending, toVisit, tsStore,
                       manifests, generated, missed, halfFilled>>
    PROVE  StoreInv'
<1>1. UNCHANGED <<Untold, NotYetSeen, InSight>> /\ \A store : Unsure(store)' = Unsure(store)
  BY DEF Untold, NotYetSeen, InSight, Unsure
<1>2. StoreTypes' /\ StoresFollowRequest' /\ ManifestStoresAgree' /\ ScannerWalk'
  BY <1>1 DEF StoreInv, StoreTypes, StoresFollowRequest, ManifestStoresAgree, ScannerWalk
<1>3. ManifestsRead' /\ KnownExist' /\ ProvidedKnown' /\ LookupKnown' /\ PropertyFromProvided'
  BY <1>1, KnowledgeKept
<1> QED
  BY <1>2, <1>3 DEF StoreInv

\* What an analysis discovers exists, and joins the list in use: it brings neither
\* list into use.
LEMMA DiscoverKeepsStores ==
    ASSUME StoreInv, NEW t \in TsConfigs, DiscoverTsConfig(t)
    PROVE  StoreInv'
<1>1. /\ UNCHANGED <<disk, events, phase, request, fsEvents, pending, toVisit, manifests,
                     generated, missed, halfFilled>>
      /\ phase = "analysing" /\ disk[t] # 0
      /\ GetTsConfigs(tsStore) # {}
      /\ tsStore' = IF UsingProperty(tsStore)
                    THEN [tsStore EXCEPT !.property = @ \cup {t}]
                    ELSE [tsStore EXCEPT !.lookup = @ \cup {t}]
  BY DEF DiscoverTsConfig, environmentVars, requestVars
<1>2. /\ tsStore'.for = tsStore.for
      /\ UsingProperty(tsStore) => tsStore'.property = tsStore.property \cup {t}
                                   /\ tsStore'.lookup = tsStore.lookup
      /\ ~UsingProperty(tsStore) => tsStore'.property = tsStore.property
                                    /\ tsStore'.lookup = tsStore.lookup \cup {t}
  BY <1>1 DEF StoreInv, StoreTypes
<1>3. UNCHANGED <<Untold, NotYetSeen, InSight>> /\ \A store : Unsure(store)' = Unsure(store)
  BY <1>1 DEF Untold, NotYetSeen, InSight, Unsure
<1>4. UsingProperty(tsStore)' = UsingProperty(tsStore)
  BY <1>2 DEF UsingProperty
<1>5. UsingLookup(tsStore)' = UsingLookup(tsStore)
  BY <1>1, <1>2, <1>4 DEF UsingLookup, UsingProperty, GetTsConfigs
<1>6. GetTsConfigs(tsStore)' = GetTsConfigs(tsStore) \cup {t}
  BY <1>1, <1>2 DEF GetTsConfigs, UsingProperty
<1>7. StoreTypes'
  <2>1. tsStore' = [for |-> tsStore'.for, property |-> tsStore'.property,
                    lookup |-> tsStore'.lookup]
    BY <1>1 DEF StoreInv, StoreTypes
  <2> QED
    BY <1>1, <1>2, <2>1 DEF StoreInv, StoreTypes
<1>8. StoresFollowRequest' /\ ManifestStoresAgree'
  BY <1>1, <1>2 DEF StoreInv, StoresFollowRequest, ManifestStoresAgree
<1>9. ManifestsRead' /\ KnownExist'
  BY <1>1, <1>3, <1>6 DEF StoreInv, ManifestsRead, KnownExist
<1>10. ProvidedKnown' /\ LookupKnown' /\ PropertyFromProvided'
  BY <1>1, <1>2, <1>3, <1>4, <1>5 DEF StoreInv, ProvidedKnown, LookupKnown, PropertyFromProvided
<1>11. ScannerWalk'
  BY <1>1, <1>2, <1>3 DEF StoreInv, ScannerWalk
<1> QED
  BY <1>7, <1>8, <1>9, <1>10, <1>11 DEF StoreInv

\* The walk comes by one file: the stores that wait for it are sure of it from then on.
LEMMA VisitFileKeepsStores ==
    ASSUME StoreInv, NEW p \in Paths, VisitFile(p)
    PROVE  StoreInv'
<1>1. /\ UNCHANGED <<disk, events, phase, request, fsEvents, pending, generated, missed,
                     halfFilled>>
      /\ phase = "walking"
      /\ p \in toVisit
      /\ toVisit' = toVisit \ {p}
      /\ tsStore' =
           IF "tsConfig" \in pending /\ disk[p] # 0
           THEN [tsStore EXCEPT !.property = @ \cup ({p} \cap request.provided),
                                !.lookup = @ \cup ({p} \cap TsConfigJsons)]
           ELSE tsStore
      /\ manifests' =
           IF "manifest" \in pending /\ p \in Manifests
           THEN [manifests EXCEPT !.content[p] = disk[p]]
           ELSE manifests
  BY DEF VisitFile, environmentVars
<1> DEFINE found == "tsConfig" \in pending /\ disk[p] # 0
<1>2. /\ tsStore'.for = tsStore.for
      /\ tsStore'.property = IF found THEN tsStore.property \cup ({p} \cap request.provided)
                             ELSE tsStore.property
      /\ tsStore'.lookup = IF found THEN tsStore.lookup \cup ({p} \cap TsConfigJsons)
                           ELSE tsStore.lookup
  BY <1>1 DEF StoreInv, StoreTypes
<1>3. tsStore' = [for |-> tsStore'.for, property |-> tsStore'.property,
                  lookup |-> tsStore'.lookup]
  BY <1>1 DEF StoreInv, StoreTypes
<1>4. /\ request.provided \subseteq TsConfigs
      /\ disk \in [Paths -> Nat]
      /\ tsStore.for = {Key(request)} /\ manifests.for = {request.excluded}
      /\ p \notin request.excluded
  BY <1>1, ConfigurationsAssumption DEF StoreInv, StoreTypes, StoresFollowRequest
<1>5. /\ manifests' = [for |-> manifests.for, content |-> manifests'.content]
      /\ manifests'.content \in [Manifests -> Nat]
      /\ \A m \in Manifests \ {p} : manifests'.content[m] = manifests.content[m]
      /\ "manifest" \notin pending => manifests' = manifests
      /\ p \in Manifests /\ "manifest" \in pending => manifests'.content[p] = disk[p]
  <2>1. CASE "manifest" \in pending /\ p \in Manifests
    <3>1. manifests' = [manifests EXCEPT !.content[p] = disk[p]]
      BY <1>1, <2>1
    <3>2. manifests' = [manifests EXCEPT !.content = [manifests.content EXCEPT ![p] = disk[p]]]
      BY <3>1 DEF StoreInv, StoreTypes
    <3>3. manifests'.content = [manifests.content EXCEPT ![p] = disk[p]]
      BY <3>2 DEF StoreInv, StoreTypes
    <3>4. manifests' = [for |-> manifests.for, content |-> manifests'.content]
      BY <3>2 DEF StoreInv, StoreTypes
    <3>5. manifests.content \in [Manifests -> Nat] /\ disk[p] \in Nat
      BY <1>4 DEF StoreInv, StoreTypes
    <3> HIDE DEF found
    <3> QED
      BY <2>1, <3>3, <3>4, <3>5
  <2>2. CASE ~("manifest" \in pending /\ p \in Manifests)
    BY <1>1, <2>2 DEF StoreInv, StoreTypes
  <2> QED
    BY <2>1, <2>2
<1>6. StoreTypes'
  <2>1. manifests' = [for |-> manifests'.for, content |-> manifests'.content]
    BY <1>5
  <2>2. /\ tsStore'.property \subseteq TsConfigs /\ tsStore'.lookup \subseteq TsConfigs
        /\ \A key \in tsStore'.for : key.provided \subseteq TsConfigs
    BY <1>2, <1>4 DEF StoreInv, StoreTypes, TsConfigs
  <2> QED
    BY <1>1, <1>3, <1>5, <2>1, <2>2 DEF StoreInv, StoreTypes
<1>7. StoresFollowRequest' /\ ManifestStoresAgree'
  BY <1>1, <1>2, <1>5 DEF StoreInv, StoresFollowRequest, ManifestStoresAgree
<1>8. /\ UNCHANGED <<Untold, NotYetSeen, InSight>>
      /\ InSight
      /\ \A store : Unsure(store) \subseteq Unsure(store)' \cup {p}
      /\ \A store \in pending : p \notin Unsure(store)' => Unsure(store) \ {p} \subseteq Unsure(store)'
      /\ \A store : store \notin pending => Unsure(store)' = Unsure(store)
  BY <1>1 DEF Untold, NotYetSeen, InSight, Unsure
<1>9. ManifestsRead'
  <2> SUFFICES ASSUME "manifest" \notin halfFilled,
                      NEW m \in Manifests, m \notin request.excluded, m \notin Unsure("manifest")'
               PROVE  manifests'.content[m] = disk[m]
    BY <1>1, <1>4, <1>5 DEF ManifestsRead
  <2>1. CASE m = p /\ "manifest" \in pending
    BY <1>5, <2>1
  <2>2. CASE m = p /\ "manifest" \notin pending
    BY <1>4, <1>5, <1>8, <2>2 DEF StoreInv, ManifestsRead
  <2>3. CASE m # p
    BY <1>4, <1>5, <1>8, <2>3 DEF StoreInv, ManifestsRead
  <2> QED
    BY <2>1, <2>2, <2>3
<1>10. KnownExist'
  <2>1. \A q \in GetTsConfigs(tsStore)' : q \in GetTsConfigs(tsStore) \/ disk[q] # 0
    BY <1>2 DEF GetTsConfigs
  <2> QED
    BY <1>1, <1>8, <2>1 DEF StoreInv, KnownExist
<1>11. ProvidedKnown'
  <2> SUFFICES ASSUME "tsConfig" \notin halfFilled,
                      UsingProperty(tsStore)' \/ "tsConfig" \in pending,
                      NEW q \in request.provided, q \notin request.excluded,
                      q \notin Unsure("tsConfig")', disk[q] # 0
               PROVE  q \in tsStore'.property
    BY <1>1, <1>2, <1>4 DEF ProvidedKnown, Key
  <2>1. CASE q = p /\ "tsConfig" \in pending
    BY <1>2, <2>1
  <2>2. CASE q # p \/ "tsConfig" \notin pending
    <3>1. q \notin Unsure("tsConfig")
      BY <1>8, <2>2
    <3>2. UsingProperty(tsStore) \/ "tsConfig" \in pending
      BY <1>2 DEF UsingProperty
    <3>3. q \in tsStore.property
      BY <1>4, <1>8, <3>1, <3>2 DEF StoreInv, ProvidedKnown, Key
    <3> QED
      BY <1>2, <3>3
  <2> QED
    BY <2>1, <2>2
<1>12. LookupKnown'
  <2> SUFFICES ASSUME "tsConfig" \notin halfFilled,
                      UsingLookup(tsStore)' \/ "tsConfig" \in pending,
                      NEW q \in TsConfigJsons, q \notin request.excluded,
                      q \notin Unsure("tsConfig")', disk[q] # 0
               PROVE  q \in tsStore'.lookup
    BY <1>1, <1>2, <1>4 DEF LookupKnown, Key
  <2>1. CASE q = p /\ "tsConfig" \in pending
    BY <1>2, <2>1
  <2>2. CASE q # p \/ "tsConfig" \notin pending
    <3>1. q \notin Unsure("tsConfig")
      BY <1>8, <2>2
    <3>2. UsingLookup(tsStore) \/ "tsConfig" \in pending
      BY <1>2 DEF UsingLookup, UsingProperty
    <3>3. q \in tsStore.lookup
      BY <1>4, <1>8, <3>1, <3>2 DEF StoreInv, LookupKnown, Key
    <3> QED
      BY <1>2, <3>3
  <2> QED
    BY <2>1, <2>2
<1>13. PropertyFromProvided'
  <2> SUFFICES ASSUME UsingProperty(tsStore)'
               PROVE  \E q \in tsStore'.property : q \in request.provided \ request.excluded
    BY <1>2, <1>4 DEF PropertyFromProvided, Key
  <2>1. CASE UsingProperty(tsStore)
    BY <1>2, <1>4, <2>1 DEF StoreInv, PropertyFromProvided, Key
  <2>2. CASE ~UsingProperty(tsStore)
    BY <1>2, <1>4, <2>2 DEF UsingProperty
  <2> QED
    BY <2>1, <2>2
<1>14. ScannerWalk'
  <2> SUFFICES ASSUME ~request.sonarlint PROVE ScannerWalk'
    BY <1>1 DEF ScannerWalk
  <2>1. /\ halfFilled = {} /\ missed = {} /\ pending = Stores /\ toVisit \cap tsStore.lookup = {}
    BY <1>1 DEF StoreInv, ScannerWalk
  <2>2. toVisit' \cap tsStore'.lookup = {}
    BY <1>1, <1>2, <2>1
  <2>3. \A q \in TsConfigJsons \ (request.excluded \cup Unsure("tsConfig")') :
          q \in tsStore'.lookup <=> disk[q] # 0
    <3> SUFFICES ASSUME NEW q \in TsConfigJsons, q \notin request.excluded,
                        q \notin Unsure("tsConfig")'
                 PROVE  q \in tsStore'.lookup <=> disk[q] # 0
      OBVIOUS
    <3>1. CASE q = p
      BY <1>1, <1>2, <2>1, <3>1 DEF Stores
    <3>2. CASE q # p
      <4>1. q \in tsStore'.lookup <=> q \in tsStore.lookup
        BY <1>2, <3>2
      <4>2. q \notin Unsure("tsConfig")
        BY <1>8, <3>2
      <4> QED
        BY <1>1, <4>1, <4>2 DEF StoreInv, ScannerWalk
    <3> QED
      BY <3>1, <3>2
  <2> QED
    BY <1>1, <2>1, <2>2, <2>3 DEF ScannerWalk
<1> QED
  BY <1>6, <1>7, <1>9, <1>10, <1>11, <1>12, <1>13, <1>14 DEF StoreInv

\* The stores look at the events of the request: one that is not cleared is not
\* concerned by any of them.
LEMMA InitFileStoresKeepsStores == StoreInv /\ InitFileStores => StoreInv'
<1> SUFFICES ASSUME StoreInv, InitFileStores PROVE StoreInv'
  OBVIOUS
<1>1. /\ phase = "sent" /\ phase' = "walking"
      /\ UNCHANGED <<disk, events, request, fsEvents>>
      /\ pending' = Cleared
      /\ toVisit' = IF Cleared = {} THEN {} ELSE Paths \ request.excluded
      /\ missed' = {p \in missed : Unreported(p)}
      /\ halfFilled' = halfFilled \ Cleared
      /\ tsStore' = IF "tsConfig" \in Cleared
                    THEN [EmptyTsStore EXCEPT !.for = {Key(request)}] ELSE tsStore
      /\ manifests' = IF "manifest" \in Cleared
                      THEN [EmptyManifests EXCEPT !.for = {request.excluded}] ELSE manifests
      /\ generated' = IF "generated" \in Cleared
                      THEN [EmptyGenerated EXCEPT !.for = {request.excluded}] ELSE generated
  BY DEF InitFileStores, environmentVars
<1>2. Cleared \subseteq Stores /\ request.provided \subseteq TsConfigs
  BY ConfigurationsAssumption DEF Cleared, StoreInv, StoreTypes
\* Each store afterwards.
<1>3. "tsConfig" \in Cleared =>
        tsStore' = [for |-> {Key(request)}, property |-> {}, lookup |-> {}]
  BY <1>1 DEF EmptyTsStore
<1>4. "manifest" \in Cleared =>
        manifests' = [for |-> {request.excluded}, content |-> [m \in Manifests |-> 0]]
  BY <1>1 DEF EmptyManifests
<1>5. "generated" \in Cleared =>
        generated' = [for |-> {request.excluded}, derived |-> FALSE, from |-> [m \in Manifests |-> 0]]
  BY <1>1 DEF EmptyGenerated
<1>6. /\ "tsConfig" \notin Cleared => tsStore' = tsStore
      /\ "manifest" \notin Cleared => manifests' = manifests
      /\ "generated" \notin Cleared => generated' = generated
  BY <1>1
<1>7. \A store \in Stores \ Cleared : request.sonarlint /\ ~Dirty(store)
  BY DEF Cleared
<1>8. /\ "tsConfig" \notin Cleared =>
           /\ tsStore.for = {Key(request)}
           /\ \A p \in fsEvents : ~TouchesTsConfigs(tsStore, request, p)
      /\ "manifest" \notin Cleared =>
           manifests.for = {request.excluded} /\ fsEvents \cap Manifests = {}
  BY <1>7 DEF Dirty, Stores
<1>9. "generated" \in Cleared <=> "manifest" \in Cleared
  BY DEF Cleared, Stores, Dirty, StoreInv, ManifestStoresAgree
<1>10. Cleared # Stores => InSight
  BY <1>7, <1>2 DEF InSight
<1>11. StoreTypes'
  <2>1. /\ tsStore' = [for |-> tsStore'.for, property |-> tsStore'.property,
                       lookup |-> tsStore'.lookup]
        /\ tsStore'.property \subseteq TsConfigs /\ tsStore'.lookup \subseteq TsConfigs
        /\ \A key \in tsStore'.for : key.provided \subseteq TsConfigs
    <3>1. CASE "tsConfig" \in Cleared
      BY <1>2, <1>3, <3>1 DEF Key
    <3>2. CASE "tsConfig" \notin Cleared
      BY <1>6, <3>2 DEF StoreInv, StoreTypes
    <3> QED
      BY <3>1, <3>2
  <2>2. /\ manifests' = [for |-> manifests'.for, content |-> manifests'.content]
        /\ manifests'.content \in [Manifests -> Nat]
    <3>1. CASE "manifest" \in Cleared
      BY <1>4, <3>1
    <3>2. CASE "manifest" \notin Cleared
      BY <1>6, <3>2 DEF StoreInv, StoreTypes
    <3> QED
      BY <3>1, <3>2
  <2>3. generated' = [for |-> generated'.for, derived |-> generated'.derived,
                      from |-> generated'.from]
    BY <1>5, <1>6 DEF StoreInv, StoreTypes
  <2> QED
    BY <1>1, <1>2, <2>1, <2>2, <2>3 DEF StoreInv, StoreTypes
<1>12. tsStore'.for = {Key(request)} /\ manifests'.for = {request.excluded}
  BY <1>3, <1>4, <1>6, <1>8
<1>13. StoresFollowRequest'
  BY <1>1, <1>12 DEF StoresFollowRequest
<1>14. ManifestStoresAgree'
  <2>1. CASE "manifest" \in Cleared
    <3>1. generated'.for = {request.excluded}
      BY <1>5, <1>9, <2>1
    <3> QED
      BY <1>1, <1>9, <1>12, <2>1, <3>1 DEF ManifestStoresAgree
  <2>2. CASE "manifest" \notin Cleared
    <3>1. manifests' = manifests /\ generated' = generated
      BY <1>6, <1>9, <2>2
    <3>2. pending = {}
      BY <1>1 DEF StoreInv, StoresFollowRequest
    <3> QED
      BY <1>1, <1>9, <2>2, <3>1, <3>2 DEF StoreInv, ManifestStoresAgree
  <2> QED
    BY <2>1, <2>2
\* What the stores are unsure of afterwards, before they were unsure of too.
<1>15. pending = {} /\ NotYetSeen' = {} /\ NotYetSeen = fsEvents
  BY <1>1 DEF NotYetSeen, StoreInv, StoresFollowRequest
<1>16. Cleared # {} => \A p \in Paths \ request.excluded : p \in toVisit'
  BY <1>1
<1>17. \A store \in Cleared : Paths \ request.excluded \subseteq Unsure(store)'
  BY <1>1, <1>16 DEF Unsure
<1>18. \A p : /\ p \in TsConfigs /\ "tsConfig" \notin Cleared /\ p \in Untold => p \in Untold'
              /\ p \in Manifests /\ "manifest" \notin Cleared /\ p \in Untold => p \in Untold'
  BY <1>1 DEF Untold, Unreported
<1>19. \A store : Untold' \subseteq Unsure(store)'
  BY DEF Unsure
<1>20. ManifestsRead'
  <2> SUFFICES ASSUME "manifest" \notin halfFilled',
                      NEW m \in Manifests, m \notin request.excluded, m \notin Unsure("manifest")'
               PROVE  manifests'.content[m] = disk[m]
    BY <1>1, <1>12 DEF ManifestsRead
  <2>1. "manifest" \notin Cleared
    BY <1>17 DEF Paths
  <2>2. m \notin Unsure("manifest")
    BY <1>8, <1>15, <1>18, <1>19, <2>1 DEF Unsure
  <2>3. "manifest" \notin halfFilled /\ InSight
    BY <1>1, <1>10, <2>1 DEF Stores
  <2> QED
    BY <1>6, <1>8, <2>1, <2>2, <2>3 DEF StoreInv, ManifestsRead
<1>21. KnownExist'
  <2> SUFFICES ASSUME NEW p \in GetTsConfigs(tsStore)', p \notin Untold'
               PROVE  disk[p] # 0
    BY <1>1 DEF KnownExist
  <2>1. CASE "tsConfig" \in Cleared
    BY <1>3, <2>1 DEF GetTsConfigs
  <2>2. CASE "tsConfig" \notin Cleared
    <3>1. p \in GetTsConfigs(tsStore)
      BY <1>6, <2>2 DEF GetTsConfigs
    <3>2. p \in TsConfigs
      BY <3>1 DEF GetTsConfigs, StoreInv, StoreTypes
    <3>3. p \notin fsEvents
      BY <1>8, <2>2, <3>1 DEF TouchesTsConfigs
    <3>4. p \notin Untold
      BY <1>18, <2>2, <3>2
    <3> QED
      BY <1>10, <1>15, <2>2, <3>1, <3>3, <3>4 DEF StoreInv, KnownExist, Stores
  <2> QED
    BY <2>1, <2>2
<1>22. ProvidedKnown'
  <2> SUFFICES ASSUME "tsConfig" \notin halfFilled',
                      UsingProperty(tsStore)' \/ "tsConfig" \in Cleared,
                      NEW p \in request.provided, p \notin request.excluded,
                      p \notin Unsure("tsConfig")', disk[p] # 0
               PROVE  p \in tsStore'.property
    BY <1>1, <1>12 DEF ProvidedKnown, Key
  <2>1. "tsConfig" \notin Cleared
    BY <1>2, <1>17 DEF Paths
  <2>2. tsStore' = tsStore /\ UsingProperty(tsStore)
    BY <1>6, <2>1 DEF UsingProperty
  <2>3. p \notin fsEvents
    BY <1>8, <2>1, <2>2 DEF TouchesTsConfigs
  <2>4. p \notin Unsure("tsConfig")
    BY <1>2, <1>15, <1>18, <1>19, <2>1, <2>3 DEF Unsure
  <2>5. "tsConfig" \notin halfFilled /\ InSight
    BY <1>1, <1>10, <2>1 DEF Stores
  <2>6. Key(request) \in tsStore.for
    BY <1>8, <2>1
  <2>7. p \in Key(request).provided /\ p \notin Key(request).excluded
    BY DEF Key
  <2> QED
    BY <2>2, <2>4, <2>5, <2>6, <2>7 DEF StoreInv, ProvidedKnown
<1>23. LookupKnown'
  <2> SUFFICES ASSUME "tsConfig" \notin halfFilled',
                      UsingLookup(tsStore)' \/ "tsConfig" \in Cleared,
                      NEW p \in TsConfigJsons, p \notin request.excluded,
                      p \notin Unsure("tsConfig")', disk[p] # 0
               PROVE  p \in tsStore'.lookup
    BY <1>1, <1>12 DEF LookupKnown, Key
  <2>1. "tsConfig" \notin Cleared
    BY <1>17 DEF Paths, TsConfigs
  <2>2. tsStore' = tsStore /\ UsingLookup(tsStore)
    BY <1>6, <2>1 DEF UsingLookup, UsingProperty
  <2>3. p \notin fsEvents
    BY <1>8, <2>1, <2>2 DEF TouchesTsConfigs
  <2>4. p \notin Unsure("tsConfig")
    BY <1>15, <1>18, <1>19, <2>1, <2>3 DEF Unsure, TsConfigs
  <2>5. "tsConfig" \notin halfFilled /\ InSight
    BY <1>1, <1>10, <2>1 DEF Stores
  <2>6. Key(request) \in tsStore.for
    BY <1>8, <2>1
  <2>7. p \notin Key(request).excluded
    BY DEF Key
  <2> QED
    BY <2>2, <2>4, <2>5, <2>6, <2>7 DEF StoreInv, LookupKnown
<1>24. PropertyFromProvided'
  <2>1. CASE "tsConfig" \in Cleared
    BY <1>3, <2>1 DEF PropertyFromProvided, UsingProperty
  <2>2. CASE "tsConfig" \notin Cleared
    BY <1>6, <2>2 DEF StoreInv, PropertyFromProvided, UsingProperty
  <2> QED
    BY <2>1, <2>2
<1>25. ScannerWalk'
  <2> SUFFICES ASSUME ~request.sonarlint PROVE ScannerWalk'
    BY <1>1 DEF ScannerWalk
  <2>1. Cleared = Stores
    BY DEF Cleared
  <2>2. halfFilled' = {}
    BY <1>1, <2>1 DEF StoreInv, StoreTypes
  <2>3. missed' = {}
    BY <1>1, <2>1 DEF Unreported, Stores
  <2>4. tsStore'.lookup = {}
    BY <1>3, <2>1 DEF Stores
  <2>5. \A p \in TsConfigJsons : p \in request.excluded \cup Unsure("tsConfig")'
    BY <1>17, <2>1 DEF Stores, Paths, TsConfigs
  <2> QED
    BY <1>1, <2>1, <2>2, <2>3, <2>4, <2>5 DEF ScannerWalk
<1> QED
  BY <1>11, <1>13, <1>14, <1>20, <1>21, <1>22, <1>23, <1>24, <1>25 DEF StoreInv

\* What the stores found in every reachable state, and what they may not know of.
THEOREM StoreInvCorrect == Spec => []StoreInv
<1>1. Init => StoreInv
  BY StoreInvInit
<1>2. StoreInv /\ [Next]_vars => StoreInv'
  <2> SUFFICES ASSUME StoreInv, [Next]_vars PROVE StoreInv'
    OBVIOUS
  <2>1. ASSUME NEW p \in Paths, NEW v \in Versions, ProjectChanges(p, v) PROVE StoreInv'
    BY <2>1, ProjectChangesKeepsStores
  <2>2. CASE (\E c \in Configurations : SendRequest(c)) \/ LoseRequest
    BY <2>2, RequestsKeepStores
  <2>3. CASE InitFileStores
    BY <2>3, InitFileStoresKeepsStores
  <2>4. ASSUME NEW p \in Paths, VisitFile(p) PROVE StoreInv'
    BY <2>4, VisitFileKeepsStores
  <2>5. CASE PostProcess \/ WalkFails \/ EndAnalysis
    BY <2>5, EndOfWalkKeepsStores
  <2>6. ASSUME NEW t \in TsConfigs, UseProgram(t) PROVE StoreInv'
    <3>1. UNCHANGED <<disk, events, phase, request, fsEvents, pending, toVisit, tsStore,
                      manifests, generated, missed, halfFilled>>
      BY <2>6 DEF UseProgram, environmentVars, requestVars
    <3> QED
      BY <3>1, ProgramsDoNotMatter
  <2>7. ASSUME NEW t \in TsConfigs, DiscoverTsConfig(t) PROVE StoreInv'
    BY <2>7, DiscoverKeepsStores
  <2>8. CASE NewProcess
    BY <2>8, NewProcessKeepsStores
  <2>9. CASE UNCHANGED vars
    <3>1. UNCHANGED <<disk, events, phase, request, fsEvents, pending, toVisit, tsStore,
                      manifests, generated, missed, halfFilled>>
      BY <2>9 DEF vars, environmentVars, requestVars, storeVars
    <3> QED
      BY <3>1, ProgramsDoNotMatter
  <2> QED
    BY <2>1, <2>2, <2>3, <2>4, <2>5, <2>6, <2>7, <2>8, <2>9 DEF Next
<1> QED
  BY <1>1, <1>2, PTL DEF Spec

\* In every analysis after a successful walk the manifests that rules consult, and those
\* from which generated sources were derived, are the ones on disk, whatever requests,
\* lost requests and changes came before: both stores react to every manifest event
\* (dependency-manifests.ts and generated-sources.ts, dirtyCachesIfNeeded).
THEOREM ManifestsAreCurrentCorrect == Spec => []ManifestsAreCurrent
<1>1. StoreInv => ManifestsAreCurrent
  <2> SUFFICES ASSUME StoreInv, phase = "analysing", {"manifest", "generated"} \cap halfFilled = {},
                      NEW m \in Manifests, m \notin Untold, m \notin request.excluded
               PROVE  /\ manifests.content[m] = disk[m]
                      /\ generated.derived /\ generated.from[m] = disk[m]
    BY DEF ManifestsAreCurrent
  <2>1. pending = {} /\ manifests.for = {request.excluded}
    BY DEF StoreInv, StoresFollowRequest
  <2>2. m \notin Unsure("manifest")
    BY <2>1 DEF Unsure, NotYetSeen
  <2>3. manifests.content[m] = disk[m]
    BY <2>1, <2>2 DEF StoreInv, ManifestsRead, InSight
  <2>4. generated.derived /\ generated.from = manifests.content
    BY <2>1 DEF StoreInv, ManifestStoresAgree
  <2> QED
    BY <2>3, <2>4
<1> QED
  BY <1>1, StoreInvCorrect, PTL

\* The tsconfigs an analysis uses are the ones a walk would find, whatever was found,
\* discovered, created and deleted since the last walk: a new or deleted tsconfig of the
\* list in use is among the events to which the store reacts (tsconfigs.ts
\* dirtyCachesIfNeeded).
THEOREM TsConfigsAreCurrentCorrect == Spec => []TsConfigsAreCurrent
<1>1. StoreInv => TsConfigsAreCurrent
  <2> DEFINE known == GetTsConfigs(tsStore)
  <2> SUFFICES ASSUME StoreInv, phase = "analysing", "tsConfig" \notin halfFilled,
                      known # {},
                      request.provided # {} => UsingProperty(tsStore),
                      Untold \cap request.provided = {}
               PROVE  /\ Fresh \ Untold \subseteq known
                      /\ \A p \in known \ Untold : disk[p] # 0
    BY DEF TsConfigsAreCurrent
  <2>1. InSight /\ NotYetSeen = {} /\ Unsure("tsConfig") = Untold
    BY DEF InSight, NotYetSeen, Unsure, StoreInv, StoresFollowRequest
  <2>2. Key(request) \in tsStore.for
    BY DEF StoreInv, StoresFollowRequest
  <2>3. \A p \in known \ Untold : disk[p] # 0
    BY <2>1 DEF StoreInv, KnownExist
  <2>4. Fresh \ Untold \subseteq known
    <3>1. CASE UsingProperty(tsStore)
      <4>1. known = tsStore.property
        BY <3>1 DEF GetTsConfigs, UsingProperty
      <4>2. PICK q \in tsStore.property : q \in Key(request).provided \ Key(request).excluded
        BY <2>2, <3>1 DEF StoreInv, PropertyFromProvided
      <4>3. q \in Present(request.provided)
        BY <2>3, <4>1, <4>2 DEF Present, Key
      <4>4. Fresh = Present(request.provided)
        BY <4>3 DEF Fresh
      <4>5. ASSUME NEW p \in Fresh, p \notin Untold PROVE p \in tsStore.property
        <5>1. p \in Key(request).provided \ Key(request).excluded /\ disk[p] # 0
          BY <4>4 DEF Present, Key
        <5> QED
          BY <2>1, <2>2, <3>1, <4>5, <5>1 DEF StoreInv, ProvidedKnown
      <4> QED
        BY <4>1, <4>5
    <3>2. CASE ~UsingProperty(tsStore)
      <4>1. known = tsStore.lookup /\ UsingLookup(tsStore)
        BY <3>2 DEF GetTsConfigs, UsingProperty, UsingLookup
      <4>2. Fresh = Present(TsConfigJsons)
        BY <3>2 DEF Fresh, Present
      <4>3. ASSUME NEW p \in Fresh, p \notin Untold PROVE p \in tsStore.lookup
        <5>1. p \in TsConfigJsons /\ p \notin Key(request).excluded /\ disk[p] # 0
          BY <4>2 DEF Present, Key
        <5> QED
          BY <2>1, <2>2, <4>1, <4>3, <5>1 DEF StoreInv, LookupKnown
      <4> QED
        BY <4>1, <4>3
    <3> QED
      BY <3>1, <3>2
  <2> QED
    BY <2>3, <2>4
<1> QED
  BY <1>1, StoreInvCorrect, PTL

\* An analysis of a scanner sees the project as it is, up to changes made while it runs:
\* resetFileStores leaves nothing of an earlier analysis or of its failure.
THEOREM ScannerSeesTheProjectCorrect == Spec => []ScannerSeesTheProject
<1>1. StoreInv /\ ProgramInv => ScannerSeesTheProject
  <2> SUFFICES ASSUME StoreInv, ProgramInv, phase = "analysing", ~request.sonarlint
               PROVE  /\ halfFilled = {}
                      /\ \A p \in TsConfigJsons \ (events \cup request.excluded) :
                            p \in tsStore.lookup <=> disk[p] # 0
                      /\ \A m \in Manifests \ (events \cup request.excluded) :
                            manifests.content[m] = disk[m]
                      /\ \A t \in TsConfigs \ events : programs[t] \in {0, disk[t]}
    BY DEF ScannerSeesTheProject
  <2>1. halfFilled = {} /\ missed = {} /\ pending = {} /\ manifests.for = {request.excluded}
    BY DEF StoreInv, ScannerWalk, StoresFollowRequest
  <2>2. /\ InSight /\ NotYetSeen = {} /\ Untold = events
        /\ Unsure("tsConfig") = events /\ Unsure("manifest") = events
    BY <2>1 DEF InSight, NotYetSeen, Unsure, Untold
  <2>3. \A p \in TsConfigJsons \ (events \cup request.excluded) :
          p \in tsStore.lookup <=> disk[p] # 0
    BY <2>2 DEF StoreInv, ScannerWalk
  <2>4. \A m \in Manifests \ (events \cup request.excluded) : manifests.content[m] = disk[m]
    BY <2>1, <2>2 DEF StoreInv, ManifestsRead
  <2>5. \A t \in TsConfigs \ events : programs[t] \in {0, disk[t]}
    BY <2>2 DEF ProgramInv, ProgramsCurrentOrUntold
  <2> QED
    BY <2>1, <2>3, <2>4, <2>5
<1> QED
  BY <1>1, StoreInvCorrect, ProgramInvCorrect, PTL
=============================================================================
