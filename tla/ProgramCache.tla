---------------------------- MODULE ProgramCache ----------------------------
(***************************************************************************)
(* The TypeScript programs a SonarQube for IDE analysis reuses from one    *)
(* request to the next (packages/analysis/src/jsts/program): the LRU cache *)
(* of builder programs, found by the files they contain; one               *)
(* IncrementalCompilerHost per program, counting versions; and the caches  *)
(* all hosts share, of file contents and of parsed files.                  *)
(*                                                                         *)
(* A request supplies the contents of some files, and its files are        *)
(* analysed one after the other, each with the program that                *)
(* createOrGetCachedProgramForFile returns.  One request runs at a time    *)
(* (AnalysisQueue), so the steps are per file.                             *)
(*                                                                         *)
(* Contents are model values; a parsed file is the content it was parsed   *)
(* from.  TypeScript itself is external: a program reads its root files    *)
(* and, transitively, what their contents import.  All programs have the   *)
(* same target, jsx and importHelpers, so the parsed cache has one entry   *)
(* per file.  The WeakMap of programs keeps an entry as long as the LRU    *)
(* map holds its key object, so programCache.ts:77-81 is unreachable and   *)
(* program and metadata are one record here.                               *)
(***************************************************************************)
EXTENDS Integers, Sequences, FiniteSets

CONSTANTS
    Files,          \* files of the project
    Contents,       \* contents a file can have
    Imports,        \* files a content of a file imports (module resolution)
    TsConfigLists,  \* values of the tsconfig store: sequences of root file sets
    OrphanSettings, \* values of createTSProgramForOrphanFiles requests have
    MaxSizes,       \* numbers of programs a cache may hold (10 in the code)
    MaxRequests     \* bound on the requests of a behaviour

ASSUME ContentsAssumption == Imports \in [Files -> [Contents -> SUBSET Files]]
ASSUME TsConfigsAssumption == TsConfigLists \subseteq Seq(SUBSET Files)
ASSUME BoundsAssumption == /\ OrphanSettings \subseteq BOOLEAN
                           /\ MaxSizes \subseteq Nat \ {0}
                           /\ MaxRequests \in Nat

\* A Map of the code that has no entries, and a program that was not built.
EmptyMap  == <<>>
NoProgram == <<>>

VARIABLES
    disk,      \* contents on disk
    contents,  \* sourceFileContentCache
    parsed,    \* parsedSourceFileCache
    context,   \* currentFilesContext: the contents the request supplies
    tsconfigs, \* root files of each tsconfig, in the store's order
    orphans,   \* createTSProgramForOrphanFiles of the request
    maxSize,   \* programs lruCache may hold
    lru,       \* lruCache, least recently used first
    pending,   \* files of the request still to analyse
    served,    \* files of the request analysed, with the parses of their program
    requests   \* requests received

caches == <<contents, parsed>>
vars == <<disk, contents, parsed, context, tsconfigs, orphans, maxSize, lru,
          pending, served, requests>>

-----------------------------------------------------------------------------
(* Reading a file through a host.                                           *)

\* Mutant: the cached content wins.
CachedContent(f) == IF f \in DOMAIN contents THEN contents[f]
                    ELSE IF f \in DOMAIN context THEN context[f]
                    ELSE disk[f]

\* The content readFile returns: the request's, else the cached, else the disk's.
Content(f) == IF f \in DOMAIN context THEN context[f]
              ELSE IF f \in DOMAIN contents THEN contents[f]
              ELSE disk[f]

\* updateFile returns true: the request's content is not the cached one.
Updated(f) == /\ f \in DOMAIN context
              /\ f \in DOMAIN contents => contents[f] # context[f]

NextVersion(version, f) == IF Updated(f) THEN version[f] + 1 ELSE version[f]

\* Mutant: updateFile counts versions, but does not invalidate the parse.
SourceFileByVersion(version, f) ==
    IF f \in DOMAIN parsed /\ parsed[f].hash = NextVersion(version, f)
    THEN parsed[f].content
    ELSE Content(f)

\* getSourceFile: a cached parse of the host's current version, or a new parse.
SourceFile(version, f) ==
    IF ~Updated(f) /\ f \in DOMAIN parsed /\ parsed[f].hash = version[f]
    THEN parsed[f].content
    ELSE Content(f)

\* The files a program with these roots consists of: the least set that
\* contains them and is closed under imports.
Closure(roots, ast) ==
    {f \in Files : \A S \in SUBSET Files :
        (roots \subseteq S /\ \A g \in S : Imports[g][ast[g]] \subseteq S) => f \in S}

\* A program built with these roots by a host at these versions.  kept are the
\* files of the program it replaces, which TypeScript reads again when the roots
\* are the same.  files is the metadata of the cache entry.
Build(roots, version, kept) ==
    LET ast == [f \in Files |-> SourceFile(version, f)]
        program == Closure(roots, ast)
        read == program \cup kept
    IN  [ast |-> [f \in program |-> ast[f]],
         roots |-> roots,
         read |-> read,
         version |-> [f \in Files |-> IF f \in read THEN NextVersion(version, f)
                                                    ELSE version[f]]]

\* What reading the files of build b leaves in the two shared caches.
CachesAfter(b, version) ==
    /\ contents' = [f \in DOMAIN contents \cup b.read |->
         IF f \in b.read THEN Content(f) ELSE contents[f]]
    /\ parsed' = [f \in DOMAIN parsed \cup b.read |->
         IF f \in b.read
         THEN [hash |-> b.version[f], content |-> SourceFile(version, f)]
         ELSE parsed[f]]

-----------------------------------------------------------------------------
(* programOptionsFromClosestTsconfig: the first tsconfig of the list that   *)
(* has the file among its root files, else the pending files no tsconfig    *)
(* covers, if programs are built for them.                                  *)

Covered == UNION {tsconfigs[i] : i \in DOMAIN tsconfigs}

HasOptions(f) == f \in Covered \/ orphans

RootNames(f) ==
    IF f \in Covered
    THEN tsconfigs[CHOOSE i \in DOMAIN tsconfigs :
                     /\ f \in tsconfigs[i]
                     /\ \A j \in 1..(i - 1) : f \notin tsconfigs[j]]
    ELSE pending \ Covered

-----------------------------------------------------------------------------
(* The cache of programs.                                                   *)

\* findProgramForFile: the first entry, least recently used first, whose
\* metadata has the file.
Hits(f) == {i \in DOMAIN lru : f \in lru[i].files}
FirstHit(f) == CHOOSE i \in Hits(f) : \A j \in Hits(f) : i <= j

Without(i) == SubSeq(lru, 1, i - 1) \o SubSeq(lru, i + 1, Len(lru))
MoveToEnd(i) == Append(Without(i), lru[i])

\* storeProgram evicts the least recently used entry when the cache is full.
MakeRoom == IF Len(lru) >= maxSize THEN Tail(lru) ELSE lru

NewHost == [f \in Files |-> 0]

-----------------------------------------------------------------------------
Init ==
    /\ disk \in [Files -> Contents]
    /\ contents = EmptyMap
    /\ parsed = EmptyMap
    /\ context = EmptyMap
    /\ tsconfigs \in TsConfigLists
    /\ orphans \in OrphanSettings
    /\ maxSize \in MaxSizes
    /\ lru = <<>>
    /\ pending = {}
    /\ served = EmptyMap
    /\ requests = 0

\* A file changes on disk.  Nothing tells the content cache.
ChangeOnDisk(f, c) ==
    /\ c # disk[f]
    /\ disk' = [disk EXCEPT ![f] = c]
    /\ UNCHANGED <<caches, context, tsconfigs, orphans, lru, pending, served, requests>>

\* A request arrives with the contents of its files: setSourceFilesContext.
NewRequest(files) ==
    /\ pending = {}
    /\ requests < MaxRequests
    /\ requests' = requests + 1
    /\ context' = files
    /\ orphans' \in OrphanSettings
    /\ served' = EmptyMap
    /\ UNCHANGED disk

StartRequest(files) ==
    /\ NewRequest(files)
    /\ pending' = DOMAIN files
    /\ UNCHANGED <<caches, tsconfigs, lru>>

\* Its fsEvents name a tsconfig: the tsconfig store starts afresh and drops the
\* programs.  The caches of contents and parses stay.
StartRequestAfterTsConfigEvent(files, list) ==
    /\ NewRequest(files)
    /\ pending' = DOMAIN files
    /\ tsconfigs' = list
    /\ lru' = <<>>
    /\ UNCHANGED caches

\* A scanner analysis starts by dropping everything.  It does not use the cache
\* of programs, but the hosts of its programs fill the shared caches.  The first to
\* read a file of the request counts a version; a second one has counted none.
ScannerAnalysis(files, read, programs, list) ==
    /\ NewRequest(files)
    /\ pending' = {}
    /\ tsconfigs' = list
    /\ lru' = <<>>
    /\ contents' = [f \in read |-> IF f \in DOMAIN files THEN files[f] ELSE disk[f]]
    /\ parsed' = [f \in read |->
         [hash |-> IF f \in DOMAIN files /\ programs = 1 THEN 1 ELSE 0,
          content |-> IF f \in DOMAIN files THEN files[f] ELSE disk[f]]]

\* analyzeFile(f) with this program.
Serve(f, ast) ==
    /\ served' = [g \in DOMAIN served \cup {f} |-> IF g = f THEN ast ELSE served[g]]
    /\ pending' = pending \ {f}
    /\ UNCHANGED <<disk, context, tsconfigs, orphans, requests>>

\* Cache hit, and updateFile sees no change: the program as it is.
ReuseProgram(f) ==
    /\ f \in pending
    /\ Hits(f) # {}
    /\ ~Updated(f)
    /\ lru' = MoveToEnd(FirstHit(f))
    /\ Serve(f, lru[FirstHit(f)].ast)
    /\ UNCHANGED caches

\* Cache hit, and updateFile sees a change: the program is built again by its
\* host, with the options for f.  The metadata of the entry is not.
RecreateProgram(f) ==
    /\ f \in pending
    /\ Hits(f) # {}
    /\ Updated(f)
    /\ HasOptions(f)
    /\ LET old == lru[FirstHit(f)]
           roots == RootNames(f)
           kept == IF roots = old.roots THEN DOMAIN old.ast ELSE {}
           new == Build(roots, old.version, kept)
       IN /\ lru' = Append(Without(FirstHit(f)),
                           [old EXCEPT !.ast = new.ast, !.roots = roots,
                                       !.version = new.version])
          /\ CachesAfter(new, old.version)
          /\ Serve(f, new.ast)

\* Cache hit and a change, but no options for f: f goes without a program, when
\* updateFile has already replaced its content and dropped its parse.
UpdateWithoutProgram(f) ==
    /\ f \in pending
    /\ Hits(f) # {}
    /\ Updated(f)
    /\ ~HasOptions(f)
    /\ LET old == lru[FirstHit(f)]
       IN lru' = Append(Without(FirstHit(f)),
                        [old EXCEPT !.version[f] = @ + 1])
    /\ contents' = [g \in DOMAIN contents \cup {f} |->
         IF g = f THEN context[f] ELSE contents[g]]
    /\ parsed' = [g \in DOMAIN parsed \ {f} |-> parsed[g]]
    /\ Serve(f, NoProgram)

\* Cache miss: a new program by a new host.
CreateProgram(f) ==
    /\ f \in pending
    /\ Hits(f) = {}
    /\ HasOptions(f)
    /\ LET new == Build(RootNames(f), NewHost, {})
       IN /\ lru' = Append(MakeRoom,
                           [files |-> DOMAIN new.ast, roots |-> new.roots,
                            ast |-> new.ast, version |-> new.version])
          /\ CachesAfter(new, NewHost)
          /\ Serve(f, new.ast)

\* Cache miss and no options: no program.
NoProgramFor(f) ==
    /\ f \in pending
    /\ Hits(f) = {}
    /\ ~HasOptions(f)
    /\ Serve(f, NoProgram)
    /\ UNCHANGED <<caches, lru>>

\* The loop ends at a cancellation.
CancelRequest ==
    /\ pending # {}
    /\ pending' = {}
    /\ UNCHANGED <<disk, caches, context, tsconfigs, orphans, lru, served, requests>>

AnalyzeFile(f) ==
    \/ ReuseProgram(f)
    \/ RecreateProgram(f)
    \/ UpdateWithoutProgram(f)
    \/ CreateProgram(f)
    \/ NoProgramFor(f)

Requests == UNION {[S -> Contents] : S \in SUBSET Files \ {{}}}

Next ==
    /\ \/ \E f \in Files, c \in Contents : ChangeOnDisk(f, c)
       \/ \E files \in Requests : StartRequest(files)
       \/ \E files \in Requests, list \in TsConfigLists :
             StartRequestAfterTsConfigEvent(files, list)
       \/ \E files \in Requests, list \in TsConfigLists :
             \E read \in SUBSET Files, programs \in 1..2 :
                ScannerAnalysis(files, read, programs, list)
       \/ \E f \in Files : AnalyzeFile(f)
       \/ CancelRequest
    /\ UNCHANGED maxSize

Spec == Init /\ [][Next]_vars

-----------------------------------------------------------------------------
(* Properties.                                                              *)

Programs == UNION {[S -> Contents] : S \in SUBSET Files}

Entries == [files : SUBSET Files, roots : SUBSET Files,
            ast : Programs, version : [Files -> Nat]]

\* The type of the state: what each cache holds, and that the files analysed and
\* to analyse are files of the request.
TypeOK ==
    /\ disk \in [Files -> Contents]
    /\ contents \in Programs
    /\ DOMAIN parsed \subseteq Files
    /\ \A f \in DOMAIN parsed : parsed[f] \in [hash : Nat, content : Contents]
    /\ context \in Programs
    /\ tsconfigs \in TsConfigLists
    /\ orphans \in OrphanSettings
    /\ maxSize \in MaxSizes
    /\ lru \in Seq(Entries)
    /\ pending \subseteq DOMAIN context
    /\ DOMAIN served \subseteq DOMAIN context \ pending
    /\ \A f \in DOMAIN served : served[f] \in Programs
    /\ requests \in 0..MaxRequests

\* The parsed file in the cache is the parse of the cached content, although the
\* version it is filed under is a counter of one host and all hosts look it up:
\* equal counters of two hosts never stand for different contents.
ParsedIsCurrent ==
    \A f \in DOMAIN parsed : f \in DOMAIN contents /\ parsed[f].content = contents[f]

\* storeProgram makes room before it adds: the cache never holds more programs
\* than its capacity.
CacheBounded == Len(lru) <= maxSize

\* A program that a step builds has, for each of its files, the content the
\* shared cache then holds, which for a file of the request is the request's
\* (getSourceFile makes the request's content authoritative).
BuildsReadTheRequest ==
    [][\A i \in DOMAIN lru' :
         (\A j \in DOMAIN lru : lru[j].ast # lru'[i].ast) =>
            \A f \in DOMAIN lru'[i].ast :
               /\ lru'[i].ast[f] = contents'[f]
               /\ f \in DOMAIN context => lru'[i].ast[f] = context[f]]_vars

\* A file is analysed with the content the request supplied for it: when its
\* program has another, createOrGetCachedProgramForFile builds it again.
ServedContentIsTheRequests ==
    \A f \in DOMAIN served : f \in DOMAIN served[f] => served[f][f] = context[f]

=============================================================================
