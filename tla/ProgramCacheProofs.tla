-------------------------- MODULE ProgramCacheProofs --------------------------
(* Proofs about ProgramCache for every project, every import relation and     *)
(* every size of the cache.                                                   *)
EXTENDS ProgramCache, SequenceTheorems, WellFoundedInduction, TLAPS

-----------------------------------------------------------------------------
(* The cache of parsed files.                                                *)

\* While the parsed cache is current, getSourceFile returns the parse of the
\* content readFile returns, whatever versions its host has counted: a cached parse
\* is taken only if updateFile has not just replaced the cached content.
LEMMA SourceFileIsContent ==
    ASSUME ParsedIsCurrent, NEW version, NEW f
    PROVE  SourceFile(version, f) = Content(f)
<1>1. CASE ~Updated(f) /\ f \in DOMAIN parsed /\ parsed[f].hash = version[f]
  <2>1. f \in DOMAIN contents /\ parsed[f].content = contents[f]
    BY <1>1 DEF ParsedIsCurrent
  <2>2. f \in DOMAIN context => contents[f] = context[f]
    BY <1>1, <2>1 DEF Updated
  <2>3. Content(f) = contents[f]
    BY <2>1, <2>2 DEF Content
  <2> QED
    BY <1>1, <2>1, <2>3 DEF SourceFile
<1>2. CASE ~(~Updated(f) /\ f \in DOMAIN parsed /\ parsed[f].hash = version[f])
  BY <1>2 DEF SourceFile
<1> QED
  BY <1>1, <1>2

\* A build leaves both caches with the same content for each file it reads.
LEMMA BuildKeepsCurrent ==
    ASSUME ParsedIsCurrent, NEW b, NEW version, CachesAfter(b, version)
    PROVE  ParsedIsCurrent'
<1> SUFFICES ASSUME NEW f \in DOMAIN parsed'
             PROVE  f \in DOMAIN contents' /\ parsed'[f].content = contents'[f]
  BY DEF ParsedIsCurrent
<1>1. /\ DOMAIN contents' = DOMAIN contents \cup b.read
      /\ DOMAIN parsed' = DOMAIN parsed \cup b.read
  BY DEF CachesAfter
<1>2. CASE f \in b.read
  <2>1. f \in DOMAIN contents' /\ contents'[f] = Content(f)
    BY <1>1, <1>2 DEF CachesAfter
  <2>2. parsed'[f].content = SourceFile(version, f)
    BY <1>1, <1>2 DEF CachesAfter
  <2> QED
    BY <2>1, <2>2, SourceFileIsContent
<1>3. CASE f \notin b.read
  <2>1. f \in DOMAIN contents /\ parsed[f].content = contents[f]
    BY <1>1, <1>3 DEF ParsedIsCurrent
  <2>2. contents'[f] = contents[f] /\ parsed'[f] = parsed[f]
    BY <1>1, <1>3, <2>1 DEF CachesAfter
  <2> QED
    BY <1>1, <2>1, <2>2
<1> QED
  BY <1>2, <1>3

LEMMA CurrentInit == Init => ParsedIsCurrent
<1> SUFFICES ASSUME Init PROVE DOMAIN parsed = {}
  BY DEF ParsedIsCurrent
<1> QED
  BY DEF Init, EmptyMap

LEMMA CurrentStep == ParsedIsCurrent /\ [Next]_vars => ParsedIsCurrent'
<1> SUFFICES ASSUME ParsedIsCurrent, [Next]_vars PROVE ParsedIsCurrent'
  OBVIOUS
<1>0. ASSUME UNCHANGED caches PROVE ParsedIsCurrent'
  BY <1>0 DEF caches, ParsedIsCurrent
<1>1. ASSUME NEW f \in Files, NEW c \in Contents, ChangeOnDisk(f, c)
      PROVE  ParsedIsCurrent'
  BY <1>0, <1>1 DEF ChangeOnDisk
<1>2. ASSUME NEW files \in Requests, StartRequest(files) PROVE ParsedIsCurrent'
  BY <1>0, <1>2 DEF StartRequest
<1>3. ASSUME NEW files \in Requests, NEW list \in TsConfigLists,
             StartRequestAfterTsConfigEvent(files, list)
      PROVE  ParsedIsCurrent'
  BY <1>0, <1>3 DEF StartRequestAfterTsConfigEvent
<1>4. ASSUME NEW files \in Requests, NEW list \in TsConfigLists,
             NEW read \in SUBSET Files, NEW programs \in 1..2,
             ScannerAnalysis(files, read, programs, list)
      PROVE  ParsedIsCurrent'
  <2>1. DOMAIN parsed' = read /\ DOMAIN contents' = read
    BY <1>4 DEF ScannerAnalysis
  <2>2. ASSUME NEW f \in read PROVE parsed'[f].content = contents'[f]
    BY <1>4, <2>1, <2>2 DEF ScannerAnalysis
  <2> QED
    BY <2>1, <2>2 DEF ParsedIsCurrent
<1>5. ASSUME NEW f \in Files, ReuseProgram(f) PROVE ParsedIsCurrent'
  BY <1>0, <1>5 DEF ReuseProgram
<1>6. ASSUME NEW f \in Files, RecreateProgram(f) PROVE ParsedIsCurrent'
  BY <1>6, BuildKeepsCurrent DEF RecreateProgram
<1>7. ASSUME NEW f \in Files, UpdateWithoutProgram(f) PROVE ParsedIsCurrent'
  <2> SUFFICES ASSUME NEW g \in DOMAIN parsed'
               PROVE  g \in DOMAIN contents' /\ parsed'[g].content = contents'[g]
    BY DEF ParsedIsCurrent
  <2>1. /\ DOMAIN parsed' = DOMAIN parsed \ {f}
        /\ DOMAIN contents' = DOMAIN contents \cup {f}
    BY <1>7 DEF UpdateWithoutProgram
  <2>2. /\ g \in DOMAIN parsed /\ g # f
        /\ g \in DOMAIN contents /\ parsed[g].content = contents[g]
    BY <2>1 DEF ParsedIsCurrent
  <2>3. parsed'[g] = parsed[g] /\ contents'[g] = contents[g]
    BY <1>7, <2>1, <2>2 DEF UpdateWithoutProgram
  <2> QED
    BY <2>1, <2>2, <2>3
<1>8. ASSUME NEW f \in Files, CreateProgram(f) PROVE ParsedIsCurrent'
  BY <1>8, BuildKeepsCurrent DEF CreateProgram
<1>9. ASSUME NEW f \in Files, NoProgramFor(f) PROVE ParsedIsCurrent'
  BY <1>0, <1>9 DEF NoProgramFor
<1>10. CASE CancelRequest
  BY <1>0, <1>10 DEF CancelRequest, caches
<1>11. CASE UNCHANGED vars
  BY <1>0, <1>11 DEF vars, caches
<1> QED
  BY <1>1, <1>2, <1>3, <1>4, <1>5, <1>6, <1>7, <1>8, <1>9, <1>10, <1>11
     DEF Next, AnalyzeFile

\* The version a parse is filed under is a counter of one host, and all hosts look
\* parses up by theirs: a parse in the cache is that of the cached content all the
\* same, whatever hosts there are and whatever the files import.
THEOREM ParsedIsCurrentCorrect == Spec => []ParsedIsCurrent
BY CurrentInit, CurrentStep, PTL DEF Spec

-----------------------------------------------------------------------------
(* The size of the cache of programs.                                        *)

\* The entries are of no interest here, only that the cache is a sequence.
LruInv ==
    /\ \E Entry : lru \in Seq(Entry)
    /\ maxSize \in Nat \ {0}
    /\ Len(lru) <= maxSize

\* A set of natural numbers that is not empty has a least element.
LEMMA LeastOf ==
    ASSUME NEW S, S \subseteq Nat, S # {}
    PROVE  \E i \in S : \A j \in S : i <= j
<1> DEFINE Less == OpToRel(<, Nat)
<1>1. PICK i \in S : \A j \in S : <<j, i>> \notin Less
  <2>1. IsWellFoundedOn(Less, Nat)
    BY NatLessThanWellFounded
  <2> HIDE DEF Less
  <2> QED
    BY <2>1, WFMin
<1>2. \A j \in S : ~(j < i)
  BY <1>1 DEF OpToRel
<1> QED
  BY <1>2

\* A hit takes an entry out of the cache and appends one, as touchEntry does.
LEMMA TouchKeepsLength ==
    ASSUME NEW Entry, NEW s \in Seq(Entry), NEW i \in 1..Len(s), NEW e
    PROVE  /\ Append(SubSeq(s, 1, i - 1) \o SubSeq(s, i + 1, Len(s)), e) \in Seq(Entry \cup {e})
           /\ Len(Append(SubSeq(s, 1, i - 1) \o SubSeq(s, i + 1, Len(s)), e)) = Len(s)
<1> DEFINE All    == Entry \cup {e}
           before == SubSeq(s, 1, i - 1)
           after  == SubSeq(s, i + 1, Len(s))
<1>1. Len(s) \in Nat /\ \A j \in 1..Len(s) : s[j] \in All
  BY LenProperties, ElementOfSeq
<1>2. before \in Seq(All) /\ Len(before) = i - 1
  <2>1. \A j \in 1..(i - 1) : s[j] \in All
    BY <1>1
  <2> QED
    BY <1>1, <2>1, SubSeqProperties
<1>3. after \in Seq(All) /\ Len(after) = Len(s) - i
  <2>1. \A j \in (i + 1)..Len(s) : s[j] \in All
    BY <1>1
  <2> QED
    BY <1>1, <2>1, SubSeqProperties
<1> HIDE DEF before, after, All
<1>4. before \o after \in Seq(All) /\ Len(before \o after) = Len(s) - 1
  <2>1. /\ before \o after \in Seq(All)
        /\ Len(before \o after) = Len(before) + Len(after)
    BY <1>2, <1>3, ConcatProperties, Zenon
  <2>2. i \in Int
    OBVIOUS
  <2> QED
    BY <1>1, <1>2, <1>3, <2>1, <2>2
<1>5. e \in All
  BY DEF All
<1>6. /\ Append(before \o after, e) \in Seq(All)
      /\ Len(Append(before \o after, e)) = Len(s)
  BY <1>1, <1>4, <1>5, AppendProperties
<1> QED
  BY <1>6 DEF before, after, All

\* A program is added when room was made for it.
LEMMA AddingKeepsBound ==
    ASSUME LruInv, NEW e
    PROVE  (\E Entry : Append(MakeRoom, e) \in Seq(Entry)) /\ Len(Append(MakeRoom, e)) <= maxSize
<1>1. PICK Entry : lru \in Seq(Entry)
  BY DEF LruInv
<1> DEFINE All == Entry \cup {e}
<1>2. Len(lru) \in Nat /\ maxSize \in Nat \ {0} /\ Len(lru) <= maxSize
  BY <1>1, LenProperties DEF LruInv
<1>3. lru \in Seq(All)
  BY <1>1, SeqMonotonic
<1>4. MakeRoom \in Seq(All) /\ Len(MakeRoom) < maxSize
  <2>1. CASE Len(lru) >= maxSize
    <3>1. lru # << >>
      BY <1>2, <2>1, EmptySeq
    <3> QED
      BY <1>2, <1>3, <2>1, <3>1, HeadTailProperties DEF MakeRoom
  <2>2. CASE ~(Len(lru) >= maxSize)
    BY <1>2, <1>3, <2>2 DEF MakeRoom
  <2> QED
    BY <2>1, <2>2
<1>5. Len(MakeRoom) \in Nat
  BY <1>4, LenProperties
<1>6. Append(MakeRoom, e) \in Seq(All) /\ Len(Append(MakeRoom, e)) = Len(MakeRoom) + 1
  BY <1>4, AppendProperties
<1> QED
  BY <1>2, <1>4, <1>5, <1>6

LEMMA LruInvInit == Init => LruInv
<1> SUFFICES ASSUME Init PROVE LruInv
  OBVIOUS
<1>1. lru = << >> /\ maxSize \in Nat \ {0}
  BY BoundsAssumption DEF Init
<1>2. lru \in Seq({}) /\ Len(lru) = 0
  BY <1>1, EmptySeq
<1> QED
  BY <1>1, <1>2 DEF LruInv

LEMMA HitKeepsLruInv ==
    ASSUME LruInv, UNCHANGED maxSize, NEW f, Hits(f) # {}, NEW e,
           lru' = Append(Without(FirstHit(f)), e)
    PROVE  LruInv'
<1>1. PICK Entry : lru \in Seq(Entry)
  BY DEF LruInv
<1>2. FirstHit(f) \in 1..Len(lru)
  <2>1. Hits(f) \subseteq 1..Len(lru) /\ Len(lru) \in Nat
    BY <1>1, LenProperties DEF Hits
  <2>2. \E i \in Hits(f) : \A j \in Hits(f) : i <= j
    BY <2>1, LeastOf
  <2> QED
    BY <2>1, <2>2 DEF FirstHit
<1>3. lru' \in Seq(Entry \cup {e}) /\ Len(lru') = Len(lru)
  BY <1>1, <1>2, TouchKeepsLength DEF Without
<1> QED
  BY <1>3 DEF LruInv

LEMMA LruInvStep == LruInv /\ [Next]_vars => LruInv'
<1> SUFFICES ASSUME LruInv, [Next]_vars PROVE LruInv'
  OBVIOUS
<1>0. ASSUME UNCHANGED <<lru, maxSize>> PROVE LruInv'
  BY <1>0 DEF LruInv
<1>1. ASSUME lru' = << >>, UNCHANGED maxSize PROVE LruInv'
  BY <1>1, EmptySeq DEF LruInv
<1>2. ASSUME NEW f \in Files, UNCHANGED maxSize, ReuseProgram(f) PROVE LruInv'
  BY <1>2, HitKeepsLruInv DEF ReuseProgram, MoveToEnd
<1>3. ASSUME NEW f \in Files, UNCHANGED maxSize, RecreateProgram(f) PROVE LruInv'
  <2>1. /\ Hits(f) # {}
        /\ \E e : lru' = Append(Without(FirstHit(f)), e)
    BY <1>3 DEF RecreateProgram
  <2> QED
    BY <1>3, <2>1, HitKeepsLruInv
<1>4. ASSUME NEW f \in Files, UNCHANGED maxSize, UpdateWithoutProgram(f) PROVE LruInv'
  <2>1. /\ Hits(f) # {}
        /\ \E e : lru' = Append(Without(FirstHit(f)), e)
    BY <1>4 DEF UpdateWithoutProgram
  <2> QED
    BY <1>4, <2>1, HitKeepsLruInv
<1>5. ASSUME NEW f \in Files, UNCHANGED maxSize, CreateProgram(f) PROVE LruInv'
  <2>1. \E e : lru' = Append(MakeRoom, e)
    BY <1>5 DEF CreateProgram
  <2>2. PICK e : lru' = Append(MakeRoom, e)
    BY <2>1
  <2>3. (\E Entry : lru' \in Seq(Entry)) /\ Len(lru') <= maxSize
    BY <2>2, AddingKeepsBound
  <2> QED
    BY <1>5, <2>3 DEF LruInv
<1>6. ASSUME NEW files \in Requests, UNCHANGED maxSize, StartRequest(files) PROVE LruInv'
  BY <1>0, <1>6 DEF StartRequest
<1>7. ASSUME NEW files \in Requests, NEW list \in TsConfigLists, NEW read \in SUBSET Files,
             NEW programs \in 1..2, UNCHANGED maxSize, ScannerAnalysis(files, read, programs, list)
      PROVE  LruInv'
  BY <1>1, <1>7 DEF ScannerAnalysis
<1>8. ASSUME NEW f \in Files, UNCHANGED maxSize,
             NoProgramFor(f) \/ \E c \in Contents : ChangeOnDisk(f, c)
      PROVE  LruInv'
  BY <1>0, <1>8 DEF NoProgramFor, ChangeOnDisk
<1>9. CASE UNCHANGED vars
  BY <1>0, <1>9 DEF vars
<1>10. ASSUME CancelRequest, UNCHANGED maxSize PROVE LruInv'
  BY <1>0, <1>10 DEF CancelRequest
<1>11. ASSUME NEW files \in Requests, NEW list \in TsConfigLists, UNCHANGED maxSize,
              StartRequestAfterTsConfigEvent(files, list)
       PROVE  LruInv'
  BY <1>1, <1>11 DEF StartRequestAfterTsConfigEvent
<1> QED
  BY <1>2, <1>3, <1>4, <1>5, <1>6, <1>7, <1>8, <1>9, <1>10, <1>11 DEF Next, AnalyzeFile

\* storeProgram makes room before it adds, and a hit takes out what it appends: the
\* cache never holds more programs than its capacity, whatever that is.
THEOREM CacheBoundedCorrect == Spec => []CacheBounded
<1>1. LruInv => CacheBounded
  BY DEF LruInv, CacheBounded
<1> QED
  BY <1>1, LruInvInit, LruInvStep, PTL DEF Spec

-----------------------------------------------------------------------------
(* The types.                                                                *)

LEMMA ProgramsDef ==
    ASSUME NEW m
    PROVE  m \in Programs <=> /\ m = [f \in DOMAIN m |-> m[f]]
                              /\ DOMAIN m \subseteq Files
                              /\ \A f \in DOMAIN m : m[f] \in Contents
<1>1. ASSUME m \in Programs
      PROVE  /\ m = [f \in DOMAIN m |-> m[f]]
             /\ DOMAIN m \subseteq Files
             /\ \A f \in DOMAIN m : m[f] \in Contents
  BY <1>1 DEF Programs
<1>2. ASSUME m = [f \in DOMAIN m |-> m[f]], DOMAIN m \subseteq Files,
             \A f \in DOMAIN m : m[f] \in Contents
      PROVE  m \in Programs
  <2>1. m \in [DOMAIN m -> Contents]
    BY <1>2
  <2> QED
    BY <1>2, <2>1 DEF Programs
<1> QED
  BY <1>1, <1>2

LEMMA EmptyMapIsProgram == EmptyMap \in Programs /\ DOMAIN EmptyMap = {}
<1>1. EmptyMap \in [1..0 -> Contents] /\ DOMAIN EmptyMap = 1..0
  BY EmptySeq, LenProperties DEF EmptyMap
<1>2. 1..0 = {}
  OBVIOUS
<1> QED
  BY <1>1, <1>2 DEF Programs

LEMMA RequestIsProgram == \A files \in Requests : files \in Programs
BY DEF Requests, Programs

LEMMA ReadTypes ==
    ASSUME TypeOK, NEW f \in Files, NEW version \in [Files -> Nat]
    PROVE  /\ Content(f) \in Contents
           /\ SourceFile(version, f) \in Contents
           /\ NextVersion(version, f) \in Nat
<1>1. /\ f \in DOMAIN context => context[f] \in Contents
      /\ f \in DOMAIN contents => contents[f] \in Contents
      /\ disk[f] \in Contents
      /\ f \in DOMAIN parsed => parsed[f].content \in Contents
  BY ProgramsDef DEF TypeOK
<1>2. Content(f) \in Contents
  BY <1>1 DEF Content
<1> QED
  BY <1>1, <1>2 DEF SourceFile, NextVersion

\* What a build makes of sets of files and a host's versions.
LEMMA BuildTypes ==
    ASSUME TypeOK, NEW roots \in SUBSET Files, NEW version \in [Files -> Nat],
           NEW kept \in SUBSET Files
    PROVE  LET b == Build(roots, version, kept)
           IN  /\ b.ast \in Programs /\ b.roots = roots
               /\ b.read \subseteq Files /\ DOMAIN b.ast \subseteq b.read
               /\ b.version \in [Files -> Nat]
               /\ \A f \in DOMAIN b.ast : b.ast[f] = SourceFile(version, f)
<1> DEFINE ast == [f \in Files |-> SourceFile(version, f)]
           program == Closure(roots, ast)
           b == Build(roots, version, kept)
<1>1. program \subseteq Files
  BY DEF Closure
<1>2. /\ b.ast = [f \in program |-> ast[f]] /\ b.roots = roots
      /\ b.read = program \cup kept
      /\ b.version = [f \in Files |-> IF f \in b.read THEN NextVersion(version, f)
                                                      ELSE version[f]]
  BY DEF Build
<1>3. \A f \in Files : ast[f] = SourceFile(version, f) /\ ast[f] \in Contents
  BY ReadTypes
<1> HIDE DEF program, ast, b
<1>4. b.ast \in [program -> Contents]
  BY <1>1, <1>2, <1>3
<1>5. b.ast \in Programs
  BY <1>1, <1>4 DEF Programs
<1>6. b.version \in [Files -> Nat]
  BY <1>2, ReadTypes
<1> QED
  BY <1>1, <1>2, <1>3, <1>5, <1>6 DEF b

LEMMA CachesTypes ==
    ASSUME TypeOK, NEW b, NEW version \in [Files -> Nat], CachesAfter(b, version),
           b.read \subseteq Files, b.version \in [Files -> Nat]
    PROVE  /\ contents' \in Programs
           /\ DOMAIN parsed' \subseteq Files
           /\ \A f \in DOMAIN parsed' : parsed'[f] \in [hash : Nat, content : Contents]
<1>1. \A f \in b.read : Content(f) \in Contents /\ SourceFile(version, f) \in Contents
  BY ReadTypes
<1>2. contents' \in Programs
  <2>1. DOMAIN contents \subseteq Files /\ \A f \in DOMAIN contents : contents[f] \in Contents
    BY ProgramsDef DEF TypeOK
  <2>2. contents' \in [DOMAIN contents \cup b.read -> Contents]
    BY <1>1, <2>1 DEF CachesAfter
  <2> QED
    BY <2>1, <2>2 DEF Programs
<1>3. DOMAIN parsed' = DOMAIN parsed \cup b.read
  BY DEF CachesAfter
<1>4. ASSUME NEW f \in DOMAIN parsed' PROVE parsed'[f] \in [hash : Nat, content : Contents]
  <2>1. parsed'[f] = IF f \in b.read
                     THEN [hash |-> b.version[f], content |-> SourceFile(version, f)]
                     ELSE parsed[f]
    BY <1>3 DEF CachesAfter
  <2>2. CASE f \in b.read
    BY <1>1, <2>1, <2>2
  <2>3. CASE f \notin b.read
    BY <1>3, <2>1, <2>3 DEF TypeOK
  <2> QED
    BY <2>2, <2>3
<1> QED
  BY <1>2, <1>3, <1>4 DEF TypeOK

LEMMA RootNamesTypes ==
    ASSUME TypeOK, NEW f
    PROVE  RootNames(f) \in SUBSET Files
<1>1. tsconfigs \in Seq(SUBSET Files) /\ pending \subseteq Files
  BY TsConfigsAssumption, ProgramsDef DEF TypeOK
<1>2. DOMAIN tsconfigs = 1..Len(tsconfigs) /\ Len(tsconfigs) \in Nat
  BY <1>1, LenProperties
<1>3. CASE f \in Covered
  <2> DEFINE having == {i \in DOMAIN tsconfigs : f \in tsconfigs[i]}
  <2>1. having # {} /\ having \subseteq Nat
    BY <1>2, <1>3 DEF Covered
  <2>2. PICK i \in having : \A j \in having : i <= j
    BY <2>1, LeastOf
  <2>3. \A j \in 1..(i - 1) : f \notin tsconfigs[j]
    BY <1>2, <2>2
  <2>4. \E k \in DOMAIN tsconfigs : f \in tsconfigs[k] /\ \A j \in 1..(k - 1) : f \notin tsconfigs[j]
    BY <2>2, <2>3
  <2>5. PICK k \in DOMAIN tsconfigs : RootNames(f) = tsconfigs[k]
    BY <1>3, <2>4 DEF RootNames
  <2> QED
    BY <1>1, <1>2, <2>5, ElementOfSeq
<1>4. CASE f \notin Covered
  BY <1>1, <1>4 DEF RootNames
<1> QED
  BY <1>3, <1>4

\* analyzeFile keeps the types.
LEMMA ServeTypes ==
    ASSUME TypeOK, UNCHANGED maxSize, NEW f \in pending, NEW ast \in Programs, Serve(f, ast),
           contents' \in Programs, DOMAIN parsed' \subseteq Files,
           \A g \in DOMAIN parsed' : parsed'[g] \in [hash : Nat, content : Contents],
           lru' \in Seq(Entries)
    PROVE  TypeOK'
<1>1. /\ DOMAIN served' = DOMAIN served \cup {f}
      /\ \A g \in DOMAIN served' : served'[g] = IF g = f THEN ast ELSE served[g]
      /\ pending' = pending \ {f}
      /\ UNCHANGED <<disk, context, tsconfigs, orphans, requests>>
  BY DEF Serve
<1>2. \A g \in DOMAIN served' : served'[g] \in Programs
  BY <1>1 DEF TypeOK
<1>3. DOMAIN served' \subseteq DOMAIN context' \ pending'
  BY <1>1 DEF TypeOK
<1> QED
  BY <1>1, <1>2, <1>3 DEF TypeOK, Programs, Entries

LEMMA HitEntry ==
    ASSUME TypeOK, NEW f, Hits(f) # {}
    PROVE  FirstHit(f) \in 1..Len(lru) /\ lru[FirstHit(f)] \in Entries
<1>1. lru \in Seq(Entries)
  BY DEF TypeOK
<1>2. FirstHit(f) \in 1..Len(lru)
  <2>1. Hits(f) \subseteq 1..Len(lru) /\ Len(lru) \in Nat
    BY <1>1, LenProperties DEF Hits
  <2>2. \E i \in Hits(f) : \A j \in Hits(f) : i <= j
    BY <2>1, LeastOf
  <2> QED
    BY <2>1, <2>2 DEF FirstHit
<1> QED
  BY <1>1, <1>2, ElementOfSeq

\* What a hit leaves of the cache of programs.
LEMMA TouchTypes ==
    ASSUME TypeOK, NEW f, Hits(f) # {}, NEW e \in Entries
    PROVE  Append(Without(FirstHit(f)), e) \in Seq(Entries)
<1>1. lru \in Seq(Entries) /\ FirstHit(f) \in 1..Len(lru)
  BY HitEntry DEF TypeOK
<1>2. Append(Without(FirstHit(f)), e) \in Seq(Entries \cup {e})
  BY <1>1, TouchKeepsLength DEF Without
<1>3. Entries \cup {e} = Entries
  OBVIOUS
<1> QED
  BY <1>2, <1>3

LEMMA MakeRoomTypes ==
    ASSUME TypeOK, NEW e \in Entries
    PROVE  Append(MakeRoom, e) \in Seq(Entries)
<1>1. lru \in Seq(Entries) /\ Len(lru) \in Nat /\ maxSize \in Nat \ {0}
  BY LenProperties, BoundsAssumption DEF TypeOK
<1>2. MakeRoom \in Seq(Entries)
  <2>1. CASE Len(lru) >= maxSize
    <3>1. lru # << >>
      BY <1>1, <2>1, EmptySeq
    <3> QED
      BY <1>1, <2>1, <3>1, HeadTailProperties DEF MakeRoom
  <2>2. CASE ~(Len(lru) >= maxSize)
    BY <1>1, <2>2 DEF MakeRoom
  <2> QED
    BY <2>1, <2>2
<1> QED
  BY <1>2, AppendProperties

\* The entry of a program that was built again, as getEntries finds it.
LEMMA RebuiltTypes ==
    ASSUME TypeOK, NEW f \in pending, RecreateProgram(f)
    PROVE  LET old == lru[FirstHit(f)]
               kept == IF RootNames(f) = old.roots THEN DOMAIN old.ast ELSE {}
               new == Build(RootNames(f), old.version, kept)
               entry == [old EXCEPT !.ast = new.ast, !.roots = RootNames(f),
                                    !.version = new.version]
           IN  /\ old \in Entries /\ kept \in SUBSET Files /\ entry \in Entries
               /\ entry.ast = new.ast
<1> DEFINE old == lru[FirstHit(f)]
           kept == IF RootNames(f) = old.roots THEN DOMAIN old.ast ELSE {}
           new == Build(RootNames(f), old.version, kept)
           entry == [old EXCEPT !.ast = new.ast, !.roots = RootNames(f), !.version = new.version]
<1>1. old \in Entries
  BY HitEntry DEF RecreateProgram
<1> HIDE DEF old
<1>2. old.ast \in Programs /\ old.version \in [Files -> Nat] /\ kept \in SUBSET Files
  BY <1>1, ProgramsDef DEF Entries
<1> HIDE DEF kept
<1>3. RootNames(f) \in SUBSET Files
  BY RootNamesTypes
<1>4. new.ast \in Programs /\ new.version \in [Files -> Nat]
  BY <1>2, <1>3, BuildTypes
<1> HIDE DEF new
<1>5. entry \in Entries /\ entry.ast = new.ast
  BY <1>1, <1>3, <1>4 DEF Entries
<1> QED
  BY <1>1, <1>2, <1>5 DEF old, kept, new

LEMMA TypesInit == Init => TypeOK
<1> SUFFICES ASSUME Init PROVE TypeOK
  OBVIOUS
<1>1. lru \in Seq(Entries)
  BY EmptySeq DEF Init
<1>2. 0 \in 0..MaxRequests
  BY BoundsAssumption
<1> QED
  BY <1>1, <1>2, EmptyMapIsProgram DEF Init, TypeOK

LEMMA NewRequestTypes ==
    ASSUME TypeOK, UNCHANGED maxSize, NEW files \in Requests, NewRequest(files),
           pending' \subseteq DOMAIN files, tsconfigs' \in TsConfigLists,
           lru' \in Seq(Entries), contents' \in Programs, DOMAIN parsed' \subseteq Files,
           \A g \in DOMAIN parsed' : parsed'[g] \in [hash : Nat, content : Contents]
    PROVE  TypeOK'
<1>1. /\ requests' \in 0..MaxRequests /\ context' \in Programs /\ context' = files
      /\ orphans' \in OrphanSettings /\ served' = EmptyMap /\ disk' = disk
  BY RequestIsProgram, BoundsAssumption DEF NewRequest, TypeOK
<1>2. DOMAIN served' = {}
  BY <1>1, EmptyMapIsProgram
<1> QED
  BY <1>1, <1>2 DEF TypeOK, Programs, Entries

LEMMA TypesStep == TypeOK /\ [Next]_vars => TypeOK'
<1> SUFFICES ASSUME TypeOK, [Next]_vars PROVE TypeOK'
  OBVIOUS
<1> USE DEF Programs, Entries
<1>1. ASSUME NEW f \in Files, NEW c \in Contents, ChangeOnDisk(f, c), UNCHANGED maxSize
      PROVE  TypeOK'
  BY <1>1 DEF ChangeOnDisk, caches, TypeOK
<1>2. ASSUME NEW files \in Requests, StartRequest(files), UNCHANGED maxSize PROVE TypeOK'
  <2>1. NewRequest(files) /\ pending' = DOMAIN files /\ UNCHANGED <<contents, parsed, tsconfigs, lru>>
    BY <1>2 DEF StartRequest, caches
  <2> QED
    BY <1>2, <2>1, NewRequestTypes DEF TypeOK
<1>3. ASSUME NEW files \in Requests, NEW list \in TsConfigLists,
             StartRequestAfterTsConfigEvent(files, list), UNCHANGED maxSize
      PROVE  TypeOK'
  <2>1. /\ NewRequest(files) /\ pending' = DOMAIN files /\ UNCHANGED <<contents, parsed>>
        /\ tsconfigs' = list /\ lru' = << >>
    BY <1>3 DEF StartRequestAfterTsConfigEvent, caches
  <2>2. lru' \in Seq(Entries)
    BY <2>1, EmptySeq
  <2> QED
    BY <1>3, <2>1, <2>2, NewRequestTypes DEF TypeOK
<1>4. ASSUME NEW files \in Requests, NEW list \in TsConfigLists,
             NEW read \in SUBSET Files, NEW programs \in 1..2,
             ScannerAnalysis(files, read, programs, list), UNCHANGED maxSize
      PROVE  TypeOK'
  <2>1. /\ NewRequest(files) /\ pending' = {} /\ tsconfigs' = list /\ lru' = << >>
        /\ contents' = [f \in read |-> IF f \in DOMAIN files THEN files[f] ELSE disk[f]]
        /\ parsed' = [f \in read |->
             [hash |-> IF f \in DOMAIN files /\ programs = 1 THEN 1 ELSE 0,
              content |-> IF f \in DOMAIN files THEN files[f] ELSE disk[f]]]
    BY <1>4 DEF ScannerAnalysis
  <2>2. lru' \in Seq(Entries)
    BY <2>1, EmptySeq
  <2>3. \A f \in Files : (IF f \in DOMAIN files THEN files[f] ELSE disk[f]) \in Contents
    BY RequestIsProgram, ProgramsDef DEF TypeOK
  <2>4. contents' \in [read -> Contents]
    BY <2>1, <2>3
  <2>5. \A f \in DOMAIN parsed' : parsed'[f] \in [hash : Nat, content : Contents]
    BY <2>1, <2>3
  <2>6. DOMAIN parsed' \subseteq Files
    BY <2>1
  <2> QED
    BY <1>4, <2>1, <2>2, <2>4, <2>5, <2>6, NewRequestTypes
<1>5. ASSUME NEW f \in Files, ReuseProgram(f), UNCHANGED maxSize PROVE TypeOK'
  <2>1. lru[FirstHit(f)] \in Entries /\ Hits(f) # {} /\ f \in pending
    BY <1>5, HitEntry DEF ReuseProgram
  <2>2. lru' \in Seq(Entries)
    BY <1>5, <2>1, TouchTypes DEF ReuseProgram, MoveToEnd
  <2>3. Serve(f, lru[FirstHit(f)].ast) /\ UNCHANGED <<contents, parsed>>
    BY <1>5 DEF ReuseProgram, caches
  <2>4. lru[FirstHit(f)].ast \in Programs
    BY <2>1
  <2> QED
    BY <1>5, <2>1, <2>2, <2>3, <2>4, ServeTypes DEF TypeOK
<1>6. ASSUME NEW f \in Files, RecreateProgram(f), UNCHANGED maxSize PROVE TypeOK'
  <2> DEFINE old == lru[FirstHit(f)]
             kept == IF RootNames(f) = old.roots THEN DOMAIN old.ast ELSE {}
             new == Build(RootNames(f), old.version, kept)
             entry == [old EXCEPT !.ast = new.ast, !.roots = RootNames(f),
                                  !.version = new.version]
  <2>1. /\ f \in pending /\ Hits(f) # {} /\ lru' = Append(Without(FirstHit(f)), entry)
        /\ CachesAfter(new, old.version) /\ Serve(f, new.ast)
    BY <1>6 DEF RecreateProgram
  <2>2. old \in Entries /\ kept \in SUBSET Files /\ entry \in Entries
    BY <1>6, <2>1, RebuiltTypes
  <2> HIDE DEF old, entry, kept
  <2>3. old.version \in [Files -> Nat]
    BY <2>2
  <2>4. new.ast \in Programs /\ new.read \subseteq Files /\ new.version \in [Files -> Nat]
    BY <2>2, <2>3, RootNamesTypes, BuildTypes
  <2> HIDE DEF new
  <2>5. lru' \in Seq(Entries)
    BY <2>1, <2>2, TouchTypes
  <2>6. /\ contents' \in Programs
        /\ DOMAIN parsed' \subseteq Files
        /\ \A g \in DOMAIN parsed' : parsed'[g] \in [hash : Nat, content : Contents]
    BY <2>1, <2>3, <2>4, CachesTypes
  <2> QED
    BY <1>6, <2>1, <2>4, <2>5, <2>6, ServeTypes
<1>7. ASSUME NEW f \in Files, UpdateWithoutProgram(f), UNCHANGED maxSize PROVE TypeOK'
  <2> DEFINE old == lru[FirstHit(f)]
             entry == [old EXCEPT !.version[f] = @ + 1]
  <2>1. /\ f \in pending /\ Hits(f) # {} /\ lru' = Append(Without(FirstHit(f)), entry)
        /\ contents' = [g \in DOMAIN contents \cup {f} |->
                          IF g = f THEN context[f] ELSE contents[g]]
        /\ parsed' = [g \in DOMAIN parsed \ {f} |-> parsed[g]]
        /\ Serve(f, NoProgram) /\ Updated(f)
    BY <1>7 DEF UpdateWithoutProgram
  <2>2. old \in Entries
    BY <2>1, HitEntry
  <2> HIDE DEF old
  <2>3. entry \in Entries
    BY <2>2
  <2> HIDE DEF entry
  <2>4. lru' \in Seq(Entries)
    BY <2>1, <2>3, TouchTypes
  <2>5. contents' \in Programs
    <3>1. context[f] \in Contents
      BY <2>1, ProgramsDef DEF Updated, TypeOK
    <3>2. DOMAIN contents \subseteq Files /\ \A g \in DOMAIN contents : contents[g] \in Contents
      BY ProgramsDef DEF TypeOK
    <3>3. contents' \in [DOMAIN contents \cup {f} -> Contents]
      BY <2>1, <3>1, <3>2
    <3> QED
      BY <3>2, <3>3
  <2>6. /\ DOMAIN parsed' \subseteq Files
        /\ \A g \in DOMAIN parsed' : parsed'[g] \in [hash : Nat, content : Contents]
    BY <2>1 DEF TypeOK
  <2>7. NoProgram \in Programs
    BY EmptyMapIsProgram DEF NoProgram, EmptyMap
  <2> QED
    BY <1>7, <2>1, <2>4, <2>5, <2>6, <2>7, ServeTypes
<1>8. ASSUME NEW f \in Files, CreateProgram(f), UNCHANGED maxSize PROVE TypeOK'
  <2> DEFINE new == Build(RootNames(f), NewHost, {})
             entry == [files |-> DOMAIN new.ast, roots |-> new.roots,
                       ast |-> new.ast, version |-> new.version]
  <2>1. /\ f \in pending /\ lru' = Append(MakeRoom, entry)
        /\ CachesAfter(new, NewHost) /\ Serve(f, new.ast)
    BY <1>8 DEF CreateProgram
  <2>2. NewHost \in [Files -> Nat]
    BY DEF NewHost
  <2>3. /\ new.ast \in Programs /\ new.read \subseteq Files /\ new.version \in [Files -> Nat]
        /\ new.roots \in SUBSET Files /\ DOMAIN new.ast \subseteq Files
    <3>1. RootNames(f) \in SUBSET Files /\ {} \in SUBSET Files
      BY RootNamesTypes
    <3>2. /\ new.ast \in Programs /\ new.read \subseteq Files /\ new.version \in [Files -> Nat]
          /\ new.roots = RootNames(f) /\ DOMAIN new.ast \subseteq new.read
      BY <2>2, <3>1, BuildTypes
    <3> QED
      BY <3>1, <3>2
  <2> HIDE DEF new
  <2>4. entry \in Entries
    BY <2>3
  <2> HIDE DEF entry
  <2>5. lru' \in Seq(Entries)
    BY <2>1, <2>4, MakeRoomTypes
  <2>6. /\ contents' \in Programs
        /\ DOMAIN parsed' \subseteq Files
        /\ \A g \in DOMAIN parsed' : parsed'[g] \in [hash : Nat, content : Contents]
    BY <2>1, <2>2, <2>3, CachesTypes
  <2> QED
    BY <1>8, <2>1, <2>3, <2>5, <2>6, ServeTypes
<1>9. ASSUME NEW f \in Files, NoProgramFor(f), UNCHANGED maxSize PROVE TypeOK'
  <2>1. f \in pending /\ Serve(f, NoProgram) /\ UNCHANGED <<contents, parsed, lru>>
    BY <1>9 DEF NoProgramFor, caches
  <2>2. NoProgram \in Programs
    BY EmptyMapIsProgram DEF NoProgram, EmptyMap
  <2> QED
    BY <1>9, <2>1, <2>2, ServeTypes DEF TypeOK
<1>10. ASSUME CancelRequest, UNCHANGED maxSize PROVE TypeOK'
  BY <1>10 DEF CancelRequest, caches, TypeOK
<1>11. CASE UNCHANGED vars
  BY <1>11 DEF vars, TypeOK
<1> QED
  BY <1>1, <1>2, <1>3, <1>4, <1>5, <1>6, <1>7, <1>8, <1>9, <1>10, <1>11
     DEF Next, AnalyzeFile

\* The type of every cache, for any project, request and capacity.
THEOREM ProgramCacheTypeCorrect == Spec => []TypeOK
BY TypesInit, TypesStep, PTL DEF Spec

-----------------------------------------------------------------------------
(* What a build reads.                                                       *)

Cached == {lru[j] : j \in DOMAIN lru}

LEMMA LruOfCached == TypeOK => lru \in Seq(Cached)
<1> SUFFICES ASSUME TypeOK PROVE lru \in Seq(Cached)
  OBVIOUS
<1>1. /\ Len(lru) \in Nat /\ DOMAIN lru = 1..Len(lru)
      /\ lru \in [1..Len(lru) -> Entries]
  BY LenProperties DEF TypeOK
<1>2. \A j \in 1..Len(lru) : lru[j] \in Cached
  BY <1>1 DEF Cached
<1>3. lru \in [1..Len(lru) -> Cached]
  BY <1>1, <1>2
<1> QED
  BY <1>1, <1>3, SeqDef

\* A step that puts one entry at the end: all others were there before.
LEMMA OneNewEntry ==
    ASSUME TypeOK, NEW e,
           \/ lru' = Append(MakeRoom, e)
           \/ \E f : Hits(f) # {} /\ lru' = Append(Without(FirstHit(f)), e)
    PROVE  \A i \in DOMAIN lru' : lru'[i] = e \/ \E j \in DOMAIN lru : lru'[i] = lru[j]
<1>1. lru \in Seq(Cached)
  BY LruOfCached
<1>2. lru' \in Seq(Cached \cup {e})
  <2>1. CASE lru' = Append(MakeRoom, e)
    <3>2. MakeRoom \in Seq(Cached)
      <4>1. lru = << >> \/ Tail(lru) \in Seq(Cached)
        BY <1>1, HeadTailProperties
      <4>2. Len(lru) \in Nat /\ maxSize \in Nat \ {0} /\ (lru = << >> => Len(lru) = 0)
        BY <1>1, LenProperties, EmptySeq, BoundsAssumption DEF TypeOK
      <4> QED
        BY <1>1, <4>1, <4>2 DEF MakeRoom
    <3>3. MakeRoom \in Seq(Cached \cup {e})
      BY <3>2, SeqMonotonic
    <3> QED
      BY <2>1, <3>3, AppendProperties
  <2>2. ASSUME NEW f, Hits(f) # {}, lru' = Append(Without(FirstHit(f)), e)
        PROVE  lru' \in Seq(Cached \cup {e})
    <3>1. FirstHit(f) \in 1..Len(lru)
      BY <2>2, HitEntry
    <3> QED
      BY <1>1, <2>2, <3>1, TouchKeepsLength DEF Without
  <2> QED
    BY <2>1, <2>2
<1>3. DOMAIN lru' = 1..Len(lru')
  BY <1>2, LenProperties
<1>4. \A i \in DOMAIN lru' : lru'[i] \in Cached \cup {e}
  BY <1>2, <1>3, ElementOfSeq
<1> QED
  BY <1>4 DEF Cached

\* A program built now has the contents the caches hold after it, and those of the
\* request.
LEMMA BuildReadsTheRequest ==
    ASSUME TypeOK, ParsedIsCurrent, NEW roots \in SUBSET Files, NEW version \in [Files -> Nat],
           NEW kept \in SUBSET Files, CachesAfter(Build(roots, version, kept), version)
    PROVE  LET ast == Build(roots, version, kept).ast
           IN  \A f \in DOMAIN ast :
                 /\ ast[f] = contents'[f]
                 /\ f \in DOMAIN context => ast[f] = context[f]
<1> DEFINE b == Build(roots, version, kept)
<1>1. DOMAIN b.ast \subseteq b.read /\ \A f \in DOMAIN b.ast : b.ast[f] = SourceFile(version, f)
  BY BuildTypes
<1> HIDE DEF b
<1>2. ASSUME NEW f \in DOMAIN b.ast
      PROVE  /\ b.ast[f] = contents'[f]
             /\ f \in DOMAIN context => b.ast[f] = context[f]
  <2>1. b.ast[f] = Content(f)
    BY <1>1, SourceFileIsContent
  <2>2. contents'[f] = Content(f)
    BY <1>1 DEF CachesAfter, b
  <2> QED
    BY <2>1, <2>2 DEF Content
<1> QED
  BY <1>2 DEF b

\* Every program a step builds has the contents of the request and of the cache after
\* it, whatever hosts and requests came before: the parses it takes from the cache are
\* never of another content.
THEOREM BuildsReadTheRequestCorrect == Spec => BuildsReadTheRequest
<1> DEFINE Right(ast) == \A f \in DOMAIN ast :
                           /\ ast[f] = contents'[f]
                           /\ f \in DOMAIN context => ast[f] = context[f]
           NewAreRight == \A i \in DOMAIN lru' :
                            (\A j \in DOMAIN lru : lru[j].ast # lru'[i].ast) => Right(lru'[i].ast)
<1>1. TypeOK /\ ParsedIsCurrent /\ [Next]_vars => NewAreRight
  <2> SUFFICES ASSUME TypeOK, ParsedIsCurrent, [Next]_vars,
                      NEW i \in DOMAIN lru', \A j \in DOMAIN lru : lru[j].ast # lru'[i].ast
               PROVE  Right(lru'[i].ast)
    OBVIOUS
  <2> HIDE DEF Right
  <2>0. lru' # lru /\ lru' # << >>
    <3>1. DOMAIN << >> = {}
      BY EmptyMapIsProgram DEF EmptyMap
    <3> QED
      BY <3>1
  <2>1. ASSUME NEW f \in Files, ReuseProgram(f) PROVE FALSE
    <3>1. /\ Hits(f) # {} /\ lru' = Append(Without(FirstHit(f)), lru[FirstHit(f)])
      BY <2>1 DEF ReuseProgram, MoveToEnd
    <3>2. FirstHit(f) \in DOMAIN lru
      BY <3>1, HitEntry, LenProperties DEF TypeOK
    <3> QED
      BY <3>1, <3>2, OneNewEntry
  <2>2. ASSUME NEW f \in Files, UpdateWithoutProgram(f) PROVE FALSE
    <3> DEFINE old == lru[FirstHit(f)]
               entry == [old EXCEPT !.version[f] = @ + 1]
    <3>1. Hits(f) # {} /\ lru' = Append(Without(FirstHit(f)), entry)
      BY <2>2 DEF UpdateWithoutProgram
    <3>2. FirstHit(f) \in DOMAIN lru /\ old \in Entries
      BY <3>1, HitEntry, LenProperties DEF TypeOK
    <3>3. entry.ast = old.ast
      BY <3>2 DEF Entries
    <3> HIDE DEF entry
    <3> QED
      BY <3>1, <3>2, <3>3, OneNewEntry
  <2>3. ASSUME NEW f \in Files, RecreateProgram(f) PROVE Right(lru'[i].ast)
    <3> DEFINE old == lru[FirstHit(f)]
               kept == IF RootNames(f) = old.roots THEN DOMAIN old.ast ELSE {}
               new == Build(RootNames(f), old.version, kept)
               entry == [old EXCEPT !.ast = new.ast, !.roots = RootNames(f),
                                    !.version = new.version]
    <3>1. /\ f \in pending /\ Hits(f) # {} /\ lru' = Append(Without(FirstHit(f)), entry)
          /\ CachesAfter(new, old.version)
      BY <2>3 DEF RecreateProgram
    <3>2. old \in Entries /\ kept \in SUBSET Files /\ entry.ast = new.ast
      BY <2>3, <3>1, RebuiltTypes
    <3> HIDE DEF entry, old, kept
    <3>3. old.version \in [Files -> Nat] /\ RootNames(f) \in SUBSET Files
      BY <3>2, RootNamesTypes DEF Entries
    <3>4. Right(new.ast)
      BY <3>1, <3>2, <3>3, BuildReadsTheRequest DEF Right
    <3> HIDE DEF new
    <3>5. lru'[i] = entry
      BY <3>1, OneNewEntry
    <3> QED
      BY <3>2, <3>4, <3>5
  <2>4. ASSUME NEW f \in Files, CreateProgram(f) PROVE Right(lru'[i].ast)
    <3> DEFINE new == Build(RootNames(f), NewHost, {})
               entry == [files |-> DOMAIN new.ast, roots |-> new.roots,
                         ast |-> new.ast, version |-> new.version]
    <3>1. lru' = Append(MakeRoom, entry) /\ CachesAfter(new, NewHost)
      BY <2>4 DEF CreateProgram
    <3>2. NewHost \in [Files -> Nat] /\ RootNames(f) \in SUBSET Files /\ {} \in SUBSET Files
      BY RootNamesTypes DEF NewHost
    <3>3. Right(new.ast)
      BY <3>1, <3>2, BuildReadsTheRequest DEF Right
    <3>4. entry.ast = new.ast
      OBVIOUS
    <3> HIDE DEF new, entry
    <3>5. lru'[i] = entry
      BY <3>1, OneNewEntry
    <3> QED
      BY <3>3, <3>4, <3>5
  <2>5. ASSUME NEW f \in Files, NoProgramFor(f) PROVE FALSE
    BY <2>0, <2>5 DEF NoProgramFor
  <2>6. ASSUME NEW files \in Requests, NEW list \in TsConfigLists, NEW read \in SUBSET Files,
               NEW programs \in 1..2,
               ScannerAnalysis(files, read, programs, list)
        PROVE  FALSE
    BY <2>0, <2>6 DEF ScannerAnalysis
  <2>7. ASSUME CancelRequest \/ UNCHANGED vars \/ \E f \in Files, c \in Contents : ChangeOnDisk(f, c)
        PROVE  FALSE
    BY <2>0, <2>7 DEF CancelRequest, ChangeOnDisk, vars
  <2>8. ASSUME NEW files \in Requests, StartRequest(files) PROVE FALSE
    BY <2>0, <2>8 DEF StartRequest
  <2>9. ASSUME NEW files \in Requests, NEW list \in TsConfigLists,
               StartRequestAfterTsConfigEvent(files, list)
        PROVE  FALSE
    BY <2>0, <2>9 DEF StartRequestAfterTsConfigEvent
  <2> QED
    BY <2>1, <2>2, <2>3, <2>4, <2>5, <2>6, <2>7, <2>8, <2>9 DEF Next, AnalyzeFile
<1>2. TypeOK /\ ParsedIsCurrent /\ [Next]_vars => [NewAreRight]_vars
  BY <1>1
<1>3. Spec => [][NewAreRight]_vars
  BY <1>2, ProgramCacheTypeCorrect, ParsedIsCurrentCorrect, PTL DEF Spec
<1> QED
  BY <1>3 DEF BuildsReadTheRequest
=============================================================================
