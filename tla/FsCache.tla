------------------------------ MODULE FsCache ------------------------------
(* The filesystem cache of the analysis worker: one archive session per    *)
(* analysis records what the analysis reads below its root, or, when the   *)
(* archive already exists, answers from it and never from the disk         *)
(* (packages/shared/src/fs-cache).                                         *)
(*                                                                         *)
(* Several worker processes may record the same archive.  A flush takes the*)
(* lock file of the archive, loads what is there, renames the merge into   *)
(* place and removes the lock file; it may fail or die anywhere, and a lock*)
(* file that has become ten seconds old is removed by who waits for it,    *)
(* whether or not its maker lives.  The tree does not change while a       *)
(* session is active; between sessions any other checkout may take its     *)
(* place.                                                                  *)
EXTENDS FiniteSets

CONSTANTS
    Workers,    \* the worker processes
    Paths,      \* paths below the root, by their key in the archive
    Kinds,      \* what a path may be, see AllKinds
    Versions,   \* tell two trees' contents apart
    Ops,        \* the operations analyses call, see AllOps
    None        \* undefined

\* "link" is a symbolic link to a file, "dangling" one to nothing, "loop" one to
\* itself, "locked" a file that can be seen but not opened, "stale" one whose open
\* descriptor fstat may fail on, "unreachable" any path in a directory that may not
\* be searched, "belowFile" a path that goes through a regular file.
AllKinds == {"file", "dir", "link", "locked", "stale",
             "missing", "dangling", "loop", "unreachable", "belowFile"}

\* The read-side calls, one per slot they read and per way they fail: stat and
\* lstat with throwIfNoEntry (soft) or bigint, readdir with or without types.
AllOps == {"exists", "readFile", "stat", "statSoft", "statBigint", "lstat", "lstatSoft",
           "readdir", "readdirTypes", "opendir", "access", "realpath", "readlink", "open"}

ASSUME InputsAssumption == Kinds \subseteq AllKinds /\ Ops \subseteq AllOps
ASSUME VersionsAssumption == "undefined" \notin Versions

VARIABLES
    tree,       \* what each path of the current checkout is
    disk,       \* the archive file, None when there is none
    recorded,   \* the tree the archive file was recorded from
    session,    \* activeArchive of each worker
    pending,    \* the asynchronous read a worker awaits
    flush,      \* how far the flush of a worker has come, and what it has loaded
    lock,       \* who made the lock file, None when there is none
    broken      \* auxiliary: somebody flushes whose lock file another removed, or
                \* did while such a one flushed

vars == <<tree, disk, recorded, session, pending, flush, lock, broken>>

-----------------------------------------------------------------------------
(* The native filesystem                                                   *)

Ok(value) == [ok |-> TRUE, value |-> value, link |-> FALSE]
OfLink(value) == [ok |-> TRUE, value |-> value, link |-> TRUE]
Err(code) == [ok |-> FALSE, value |-> code, link |-> FALSE]

\* What a call returns or throws, and whether it is about a link or its target.
Outcomes ==
    [ok : BOOLEAN,
     value : Versions \cup {"absent", "present", "undefined", "null",
                            "ENOENT", "EINVAL", "EACCES", "EISDIR", "ENOTDIR", "ELOOP",
                            "ERR_SONARJS_FS_CACHE_MISS", "ERR_SONARJS_FS_CACHE_ARCHIVE"},
     link : BOOLEAN]

Trees == [Paths -> [kind : Kinds, version : Versions]]

SoftOps == {"statSoft", "lstatSoft"}
LinkOps == {"lstat", "lstatSoft", "readlink"}
ListOps == {"readdir", "readdirTypes", "opendir"}

MissingAnswer(op) ==
    CASE op = "exists" -> Ok("absent")
      [] op \in SoftOps -> Ok("undefined")
      [] OTHER -> Err("ENOENT")

Links == {"link", "dangling", "loop"}
Blocked == [loop |-> "ELOOP", unreachable |-> "EACCES", belowFile |-> "ENOTDIR"]

Sees(entry, op) ==
    /\ entry.kind \notin {"missing", "unreachable", "belowFile"}
    /\ entry.kind \in {"dangling", "loop"} => op \in LinkOps

\* existsSync turns every error into false; a soft stat returns undefined for ENOENT
\* and, since Node 24, for ENOTDIR.
Unseen(entry, op) ==
    IF \/ entry.kind \notin DOMAIN Blocked
       \/ op = "exists"
       \/ entry.kind = "belowFile" /\ op \in SoftOps
    THEN MissingAnswer(op)
    ELSE Err(Blocked[entry.kind])

Native(entry, op) ==
    CASE ~Sees(entry, op) -> Unseen(entry, op)
      [] Sees(entry, op) /\ op = "exists" -> Ok("present")
      [] Sees(entry, op) /\ op = "readlink" /\ entry.kind \notin Links -> Err("EINVAL")
      [] Sees(entry, op) /\ op \in {"readFile", "open"} /\ entry.kind = "locked" -> Err("EACCES")
      [] Sees(entry, op) /\ op = "readFile" /\ entry.kind = "dir" -> Err("EISDIR")
      [] Sees(entry, op) /\ op \in ListOps /\ entry.kind # "dir" -> Err("ENOTDIR")
      [] Sees(entry, op) /\ op = "open" /\ entry.kind # "locked" -> Ok("null")
      [] Sees(entry, op) /\ op \in LinkOps /\ entry.kind \in Links -> OfLink(entry.version)
      [] OTHER -> Ok(entry.version)

-----------------------------------------------------------------------------
(* The nodes of an archive: what is known of one path                      *)

Slots == {"content", "stat:number", "stat:bigint", "lstat:number", "names", "entries",
          "access", "realpath", "readlink", "open"}

\* operationSlot knows no 'exists': asking for its slot throws.
SlotOf(op) ==
    CASE op = "readFile" -> "content"
      [] op \in {"stat", "statSoft"} -> "stat:number"
      [] op = "statBigint" -> "stat:bigint"
      [] op \in {"lstat", "lstatSoft"} -> "lstat:number"
      [] op = "readdir" -> "names"
      [] op \in {"readdirTypes", "opendir"} -> "entries"
      [] OTHER -> op

Nodes == [exists : BOOLEAN \cup {None}, linkExists : BOOLEAN \cup {None},
          slots : [Slots -> Outcomes \cup {None}]]

\* Undefined is no flag, no outcome, no node and no worker.
ASSUME NoneAssumption ==
    None \notin BOOLEAN /\ None \notin Outcomes /\ None \notin Nodes /\ None \notin Workers

EmptyNode == [exists |-> None, linkExists |-> None, slots |-> [s \in Slots |-> None]]
OnlyMissing == [EmptyNode EXCEPT !.exists = FALSE]

EmptyArchive == [nodes |-> [p \in Paths |-> None], missing |-> {}]

IsMissingOutcome(op, outcome) ==
    outcome = Err("ENOENT") \/ (op \in SoftOps /\ outcome = Ok("undefined"))

\* Mutant: what an operation learns of the link is taken for its target.
LinkAsTarget(node, op, outcome) ==
    CASE op = "exists" ->
            [node EXCEPT !.exists = (outcome.value = "present"),
                         !.linkExists = IF outcome.value = "present" THEN TRUE ELSE @]
      [] IsMissingOutcome(op, outcome) ->
            [node EXCEPT !.exists = FALSE, !.linkExists = IF op \in LinkOps THEN FALSE ELSE @]
      [] ~IsMissingOutcome(op, outcome) /\ op # "exists" /\ outcome.ok ->
            [node EXCEPT !.linkExists = TRUE, !.exists = TRUE]
      [] OTHER -> node

UpdateExistence(node, op, outcome) ==
    CASE op = "exists" ->
            [node EXCEPT !.exists = (outcome.value = "present"),
                         !.linkExists = IF outcome.value = "present" THEN TRUE ELSE @]
      [] op # "exists" /\ IsMissingOutcome(op, outcome) ->
            [node EXCEPT !.exists = FALSE, !.linkExists = IF op \in LinkOps THEN FALSE ELSE @]
      [] op # "exists" /\ ~IsMissingOutcome(op, outcome) /\ outcome.ok ->
            [node EXCEPT !.linkExists = TRUE, !.exists = IF op \in LinkOps THEN @ ELSE TRUE]
      [] OTHER -> node

WriteSlot(node, op, outcome) ==
    IF op = "exists" \/ IsMissingOutcome(op, outcome)
    THEN node
    ELSE [node EXCEPT !.slots[SlotOf(op)] = outcome]

-----------------------------------------------------------------------------
(* FsCacheArchive                                                          *)

Set(archive, p, op, outcome) ==
    LET node == CASE archive.nodes[p] # None -> archive.nodes[p]
                  [] archive.nodes[p] = None /\ p \in archive.missing -> OnlyMissing
                  [] OTHER -> EmptyNode
    IN  [nodes   |-> [archive.nodes EXCEPT ![p] =
                         WriteSlot(UpdateExistence(node, op, outcome), op, outcome)],
         missing |-> archive.missing \ {p}]

\* Answers that are no answers: no observation, and the error operationSlot throws.
Miss == Err("ERR_SONARJS_FS_CACHE_MISS")
Refused == Err("ERR_SONARJS_FS_CACHE_ARCHIVE")

IsOk(outcome) == outcome # None /\ outcome.ok

GetFromNode(node, op) ==
    LET slots == node.slots
        derived == CASE op = "open" /\ (\A s \in {"content", "stat:number", "stat:bigint"} :
                                           IsOk(slots[s])) -> Ok("null")
                     [] op = "readdir" -> slots["entries"]
                     [] OTHER -> None
    IN  CASE op = "exists" -> CASE node.exists = None -> Refused
                                   [] node.exists = TRUE -> Ok("present")
                                   [] OTHER -> Ok("absent")
          [] op # "exists" /\ slots[SlotOf(op)] # None -> slots[SlotOf(op)]
          [] OTHER -> derived

Get(archive, p, op) ==
    IF archive.nodes[p] = None THEN None ELSE GetFromNode(archive.nodes[p], op)

KnownMissing(archive, p, op) ==
    IF archive.nodes[p] = None
    THEN p \in archive.missing
    ELSE (IF op \in LinkOps THEN archive.nodes[p].linkExists
                            ELSE archive.nodes[p].exists) = FALSE

\* replay of the executor, and replayOpen, which needs the content too.
Lookup(archive, p, op) ==
    CASE Get(archive, p, op) = None ->
            IF KnownMissing(archive, p, op) THEN MissingAnswer(op) ELSE Miss
      [] op = "open" /\ IsOk(Get(archive, p, op)) /\ Get(archive, p, "readFile") = None -> Miss
      [] OTHER -> Get(archive, p, op)

-----------------------------------------------------------------------------
(* Writing the archive                                                     *)

MergeNodes(base, update) ==
    [exists     |-> IF update.exists = None THEN base.exists ELSE update.exists,
     linkExists |-> IF update.linkExists = None THEN base.linkExists ELSE update.linkExists,
     slots      |-> [s \in Slots |-> IF update.slots[s] = None THEN base.slots[s]
                                                              ELSE update.slots[s]]]

\* serializeProtobufDocument: a path of which only its absence is known becomes
\* a member of missingPaths.
Compact(archive) ==
    LET absent == {p \in Paths : archive.nodes[p] = OnlyMissing}
    IN  [nodes   |-> [p \in Paths |-> IF p \in absent THEN None ELSE archive.nodes[p]],
         missing |-> archive.missing \cup absent]

\* Mutant: the archive another worker wrote in the meantime is overwritten.
WrittenOver(base, own) == Compact(own)

\* A recording session has no missing paths of its own, only nodes.
Merged(base, own) ==
    Compact([nodes |-> [p \in Paths |->
                CASE own.nodes[p] = None -> base.nodes[p]
                  [] own.nodes[p] # None /\ base.nodes[p] = None -> own.nodes[p]
                  [] OTHER -> MergeNodes(base.nodes[p], own.nodes[p])],
             missing |-> {p \in base.missing : own.nodes[p] = None}])

-----------------------------------------------------------------------------
(* Sessions                                                                *)

NoSession == [mode |-> "none", archive |-> EmptyArchive]
NoFlush == [at |-> "none", base |-> EmptyArchive]
Waiting == [at |-> "opening", base |-> EmptyArchive]
Leaving == [at |-> "leaving", base |-> EmptyArchive]

Init ==
    /\ tree \in Trees
    /\ disk = None
    /\ recorded = None
    /\ session = [w \in Workers |-> NoSession]
    /\ pending = [w \in Workers |-> None]
    /\ flush = [w \in Workers |-> NoFlush]
    /\ lock = None
    /\ broken = FALSE

fileVars == <<disk, recorded, flush, lock, broken>>

\* The flush is synchronous: a worker that flushes reads no more.
Recording(w) == session[w].mode = "record" /\ flush[w].at = "none"

\* beginAnalysis: the existence of the archive decides the mode.
BeginAnalysis(w) ==
    /\ session[w].mode = "none"
    /\ session' = [session EXCEPT ![w] =
                      IF disk = None THEN [mode |-> "record", archive |-> EmptyArchive]
                                     ELSE [mode |-> "replay", archive |-> disk]]
    /\ UNCHANGED <<tree, pending, fileVars>>

\* runSync.  Only a miss of a recording session changes anything; a replaying
\* session answers with Lookup or throws, a dormant one calls the native fs.
Call(w, p, op) ==
    /\ op # "open"
    /\ Recording(w)
    /\ Lookup(session[w].archive, p, op) = Miss
    /\ session' = [session EXCEPT ![w].archive = Set(@, p, op, Native(tree[p], op))]
    /\ UNCHANGED <<tree, pending, fileVars>>

AsyncOps == {"readFile", "opendir"}

\* runAsync up to its await.  The analysis awaits what it reads before it reads
\* on: find-files.ts walks the directories one by one, files.ts reads a file.
AsyncCall(w, p, op) ==
    /\ op \in AsyncOps
    /\ Recording(w)
    /\ pending[w] = None
    /\ Lookup(session[w].archive, p, op) = Miss
    /\ pending' = [pending EXCEPT ![w] = [path |-> p, op |-> op,
                                         outcome |-> Native(tree[p], op)]]
    /\ UNCHANGED <<tree, session, fileVars>>

\* runAsync after its await: mode and archive are those of the session now active.
\* A directory that opened is read again for its entries, which may fail.
AsyncResult(w) ==
    /\ pending[w] # None
    /\ \/ /\ Recording(w)
          /\ session' = [session EXCEPT ![w].archive =
                            Set(@, pending[w].path, pending[w].op, pending[w].outcome)]
       \/ /\ Recording(w) => pending[w].op = "opendir" /\ pending[w].outcome.ok
          /\ UNCHANGED session
    /\ pending' = [pending EXCEPT ![w] = None]
    /\ UNCHANGED <<tree, fileVars>>

\* captureOpenedFile sets what no earlier call has set.
SetUnlessKnown(archive, p, op, outcome) ==
    IF Get(archive, p, op) = None THEN Set(archive, p, op, outcome) ELSE archive

\* Mutant: opening a file captures its content and one of its stats.
CaptureOneStat(archive, p, fstats) ==
    LET withContent == SetUnlessKnown(archive, p, "readFile", Native(tree[p], "readFile"))
    IN  SetUnlessKnown(withContent, p, "stat", Native(tree[p], "stat"))

\* The fstat that fails ends the capture, and the open succeeds all the same.
CaptureOpenedFile(archive, p, fstats) ==
    LET withContent == SetUnlessKnown(archive, p, "readFile", Native(tree[p], "readFile"))
        withStat    == IF "stat" \in fstats
                       THEN SetUnlessKnown(withContent, p, "stat", Native(tree[p], "stat"))
                       ELSE withContent
    IN  IF "statBigint" \in fstats
        THEN SetUnlessKnown(withStat, p, "statBigint", Native(tree[p], "statBigint"))
        ELSE withStat

\* The calls of fstatSync, in this order, that do not fail.
Fstats(entry) ==
    {{"stat", "statBigint"}} \cup (IF entry.kind = "stale" THEN {{}, {"stat"}} ELSE {})

\* openSync.
Open(w, p) ==
    /\ "open" \in Ops
    /\ Recording(w)
    /\ Lookup(session[w].archive, p, "open") = Miss
    /\ LET outcome == Native(tree[p], "open")
           opened  == Set(session[w].archive, p, "open", outcome)
       IN  \E fstats \in Fstats(tree[p]) :
             session' = [session EXCEPT ![w].archive =
                            IF outcome.ok THEN CaptureOpenedFile(opened, p, fstats) ELSE opened]
    /\ UNCHANGED <<tree, pending, fileVars>>

-----------------------------------------------------------------------------
(* The flush                                                               *)

\* Mutant: a replaying session writes its archive back, under the tree it sees.
EndWritesReplays(w) ==
    /\ session[w].mode # "none"
    /\ flush[w].at = "none"
    /\ flush' = [flush EXCEPT ![w] = Waiting]
    /\ pending' = [pending EXCEPT ![w] = None]
    /\ UNCHANGED <<tree, session, disk, recorded, lock, broken>>

\* end, in the finally of the request handler when withAnalysisCancellation has
\* awaited the analysis, or the exit listener, which a pending read may see.  There is
\* nothing to write when the session replays or has recorded nothing.
End(w) ==
    /\ session[w].mode # "none"
    /\ flush[w].at = "none"
    /\ IF session[w].mode = "record" /\ session[w].archive # EmptyArchive
       THEN flush' = [flush EXCEPT ![w] = Waiting] /\ UNCHANGED session
       ELSE session' = [session EXCEPT ![w] = NoSession] /\ UNCHANGED flush
    /\ pending' = [pending EXCEPT ![w] = None]
    /\ UNCHANGED <<tree, disk, recorded, lock, broken>>

Inside(w) == flush[w].at \in {"locked", "loaded", "leaving"}

\* Mutant: the lock file is opened without 'x'.
OpenAnyLock(w) ==
    /\ flush[w].at = "opening"
    /\ lock' = w
    /\ flush' = [flush EXCEPT ![w].at = "locked"]
    /\ UNCHANGED <<tree, disk, recorded, session, pending, broken>>

\* acquireLock: openSync with 'wx'.
OpenLock(w) ==
    /\ flush[w].at = "opening"
    /\ lock = None
    /\ lock' = w
    /\ flush' = [flush EXCEPT ![w].at = "locked"]
    /\ UNCHANGED <<tree, disk, recorded, session, pending, broken>>

\* removeStaleLock, up to its unlink: any lock may be ten seconds old, of a dead
\* worker or of a slow one.
JudgeLock(w) ==
    /\ flush[w].at = "opening"
    /\ lock # None
    /\ flush' = [flush EXCEPT ![w].at = "breaking"]
    /\ UNCHANGED <<tree, disk, recorded, session, pending, lock, broken>>

\* A lock file is removed by w, whoever made it.
RemoveLock(w) ==
    /\ lock' = None
    /\ broken' = \E v \in Workers \ {w} : Inside(v) /\ (broken \/ lock = v)

\* unlinkSync, of the lock file that is there now; no file is as good.
BreakLock(w) ==
    /\ flush[w].at = "breaking"
    /\ flush' = [flush EXCEPT ![w].at = "opening"]
    /\ RemoveLock(w)
    /\ UNCHANGED <<tree, disk, recorded, session, pending>>

Load(w) ==
    /\ flush[w].at = "locked"
    /\ flush' = [flush EXCEPT ![w] = [at |-> "loaded",
                                      base |-> IF disk = None THEN EmptyArchive ELSE disk]]
    /\ UNCHANGED <<tree, disk, recorded, session, pending, lock, broken>>

\* The merge is written to a file of its own and renamed.
Rename(w) ==
    /\ flush[w].at = "loaded"
    /\ disk' = Merged(flush[w].base, session[w].archive)
    /\ recorded' = tree
    /\ flush' = [flush EXCEPT ![w] = Leaving]
    /\ UNCHANGED <<tree, session, pending, lock, broken>>

\* Loading, writing or renaming throws.
FlushFails(w) ==
    /\ flush[w].at \in {"locked", "loaded"}
    /\ flush' = [flush EXCEPT ![w] = Leaving]
    /\ UNCHANGED <<tree, disk, recorded, session, pending, lock, broken>>

\* The finally removes the lock file that is there, and the session is over.
Unlock(w) ==
    /\ flush[w].at = "leaving"
    /\ RemoveLock(w)
    /\ flush' = [flush EXCEPT ![w] = NoFlush]
    /\ session' = [session EXCEPT ![w] = NoSession]
    /\ UNCHANGED <<tree, disk, recorded, pending>>

\* The worker is killed anywhere, and leaves its lock file, or its wait for the lock
\* times out, which is only reported.
EndUnwritten(w) ==
    /\ session[w].mode # "none"
    /\ session' = [session EXCEPT ![w] = NoSession]
    /\ pending' = [pending EXCEPT ![w] = None]
    /\ flush' = [flush EXCEPT ![w] = NoFlush]
    /\ broken' = (broken /\ \E v \in Workers \ {w} : Inside(v))
    /\ UNCHANGED <<tree, disk, recorded, lock>>

-----------------------------------------------------------------------------
(* The system                                                              *)

\* The environment between analyses: another checkout, an archive deleted.
Checkout ==
    /\ \A w \in Workers : session[w].mode = "none"
    /\ tree' \in Trees
    /\ UNCHANGED <<session, pending, fileVars>>

DeleteArchive ==
    /\ \A w \in Workers : session[w].mode = "none"
    /\ disk # None
    /\ disk' = None
    /\ recorded' = None
    /\ UNCHANGED <<tree, session, pending, flush, lock, broken>>

Analyses(w) ==
    \/ BeginAnalysis(w) \/ AsyncResult(w) \/ End(w) \/ EndUnwritten(w)
    \/ \E p \in Paths : Open(w, p) \/ \E op \in Ops : Call(w, p, op) \/ AsyncCall(w, p, op)

Flushes(w) ==
    \/ OpenLock(w) \/ JudgeLock(w) \/ BreakLock(w) \/ Load(w) \/ Rename(w)
    \/ FlushFails(w) \/ Unlock(w)

Next ==
    \/ \E w \in Workers : Analyses(w) \/ Flushes(w)
    \/ Checkout
    \/ DeleteArchive

Spec == Init /\ [][Next]_vars

-----------------------------------------------------------------------------
(* Properties                                                              *)

\* What the cache may answer for a path that is entry: what the native filesystem says.
\* Where there is nothing an operation can reach, the cache may also say that the path
\* is missing, whatever the native reason: a path below a file, in a directory that may
\* not be searched or in a loop of links does not exist for existsSync, and is then
\* ENOENT for every other operation.  A soft stat may throw below a file, as the hard
\* one does whose slot it shares.
Allowed(entry, op) ==
    {Native(entry, op)}
    \cup (IF Sees(entry, op) THEN {} ELSE {MissingAnswer(op)})
    \cup (IF entry.kind = "belowFile" /\ op \in SoftOps THEN {Err("ENOTDIR")} ELSE {})

Faithful(archive, p, entry) ==
    \A op \in Ops : Lookup(archive, p, op) \in {Miss, Refused} \cup Allowed(entry, op)

\* A recording session answers from what it consolidated of other operations only what
\* the native filesystem would say: one slot serves stat and fstat, hard and soft calls,
\* readdir and opendir, and one observation of absence serves all operations
\* (archive.get, missingPath).  It never says of anything an operation sees that it is
\* missing, and never the reverse; only why something cannot be reached may get lost.
RecordedAnswersAreNative ==
    \A w \in Workers, p \in Paths :
        Recording(w) => Faithful(session[w].archive, p, tree[p])

\* Whatever checkout is on the disk now and whoever recorded it with how many
\* flushes, an archive answers as the tree it was recorded from, also when flushes
\* overlapped.  The list of missing paths answers for links too, although it may stand
\* for a link whose target alone is missing.
ReplayAnswersTheRecordedTree ==
    disk # None =>
        \A p \in Paths :
            \/ Faithful(disk, p, recorded[p])
            \/ p \in disk.missing /\ recorded[p].kind \in {"dangling", "loop"}

\* A descriptor that a replay hands out can be read and examined: where the
\* archive says a file opens, it knows its content, and both its stats unless fstat
\* failed when it was recorded (captureOpenedFile fills what readVirtual and fstatSync
\* answer from).
OpenedFileCanBeRead ==
    disk # None =>
        \A p \in Paths : Lookup(disk, p, "open").ok =>
            /\ Lookup(disk, p, "readFile") = Native(recorded[p], "readFile")
            /\ recorded[p].kind # "stale" =>
                 \A op \in {"stat", "statBigint"} : Lookup(disk, p, op) = Native(recorded[p], op)

\* What one archive answers, the other answers alike.
Answers(one, other, p) ==
    \A op \in Ops : Lookup(one, p, op) \notin {Miss, Refused} =>
                       Lookup(other, p, op) = Lookup(one, p, op)

\* What exists, or is nothing at all.
Plain(entry) == Sees(entry, "stat") \/ entry.kind = "missing"

\* A flush forgets nothing: its rename leaves a file that answers all its session could
\* answer, however many workers flush and whatever becomes of their lock files.  What
\* the file answered before the rename, from other workers, it still answers, unless a
\* lock file was removed under its living maker.  Paths that are neither there nor
\* missing are the exception: the merge replaces their entry in the list of missing
\* paths by a node that does not say that they are absent.
FlushKeepsAnswers ==
    [][\A w \in Workers, p \in Paths :
         Rename(w) /\ Plain(tree[p]) =>
             /\ Answers(session[w].archive, disk', p)
             /\ disk # None /\ ~broken => Answers(disk, disk', p)]_vars

=============================================================================
