# A verification project for SonarJS

SonarJS analyses JavaScript, TypeScript, CSS, HTML and YAML for SonarQube and
SonarQube for IDE. A Java plugin starts a Node.js process, keeps it alive with a
gRPC *lease* and sends it *analyze-project* requests; Node.js runs them one at a
time on a worker thread and streams a result per file. The rules are functions of
one file. What is hard is around them: the queue in front of the worker, the
cancellation of an analysis by three parties, the life of the process on both
sides of the lease, and the caches that outlive an analysis. This project models
that: TLC checks it on small instances, and TLAPS proves every invariant, every step
property and every refinement for every size.

## 1. Inventory

| Component | State | Operations | What is hard | What makes it correct |
| --- | --- | --- | --- | --- |
| Request queue (`analyze-project-server-queue.ts`) | active entry, line, closed, per entry: state, promise, remembered cancellation signal | enqueue, complete, cancelEntry, cancelActiveAnalysis, close | completion, cancellation and close race; retries of signals | FIFO, single flight, bounded, each promise settles once, one signal per entry |
| gRPC handlers (`analyze-project-server.ts`) | per call: transport cancelled, answer, messages written | AnalyzeProject, AnalyzeProjectUnary, CancelAnalysis, Lease | answers come from promises, events from a port | every call answered, streams complete, no answer to the cancelled |
| Lifecycle (`analyze-project-server-lifecycle.ts`) | lease call, startup timer, shuttingDown | lease taken/lost, timer, shutdown, worker error/exit | setImmediate window, shutdown waits for the worker | a leased server stays, an abandoned one goes |
| Worker (`analyze-project-worker.ts`, `analyze-project-handle-request.ts`) | message port | analyze, cancel, close | dies at any time, answers late, gets stuck | answers each message once, in order |
| Cancellation scope and project analysis (`analyzeProject.ts`) | `analysisStatus`, pending files | withAnalysisCancellation, cancelAnalysis, checkpoints | cancel without identity | a cancellation reaches the analysis it was meant for |
| Program selection (`analyzeWith*.ts`, `analyzeFile.ts`) | pendingFiles | tsconfig programs, entry points, orphans | each file once over three strategies | every file analysed exactly once |
| Program cache (`jsts/program`) | LRU of programs, a host with versions per program, shared caches of contents and parses | find, create, rebuild, evict, clear | hosts count versions separately and share the caches | a file is analysed with its request's content, by a program that has it |
| File stores (`file-stores`, `FSListenerImpl`) | tsconfigs, manifests, generated sources, what each was computed for; the programs of the tsconfigs | dirtyCachesIfNeeded, clearCache, walk, discovery of references | a walk fails half way; events come once, with a request | what was kept is what a walk would find |
| Filesystem cache (`shared/src/fs-cache`) | archive file, active archive with a node per path, open descriptors | beginAnalysis, read-side calls, end and flush | one observation answers other operations; workers flush over each other under a lock file anybody may remove | recorded and replayed answers are those of the tree; a flush loses nothing while its lock holds |
| Normalisation, conversion, linters, parsers, telemetry, rules | none or per call | data transformation | nothing concurrent | functional tests |
| `BridgeServerImpl` (Java) | status, channel, lease observer, node command | startServerLazily, analyzeProject, clean | restart, late reports of an old lease, cancellation watcher | an analysis has the lease, the server comes back, no process stays |
| `WebSensor`, `AnalysisProcessor`, `AnalysisConsumers` (Java) | files to process, future, consumers | handle messages | cancellation and failures mid-stream | success means every result and the metadata |
| Sensor cache (`analysis/cache`, Java) | previous and next cache | read or write strategy | partial hits | a reused result is complete |
| `NodeCommand`, `EmbeddedNode` (Java) | process, deploy lock | start, destroy, deploy | lock file across processes | one deployment |
| LCOV, external reports, integration tests, tools | none | parsing | nothing concurrent | functional tests |

How they interact: a gRPC handler enqueues an entry whose `run` posts a message to
the worker and waits for its completion; events of the analysis travel over the
same port and are written to the call. The `cancelled` event of a call cancels
*its own entry*; CancelAnalysis cancels whatever entry is active; both end in an
identity-free `cancel` message to the worker, which marks the analysis under way.
In Java `WebSensor` asks `BridgeServerImpl` for a server, which starts a process,
connects to the port it announces and takes its lease, and then consumes the
stream of results while a watcher thread polls the `SensorContext`. Each request
brings the file events since the last one; `initFileStores` clears what they
concern and fills it again, and clearing the tsconfig store drops the programs.
The loss of the lease, the startup timer, and the worker's `error` and `exit`
events all call `shutdown`, which closes the queue, posts `cancel` and `close`,
waits for the worker and closes the server.

`PROJECT.json` lists the hazards by line, each with the properties that would
catch it.

## 2. Modules

| Module | Models | Notes |
| --- | --- | --- |
| `AnalysisQueue` | class `AnalysisRequestQueue` | most general caller |
| `AnalysisLine` | what the queue promises | a bounded FIFO line; abstract |
| `ServerLifecycle` | lease, startup timer, shutdown, worker events | |
| `AnalyzeProjectServer` | handlers + queue + lifecycle + two ports + worker + cancellation scope | EXTENDS the two above |
| `ResultStream` | what a stream call is promised by the server and all its client assumes | abstract; `AnalyzeProjectServer` implements it, `ProjectStream` runs on it |
| `ProjectAnalysis` | the loops of one analysis over `pendingFiles` | what runs between `BeginAnalysis` and `FinishAnalysis` above |
| `AnalysisResults` | what an analysis promises to the reader of its results | abstract |
| `TsConfigSelection` | the tsconfig of a file in the IDE, over a list that grows | |
| `ProgramCache` | programs, hosts, contents and parses over several IDE requests | |
| `FsCache` | sessions that record or replay the filesystem | several workers, one archive |
| `BridgeServer` | the Java side: processes, channel, lease, restart | a process is what `ServerLifecycle` promises |
| `ProjectStream` | one analysis consumed by `WebSensor`, with its watcher | EXTENDS `BridgeServer`; what the server sends is a step of `ResultStream` |
| `FileStores` | what the process keeps of a project between requests | |
| `*Proofs` (eight modules) | theorems | one per module above but the abstract ones; those of `AnalysisLine` are in `AnalysisQueueProofs`, of `ServerLifecycle` in `AnalyzeProjectServerProofs`, of `BridgeServer` and `ProjectStream` in `BridgeProofs` |
| `MC*` | instances for TLC | |

### AnalysisQueue

`active`, `pending`, `closed`, `entryState` and `cancellationResult` are the fields
of the class and of its entries. `outcome` says how `enqueue` answered and how the
entry's promise settled. A cancellation signal is the promise that
`requestCancellation()` returns; it is named by the canceller that made the queue
send it, `signal` is its state, `answer` the promise each canceller was given.
`target` is auxiliary: it records for whom a signal was sent and guards nothing.
One action is one synchronous call of a method or the reaction to one of the two
promises; Node.js runs each without interruption. `enqueue` is `Refuse`,
`StartAtOnce` or `JoinLine`; `complete` is `Complete`; `cancelEntry` is `Withdraw`,
`ShareSignal`, `SendSignal` or `AnswerInactive`; its reactions are `SignalSettles`;
`close` is `Close`. Each request submits once and each canceller cancels once:
repeated cancellation is several cancellers on one entry.

### ServerLifecycle

`worker` follows the worker thread as far as the main thread has been told:
"crashed" (its `error` event is pending), "stopped" (its `exit` event is pending),
"exited". `shutdown` is split where the code awaits: `ShutdownWith` is everything up
to `await worker.terminate()`, the rest is in `WorkerExitEvent`. `immediates` counts
the scheduled `setImmediate` callbacks. `attached` says whether
`attachWorkerLifecycleHandlers` has run; with `FragileStart` the worker may die
before it, with it FALSE only after.

### AnalyzeProjectServer

A main-thread action is one event-loop callback with the promise reactions it sets
off; `MainEffects` therefore answers every call whose entry settled in the step and
posts the message of the run or signal that started. A worker action is the code
between two points where the worker may return to its event loop: `BeginAnalysis`
opens the scope, `BeginFile`/`EndFile` bracket a file, so that a `cancel` may be
handled between files and while a file awaits something, and `FinishAnalysis` is
the final check, the last event, the end of the scope and the completion. The two
ports are FIFO. Before it reports the exit of a worker, Node.js delivers what the
port still holds. Payloads are abstract: an event is "file", "meta" or "cancelled".
A result that no property tells apart (which file, which issue) is left out, and so
is the number of a worker request: a message carries the request or the canceller
it stands for, which is as unique as `nextWorkerRequestId`. `written` and `EndOf`
are what the client of a stream call has seen of it, each message by its kind; `StreamSpec`
says that this is a `ResultStream`, which keeps the same sequence in `sent`.

### ProjectAnalysis

One analysis (`analyzeProjectWithCancellation`): `phase` is the loop it is in, `batch`
the files the innermost loop has yet to come to, `tsconfigs` the part of the live list
the outer loop has yet to come to, `roots` the orphans of the groups not yet begun,
`pending` is `pendingFiles`. A step is one file (`AnalyzeTyped`, `AnalyzeUntyped`) or
what a loop does between two: take a tsconfig and open its program or skip it, open a
group of orphans, close either, go on to the next loop. What a tsconfig contains and
references is chosen anew whenever one is opened, so that every project is covered;
`OtherFiles` are those a program has beside the request's. `covered` is auxiliary and
guards nothing. `Cancel` comes at any time; each loop looks at it where the code does.
`AnalyzeProjectServer` counts files only: an analysis there is any of these.

### TsConfigSelection

`list` is the array `getTsConfigs()` returns, live; `processed` the set of the selection
under way; `Iterate` one turn of the `while` loop, which selects with
`pickBestMatchTsConfig`, skips a broken tsconfig, or adds the references (`AddAll`) and
stops if the tsconfig has the file. Paths are sequences of names; the candidates of a turn
are places of the list (`Remaining`), for their order decides.

### ProgramCache

`lru` is `lruCache`, each entry with its program (`ast`: for each file the content it was
parsed from), its host's `version`s and the `files` it is found by. `contents`, `parsed`
and `context` are the three module variables of `sourceFileCache.ts`. The four ways
through `createOrGetCachedProgramForFile` are `ReuseProgram`, `RecreateProgram`,
`CreateProgram` and, without options, `UpdateWithoutProgram` or `NoProgramFor`. `served`
is auxiliary: the program each file of the request was analysed with. TypeScript is
external: a program is the closure of its root files under imports, read through
`getSourceFile`. Options are the first tsconfig of the list that has the file, which is
what `TsConfigSelection` shows the code to do.

### FsCache

A `Workers` element is a worker process; `session` is its `activeArchive`, `disk` the
archive file. A node is what `archive-nodes.ts` keeps of a path: `exists`,
`linkExists` and a slot per class of operations, `None` where nothing is known; its
values are the outcomes. `Lookup` is `replay` (with `replayOpen`), the question every
call asks first; `Call`, `Open` and, around its await, `AsyncCall`/`AsyncResult` are
the calls that miss and record. Two captures may fail without failing the call they belong
to: the entries of a directory that opened (`AsyncResult`) and the stats of a file that
opened (`Fstats`).

`Native` is `node:fs`, for ten kinds of path: an operation sees something (`Sees`), or it
answers why not (`Unseen`): nothing is there, or the path is in a loop of links, in a
directory that may not be searched, or below a regular file. `existsSync` is false for all
of them. An outcome says whether it is of a link or of what the link leads to. Paths do
not meet in an archive, so that one path of every kind is as good as many.

A flush is `End` (which leaves nothing to write unless something was recorded), `OpenLock`,
`Load`, `Rename` and `Unlock`, or `FlushFails` between; `JudgeLock` and `BreakLock` are
`removeStaleLock` on its two sides of reading the clock. Time is left out: any lock file may
be ten seconds old, of a worker that died or of a slow one, and both `unlink`s take whatever
file is there (`RemoveLock`). `EndUnwritten` is a worker that is killed, at any point, or
gives up waiting. `recorded` and `broken` are auxiliary and guard nothing: the tree the
archive was recorded from, and whether somebody is inside the lock whose file another
removed. A relation between names and entries of a directory, the patching of `node:fs`,
file descriptors and the encoding of the file are left out.

### BridgeServer and ProjectStream

`sensor` is where the thread that runs the analyses is inside `startServerLazily`,
`analyzeProject` or `clean`; `status`, `nodeCommand`, `channel`, `leaseObserver` and
`leaseTerminated` are the fields, a channel and an observer being named by the process
they were made for. `ready` is the state of the channel. `leaseCalls` counts the Lease
calls whose end gRPC has yet to report: `LeaseEnds` is `onLeaseTerminated`, on a thread
of its own, whenever. A process boots, listens, exits when its lease is lost
(`NodeLosesLease`) or not taken in time (`NodeTimesOut`), or crashes. `ProjectStream`
adds the call under way, the watchers, `aborted` (the cancelled `analyzeContext`), the
messages received and not consumed, and the handler's `future`. `BeginCall` starts the
watcher; then the stub returns the response iterator (`RequestGoesOut`) or throws
(`RequestFails`), with CANCELLED when the watcher was faster. `HandleMessage`,
`EndOfStream` and `EndAnalysis` are the loop, its end and the end of `execute`;
`outcome` is what `analyzeProject` returned or threw. `ServerSends`, `ServerCancels` and
`ServerEnds` are the steps `Served!...` of `ResultStream`: the client meets every stream
the server may send, and no other.

### FileStores

A file is a `tsconfig.json`, another configuration or a manifest, its content a
version, 0 when there is none. `InitFileStores` is `isInitialized` of every store
followed by `setup` of the cleared ones: a store counts as initialised from there on,
before `VisitFile` and `PostProcess` fill it. `WalkFails` leaves it as it is.
`UseProgram` stands for everything cached by tsconfig (content, options, programs).
`missed` and `halfFilled` are auxiliary: events that no store has seen, stores whose
walk failed. A change of `baseDir` or `canAccessFileSystem` clears like a change of
the exclusions.

In each module an operator marked *Mutant* is a plausible bug in the definition
that follows it; substituting it must break the property `PROJECT.json` names.
They are no part of any specification.

## 3. Runs

| Run | Instance | Shows |
| --- | --- | --- |
| `queue` | 4 requests, 2 cancellers, 2 places | bookkeeping (the line has each entry once, nobody waits without cause, a closed queue is empty), one signal per entry and none after an acknowledgement, and the queue implements `AnalysisLine` |
| `server_cancellation` | 2 streams, 1 CancelAnalysis, 1 file, 1 lease | cancellation end to end: no cancellation reaches the wrong analysis, an acknowledged one is honoured, streams that end OK are complete, nothing the main thread waits for is lost (`NothingIsLost`), and each stream call gets the stream its client assumes (`StreamSpec`) |
| `server_liveness` | 2 calls, one unary, 1 lease, fair | every call is answered; a unary OK without cancellation is complete; a dead worker closes the queue |
| `server_stuck_worker` | 1 call, 1 CancelAnalysis, 2 leases, startup timer, nothing assumed of the worker, which may die before its handlers are attached | the server closes after the worker, and the shutdown that is due is never missed (`ShutdownInOrder`); a leased server begins to shut down only for its worker or an earlier lost lease; a lost lease and an unleased server end the process; CancelAnalysis is answered all the same |
| `project_analysis` | 3 files (2 JS/TS), 1 library, 2 tsconfigs, all modes | each file is before one loop only, no file loses its types, `AnalysisResults` is implemented, every analysis ends |
| `tsconfig_selection` | 2 files, 3 tsconfigs, every list of up to two | a covered file is no orphan, a choice is stable |
| `program_cache` | 2 files, 2 contents, 3 requests, shared programs, orphans, room for one or two programs | the parse cache is current, builds read the request |
| `fs_cache` | 2 workers, 1 path of ten kinds, 2 versions, 9 operations, one archive | what a session consolidated from some operations answers every other as the native filesystem would, up to why something cannot be reached; whatever becomes of locks, flushes and workers, a replay under any checkout answers for the recorded tree and an opened file can be read; a flush keeps all its session knew, and all the file knew while its lock held |
| `bridge` | 2 processes, 2 incidents, 1 call, 1 file, fair | an analysis begins leased and its outcome is true; cancellation ends it; no call is unattended while anything works for it, and a call that is over leaves nothing behind; no process stays unowned; the server comes back |
| `file_stores` | 2 `tsconfig.json`, 1 other configuration, 1 manifest, 4 configurations, 2 changes, 3 requests | tsconfigs, manifests and programs are current, up to named exceptions; a scanner sees the project without any |
| `programs_stale` | 2 files, two programs that share one | **violated**, see section 6 |
| `bridge_cancel_misreported` | 1 process, 1 call, no incidents | **violated**: `CancelIsNotFailure`, see section 6 |

Why the bounds are enough. The queue treats requests uniformly, so one executing,
two waiting and one refused request show every position an entry can have, and two
cancellers are enough for sharing, retrying and crossing a signal. In the server
two calls are a predecessor and a successor, all that cross-cancellation needs;
a full line is met in run `queue`, whose callers include all the server makes. One file
separates "before", "during" and "after"; the code treats each further file like
the first. Two leases are one that is lost and one that takes its place before the
scheduled shutdown, or one that holds and one that is refused; no file at all is enough
for a worker that need not get on. Requests (or leases) make one call each, which bounds
`immediates` and the ports. Symmetry is used only in runs whose
properties are invariants or step properties. Deadlock is checked in
`tsconfig_selection`, `program_cache` and `fs_cache` only: a server that was shut down,
or whose clients are done, stops, and so do an analysis that ended, a JVM and a bounded
number of requests.

In `fs_cache` a path is a file, a directory, a link, a file that cannot be
opened, a file whose `fstat` may fail, or one that cannot be reached in one of five ways
(missing, a dangling link, a loop, an unsearchable directory, below a file). These are the
kinds for which a call takes a different branch of `updateExistence`, `get`, `missingPath` or
`captureOpenedFile`; an error like EIO or EMFILE, which depends on the moment and not on the
path, is not among them. A session sees nothing of the others while it records. For flushes
two workers are one that flushes over another, breaks its lock or meets what it left when it
died; a third could break the lock of the one that broke the first's: more than two are
covered by the proofs only, and so are the operations `lstatSoft`, `readdirTypes`, `access`,
`realpath` and `readlink`, whose slots are shared like those of `stat` and `opendir` or not at
all. The nine operations have every slot that is captured or derived from others, soft calls,
and `lstat`, which knows of links. `Bounded` bounds the run: behaviours are followed while
the two sessions together have filled three slots of the path, an open with what it captures
counting as one (existence is no slot and not bounded), and while what is listed is a
directory that was not read as a file. Three is what the longest derivation takes, that of an
open from a content and two stats, which may come from both sessions through the file.
In `bridge` two processes are an old one and its
replacement, two incidents a crash and another crash or a `clean`; call and process
identifiers are used again, so that analyses are unbounded; `bridge_cancel_misreported`
needs neither incident nor replacement. One file is a result
before the metadata. In `file_stores` three requests fill the stores, meet a change,
and meet what the second left; two changes are one between requests and one under the
walk, or one that is undone.

Two tsconfigs are one that is open and one that references it back; a style sheet, a
module and a script give every group of files the loops tell apart. `MaxRequests` counts
the requests of a behaviour of `ProgramCache`: a first one fills the caches, a second
meets what it left, a third meets a rebuilt program. The cache holds one
program or two instead of ten: with room for one the second evicts the first. Two
contents are an old and a new one; app imports lib in its first content only, so that an
import can disappear.

## 4. Fairness

`MainFairness` is weak fairness of what the event loop
always does: deliver messages, fire timers that were armed, run immediates, report
the end of a thread after `terminate()`. Clients, leases, cancellations, crashes and
failing analyses are never fair. `WorkerFairness` (the worker handles its messages
and its analysis gets on) is assumed in `FairServerSpec` only;
`docs/sonarlint-analyze-project-concurrency.md:136-144` says that the code does not
guarantee it, hence `StuckWorkerSpec`. `CancelTimesOut` is fair because its timer is
armed with the signal.

`ProjectAnalysis!FairSpec` assumes that no single file or program hangs, which the code
does not guarantee either: it shows that the *loops* end, tsconfigs that reference each
other included. `ProgramCache`, `TsConfigSelection`, `FsCache` and `FileStores` have no liveness.

`ProjectStream!JavaFairness` says that the thread of the analyses runs, that a watcher
polls and that analyses keep being asked, which is what `ServerComesBack` is about.
`RuntimeFairness` says that gRPC reports broken connections and ended calls, and that a
process boots, exits after its lease and fires its startup timer, as run
`server_stuck_worker` shows. Nothing is assumed of the server's answers: the stream has no deadline in
`BridgeServerImpl`, so a silent server blocks an analysis until it is cancelled, and
`CancelEndsCall` holds for such a server. What it sends, if it sends, is not assumed but
proved of `AnalyzeProjectServer` (`ServerImplementsResultStream`). Incidents, cancellations and the death of the
JVM are never fair.

## 5. Proofs

For every set of requests and cancellers and every `maxPending` in Nat:

* `TypeCorrect`; `BookkeepingCorrect`, of `Bookkeeping`, and its part `WorkConservingCorrect`.
  The inductive invariant is
  `TypeOK /\ EntryBookkeeping /\ WorkConserving /\ BoundedLine /\ ClosedIsEmpty`.
  No conjunct is inductive alone: that an entry is pending exactly when it is in the
  line needs `NoDuplicates` (or removing one leaves another), `ActiveAgrees` needs
  that the head of the line is not active, `BoundedLine` needs `WorkConserving`, since
  `enqueue` looks at the length only if something is active.
* `OneSignalCorrect`, `NoSignalAfterAcknowledgementCorrect`, and `SettledOnceCorrect`, which
  no run checks because `LineSpec` says as much.
* `QueueImplementsLine`: `QueueSpec => LineSpec` under the mapping
  `line <- <<active>> \o pending`. Each action maps to one step (`EnqueueMapsToLine`,
  `CompleteMapsToLine`, `WithdrawMapsToLine`, `CloseMapsToLine`) or a stutter (signals).
  `RemoveAtProperties` and `ConsRemoveAt` are the facts on sequences it rests on.

For every set of leases, with or without timer, and for a worker that may die before
its handlers are attached:

* `LifecycleSafe` and `HolderKeepsServerUpCorrect`. The invariant adds
  `HolderAfterListening` (without it the timer could be armed under a holder) and
  `ImmediatesHaveCause` (a scheduled shutdown has a lost lease behind it).
* `ShutdownInOrderCorrect`, with its two halves: the server closes after the worker
  (`LifecycleSafe`), and `ShutdownIsComingCorrect`, the safety side of `LostLeaseStopsServer` and
  `UnleasedServerStops`: what those wait for is always still pending, although the next
  holder takes the place of the lost one in `leaseCall` and disarms the timer.

For the composed server with any number of calls, cancellers, files and leases
(`AnalyzeProjectServerProofs`; `ServerAlways` puts the layers together):

* `ServerImplementsLifecycle` and `ServerImplementsLine`: a step of the server is one of
  the lifecycle, and one of the queue, or leaves them unchanged, so that what is proved of
  the two modules alone holds of the whole. `ServerTypeCorrect` adds the types of calls,
  ports and analysis; `ClosedIsShutDown`, that the queue is closed exactly when the
  lifecycle shuts down, ties the two halves.
* `ServerCancelsOnlyItsTarget`. The `cancel` message has no identity, so that everything
  hangs on *when* it is handled. `OneAnalysis` says that at most one analysis is asked for,
  running or not yet reported as complete, and it owns the active slot; `Progress`, that each
  runs once; `CancelsInTime`, that a cancel still in the port finds the analysis it was
  sent for or none: of the requests in the port exactly that analysis's is ahead of it.
  `ConfirmedIsSet` is the way back: a confirmation in the port, or acknowledged, is of an
  analysis that was marked.
* `ServerStreamComplete`, `ServerHonoursCancellations`, `ServerUnaryComplete`,
  `ServerWritesWhileActive`. An answer comes from a promise and the events over a port:
  `EventsBeforeEnd` says that events of an analysis stand before its completion, and `Flow`
  that what was written and what is still in the port, in this order, is what the analysis
  has produced. A stream is answered when its completion is handled, and then nothing is left in the
  port (`Answered`).
* `ServerLosesNothing`, from `ServerKeepsActiveEntryUnderWay` and
  `ServerKeepsSignalsUnderWay`, the safety side of `EveryCallAnswered` and `EveryCancelAnswered`: what the main thread waits for is never
  lost, so that the fairness of ports and worker is all the liveness adds. The first is
  `OneAnalysis` in the other direction, and needs that a message is taken from a port and what follows
  from it is put in place in one step (`ReceiveKeepsActiveUnderWay`,
  `WorkerKeepsActiveUnderWay`); the second, that every new signal is posted
  (`NewSignalIsPosted`) and that a failing worker settles those whose messages it drops.
* `ServerImplementsResultStream`: the messages a client sees of each stream call, in their
  order, are those of a `ResultStream`. It rests on `InOrder`, about what the port still holds
  for a call: after the metadata or the cancellation nothing follows but the completion, the
  metadata come only after every file, and the results that are written, in the port and still
  to be computed are together at most `Files`, fewer when a worker died. While any event is
  in the port or any file is left, only results were written (`AllFiles`), so that a write
  finds the call open and nothing terminal before it (`WriteIsResult`), and an answer is OK
  only after the last event and never CANCELLED (`AnswerIsResult`, `NeverAnswersCancelled`).
  So `OutcomeIsTrueCorrect` below speaks of the streams of the real server.

For every request, every set of tsconfigs and whatever these contain and reference:

* `AnalysisTypeCorrect`; `OneLoopCorrect`, inductive with the types: its conjuncts on
  `batch` and `roots` in the phases that do not use them are what carries `batch`
  and `pending` over from one loop to the next; `ReportTakesOne` is the step on the
  sequence of results.
* `LoopsImplementResults`: with `OneLoopCorrect` the file of a step is unreported and the
  final data come when none is left, so each step is one of `AnalysisResults` or a
  stutter.
* `TypedCorrect`, by `TypedInv`: a covered file is pending only while its own program is
  open, an orphan only while it is a root or in the open group. All of it is claimed
  only while the analysis is not cancelled, and after a cancellation nothing more is
  analysed.

For every project, import relation and size of the program cache:

* `ParsedIsCurrentCorrect`. `SourceFileIsContent` is its heart: versions may collide
  between hosts, but a cached parse is only taken when `updateFile` found nothing to
  replace, and then it is the parse of what `readFile` would return.
* `BuildsReadTheRequestCorrect`, with the types (`ProgramCacheTypeCorrect`): each of the
  three ways to build a program passes every file of its closure through
  `getSourceFile`, so that `SourceFileIsContent` applies to each.
* `CacheBoundedCorrect`, from `LruInv`: a hit takes out one entry and appends one
  (`TouchKeepsLength`), a new program is added after room was made (`AddingKeepsBound`).

For every set of processes and calls and any number of incidents:

* `AnalysisBeginsLeasedCorrect`, from `LeaseInv` and `StartHasProcess`
  (`LeaseInvCorrect`). An observer that is set belongs to the open channel and to a call
  whose end is not reported, since `closeChannel` and `onLeaseTerminated` take the observer
  away with either; and a start that asked for the lease still has its observer or knows
  that it was terminated. `isAlive` relies on the first, `startServer` on the second.
* `OutcomeIsTrueCorrect`, from `OutcomeInv`. `EndOfStream` concludes from the future how the
  analysis went; that is true because the metadata are the last message of a stream and
  nothing is handled after them (`MessagesInOrder`), and because `terminal` is OK only for
  a stream that sent everything (`EndOfCall`). `RequestFirst` keeps the two parts of a call apart: until
  the iterator exists nothing was sent and the stream can have ended as CANCELLED only, which
  is the exception of the property.
* `NoUnattendedCallCorrect`, the safety side of `CancelEndsCall` and
  `EndedCallLeavesNothing`: whatever ends a call aborts it in the same step, and its
  identifier is used again only when no watcher and no process has it any more.

For every project, every list of tsconfigs and every graph of references:

* `CoveredFileIsNoOrphanCorrect`, from `CompleteInv`: what a selection tried in vain is
  useless to the file *and* its references are in the list, so that nothing can be discovered
  once a file is an orphan. The order in which candidates are tried does not matter to it,
  only that `pickBestMatchTsConfig` selects one of them (`BestMatchRemains`).
* `SelectionIsStableCorrect`, from `SelectionInv` (`SelectionInvCorrect`): a selection has
  tried a beginning of the list, what was selected is its first usable place, and the list
  grows at its end. Here the order matters, and with it that no path of a tsconfig begins
  the path of a file (`FilesAssumption`; section 6). That `AddAll` only appends
  (`AddAllExtends`) is an induction, done by the least counterexample.

For every project, configuration and number of changes and requests:

* `ProgramsFollowTsConfigsCorrect`, from `ProgramInv` (`ProgramInvCorrect`). That a
  program is current is not inductive: an event must be known to clear the store. So
  the invariant says that programs exist only for tsconfigs the store lists, whose events
  clear it, and `NoProgramsWhileWalking` that the lists do not change under a program
  while the store is filled.
* `TsConfigsAreCurrentCorrect`, `ManifestsAreCurrentCorrect` and `ScannerSeesTheProjectCorrect`,
  from `StoreInv` (`StoreInvCorrect`), which says for each phase what a store may still be
  wrong about: the paths the walk has yet to visit, the events it has not been told, those
  missed for good, and nothing else. `StoresFollowRequest` keeps the settings a store was
  filled with equal to the request's, `KnownExist`, `ProvidedKnown` and `LookupKnown` are the
  two directions of "what a walk would find", and `ScannerWalk` has no exceptions because a
  scanner's request clears every store.

For every set of workers, paths, kinds and operations:

* `RecordedAnswersAreNativeCorrect`, from `FsInv` (`FsInvCorrect`). `NodeSound` says that
  a node's flags are right and that each slot holds what the hard operation of the slot
  answers natively (`Held`), hence something that *every* operation that reads it may
  answer (`HeldIsAllowed`). `SeenIsNotMissing`, `UnseenAnswers` and `MissingIsMissing` say when a
  native call reports absence: only where it sees nothing, but not always there, which is
  the exception of `Allowed`. `SlotShared` says that calls with one slot hold the same in it,
  which is why a missing outcome must not go to the slot. `PendingSound` is the read over its
  await: its session is still there and its answer still right.
* `ReplayAnswersTheRecordedTreeCorrect`, `OpenedFileCanBeReadCorrect` and
  `FlushKeepsAnswersCorrect`, from `FileInv` (`FileInvCorrect`) beside `FsInv`. `FileSound`
  is `NodeSound` for a file whose list of missing paths may stand for links too, with
  respect to the tree it was recorded from; a checkout cannot replace that tree under a session
  or a flush. It is claimed of the file *and* of what every flush has loaded, which may be an
  older file: this is why no lock is needed for it. `Captured` says that a node that opens has
  its content and, unless its `fstat` may fail, both its stats, and is kept by the merge
  because a capture fills the slots in one step; `Informed`, that a node of a missing path
  says so, without which a flush could lose what the list answered.
* That the file's own answers survive a flush needs the lock: `LockInv` (`LockInvStep`) says
  that while `broken` is FALSE whoever is inside made the lock file that is there, so that only
  one is, and that what a flush has loaded is then the file it will replace.

Assumptions, each with the reason in its module: `MaxPending \in Nat` (the constructor throws
otherwise), `None` and `NoLease` are not requests, cancellers or leases, the shutdown's own
cancel is none of the cancellers, `HasTimeout` and `FragileStart` are Boolean, `NoNode` and
`NoCall` are no processes or calls, a cache has room for one program at least, a path of a
project is of one kind, a path of a tsconfig begins no path of a file, and in `FsCache`
`None` is no Boolean, outcome, node or worker and no version is the answer "undefined" of a soft call.

Only model-checked is what the prover cannot reach, liveness: `LostLeaseStopsServer`,
`UnleasedServerStops`, `EveryCallAnswered`, `WorkerFailureClosesQueue`, `EveryCancelAnswered`,
`AnalysisEnds`, `CancelEndsCall`, `EndedCallLeavesNothing`, `UnownedProcessStops` and
`ServerComesBack`. Each inductive invariant named above was checked by TLC on the
instance of its run before it was proved. `WrittenWhileActive` and
`SettledOnce` are proved and not run; `LineSpec` implies the second. The type invariant of `BridgeServer` and
`FileStores` is proved in the parts the proofs need (`LeaseTypes`, `ProgramTypes`,
`StoreTypes`).

## 6. What the model showed

*A worker that dies during startup is not noticed.* `create-worker.ts` resolves on
`online`; its own `error` and `exit` handlers only log. `startAnalyzeProjectServer` then
awaits `logMemoryConfiguration` (line 393) before `attachWorkerLifecycleHandlers`
(line 418). If the thread ends in between, say because an import of the worker fails,
both events are lost: the server listens, takes leases and admits an analysis that is
never answered, against `docs/sonarlint-analyze-project-concurrency.md:109`. With
`FragileStart = TRUE` TLC violates `WorkerFailureClosesQueue`; `server_liveness` and
`server_cancellation` assume FALSE. In `server_stuck_worker` it is TRUE: the lifecycle's
properties hold all the same, and `EveryCancelAnswered` is claimed unless such an exit was
never heard (`NoUnheardExit`, which holds with FALSE).

*The closest tsconfig is not selected.* `pickBestMatchTsConfig` asks
`file.startsWith(tsconfig)` with the path of the tsconfig, not of its directory, so it
always falls back to the first of the list (but for a file like `tsconfig.json.ts` beside
it, whose path the comparison of strings takes for a match): a root `tsconfig.json` that includes a file
of `web/ui` wins over `web/ui/tsconfig.json`, against the comment at
`analyzeWithIncrementalProgram.ts:130-131`. `BestMatch` of `TsConfigSelection` is the code.

*A cached program can be stale.* `updateFile` compares the request's content with the
shared content cache. With {app, lib changed} in one request, the program of app puts the
new lib there; lib then hits its own older program, "no change" is found, and it is
reused with the old content, against `compilerHost.ts:135-136` and
`docs/node-analysis-caches.md:236`. Run `programs_stale`.

*A cached program can lose the file it is found by.* A program hit for lib and rebuilt
with the options of lib may no longer contain app, but its entry still says so, against
`programCache.ts:45`. In `ProgramCache` such a state is reached by three requests; no
property excludes it. Both need programs that share a file.

*The first restart after a crash fails.* When the process of a started server dies, the
next analysis only declares it failed and closes nothing; the restart finds a channel that
was not shut down (`BridgeServerImpl.java:693-696`) and keeps it, connected to the port of
the dead process. The new process announces its port in vain, the start times out and only
the one after that succeeds, although the comment at line 401 says that the reset "will
cause the server to retry deployment". `ServerComesBack` shows that it does recover.
Because `onLeaseTerminated` does not look at which observer reports, the late end of an old
lease may also clear a new one; then the server counts as dead and is restarted, but no
analysis ever begins without a lease (`AnalysisBeginsLeased`, proved).

*Recording a directory that was read as a file.* `readFile` of a directory records EISDIR
in a node without `exists`; a later `existsSync` finds the node, asks `operationSlot` for
the slot of an operation that has none, and throws (`archive.ts:321-325`,
`archive-nodes.ts:129-130`). `fs-cache/README.md` says that compatible later operations
reuse the consolidated state. `Refused` stands for it, and `Faithful` admits it.

*What cannot be reached becomes missing.* `existsSync` swallows every error. When it was
false for a path in a loop of links, in a directory that may not be searched or below a
file, the node says that the path is absent, and from then on `readFile`, `stat` or `realpath`
are answered ENOENT instead of ELOOP, EACCES or ENOTDIR (`archive-nodes.ts:175-180`,
`archive.ts:362-368`, `hook.ts:284-291`), in the same session and in every replay.
A test promises "native-shaped errors when consolidated state says a
path is absent" (`fs-cache-hook.test.ts:409`) but has a missing file only.
`RecordedAnswersAreNative` and `ReplayAnswersTheRecordedTree` therefore admit, where an
operation sees nothing, the answer that the path is missing (`Allowed`); what they exclude is
that something an operation sees is called missing, or the reverse. They admit one thing more:
a soft stat below a file is ENOTDIR when a hard one has filled the slot both read, although
the soft one alone returns undefined since Node.js 24.

*Dangling links.* A link whose target alone is missing is written to the list of missing
paths like a path that does not exist (`archive-serialization.ts:271-279`), so a replay
answers ENOENT to `lstat` (`archive.ts:364`); and a flush that meets the path in the
list replaces the entry by a node that no longer says the target is missing
(`archive.ts:414-417`). A loop of links fares alike. The properties of `FsCache` name these
exceptions.

*The lock of an archive can be taken from its holder.* A lock file is removed when it is ten
seconds old, although its maker may be slow and not dead; its age is read before it is
unlinked, so that a lock made in between is hit instead; and the `finally` of a flush
unlinks whatever lock file is there, which after either is another's (`archive.ts:72-87,
449-452`). Two flushes then overlap, and the second rename puts in place a merge that lacks
what the first wrote: without `~broken` TLC violates `FlushKeepsAnswers`. No document
promises otherwise, so there is no run for it. What was lost is only missing: the file stays
whole, every answer in it is right for its tree, and each flush keeps what its own session
knew; all three are proved for overlapping flushes too.

*A stat that fails leaves an opened file half captured.* When `fstat` fails after `open`
succeeded, `captureOpenedFile` gives up silently (`hook.ts:1411-1426`); a replay hands
out the descriptor and misses when it is examined. `OpenedFileCanBeRead` exempts such files.

*A cancellation can be reported as a failure.* The stub that returns the response iterator
may throw CANCELLED when the watcher has cancelled its context by then, and the `catch` at
`BridgeServerImpl.java:473` does not ask why: the analysis fails with "unresponsive"
where the `catch` at line 490 would have called it cancelled.
`docs/sonarlint-analyze-project-concurrency.md:167-171` knows of it. Run
`bridge_cancel_misreported`; `OutcomeIsTrue` exempts it (`~requested`).

*What file events do not reach.* `TsConfigsAreCurrent` and `ManifestsAreCurrent` hold up to
these: a store whose walk failed counts as initialised and stays half filled until
something clears it; the first `tsconfig.json` of a project that had none goes unnoticed,
because `usingLookupTsConfigs` compares the empty list with a fresh `[]`, although
`docs/node-analysis-caches.md:334` lists a `tsconfig.json` candidate in lookup mode among
the events that clear; so does the first provided tsconfig where none was found; and
the events of a request that is cancelled in the queue or rejected are gone, because
`FSListenerImpl.listFSEvents` forgets what it returns. Outside the model, a base
configuration reached by `extends` only is cached by its path (`options.ts:543`) and is in
no list, so that its events clear nothing.

Two smaller observations. The clearing of caches at the end of `analyzeWithProgram`
(lines 130-140) is never taken: scanner programs are not put in the program cache, so its
size is 0. And programs are not collectable through the `WeakMap` of
`programCache.ts:53`: the LRU map holds the key objects, so `ProgramCache` has no such
step.

Two behaviours a reader may stumble over are documented and modelled as they are: a
CancelAnalysis processed after the queue handed over cancels the successor, and a
cancelled *unary* call whose transport lives (CancelAnalysis) is answered OK with the
files analysed so far, hence the second disjunct of `UnaryComplete`.

## 7. Not modelled

The in-process variant without worker (never used by `server.mjs`), gRPC flow control
and transport failures other than the `cancelled` event and a broken connection, memory
reporting, data conversion; in `BridgeServer` the process of
`SONARJS_EXISTING_NODE_PROCESS_PORT`, the unary calls, requests without files and a process
that stays silent for five minutes; in `FileStores` the source file store, which every
request reseeds, the simulated walk over a request's files and `detectGeneratedCode =
false`; in `FsCache` what sections 2 and 3 name, errors that
depend on the moment, and the error that ends a flush when two remove one lock file at once
(the archive is in place by then); in `ProjectAnalysis` warnings and telemetry; in `ProgramCache` files that are
missing or empty, several sets of compiler options (one parse per file) and orphans with
different `lib` (one group); and the components of section 1 that the plan below still
lists.

## 8. Plan

Done, in this order: `AnalysisQueue` with `AnalysisLine`, `ServerLifecycle`,
`AnalyzeProjectServer`, `ProjectAnalysis` with `AnalysisResults`, `TsConfigSelection`,
`ProgramCache`, `FsCache`, `BridgeServer` with `ProjectStream`, `FileStores`, `ResultStream`,
and the proofs of section 5. Next:

1. A refinement between the exits of a process in `BridgeServer` and `ServerLifecycle`,
   instead of the prose of section 4, as `ResultStream` is for the stream.
2. The Java sensor cache (a result reused is complete) and the deployment lock of
   `EmbeddedNode`.
3. `extends` in `FileStores`, and what `DiscoverTsConfig` and `TsConfigSelection` share.
