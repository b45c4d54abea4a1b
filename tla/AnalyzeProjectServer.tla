------------------------ MODULE AnalyzeProjectServer ------------------------
(* The analyze-project server: gRPC handlers and request queue on the main *)
(* thread, the analysis on a worker thread, two FIFO message ports between *)
(* them, and the lifecycle that shuts both down                            *)
(* (analyze-project-server.ts, analyze-project-worker.ts,                  *)
(* analyze-project-handle-request.ts, analyzeProject.ts).                  *)
(*                                                                         *)
(* A main-thread action is one event-loop callback with the promise        *)
(* reactions it sets off: the gRPC answer of a call is given in the step   *)
(* that settles its entry, and a run that starts posts its message in the  *)
(* step that starts it.  A worker action is the code between two points    *)
(* where the worker returns to its event loop.                             *)
EXTENDS AnalysisQueue, ServerLifecycle

CONSTANTS
    Streams,      \* the requests made with AnalyzeProject, the others are unary
    CancelCalls,  \* the CancelAnalysis calls
    Files         \* how many files an analysis has

\* A transport cancels through its own submission, a CancelAnalysis call
\* through cancelActiveAnalysis; the cancellation that shutdown posts is nobody's.
ASSUME ServerAssumption ==
    /\ Streams \subseteq Requests
    /\ CancelCalls \cap Requests = {}
    /\ Cancellers = CancelCalls \cup Requests
    /\ "shutdown" \notin Cancellers
    /\ Files \in Nat

VARIABLES
    transportCancelled,  \* of each call's handler
    reply,               \* the terminal answer given to each call
    written,             \* the messages written to each stream call
    toWorker,            \* worker.postMessage, not yet handled
    fromWorker,          \* parentThread.postMessage, not yet delivered
    portOpen,            \* the worker has not handled 'close'
    analysisStatus,      \* the module variable: whose status object it holds
    cancelled,           \* the flag of each analysis's status object
    step,                \* where each analysis is
    filesLeft            \* the files it has still to analyse

callVars == <<transportCancelled, reply, written>>
portVars == <<toWorker, fromWorker, portOpen>>
analysisVars == <<analysisStatus, cancelled, step, filesLeft>>
serverVars == <<queueVars, lifecycleVars, callVars, portVars, analysisVars>>

Replies == {"none", "ok", "failed", "cancelled", "unavailable", "exhausted"}
Events == {"file", "meta", "cancelled"}
Steps == {"none", "between", "inFile", "done"}

ToWorker ==
    [type : {"analyze"}, id : Requests]
      \cup [type : {"cancel"}, id : Cancellers \cup {"shutdown"}]
      \cup [type : {"close"}]

FromWorker ==
    [type : {"event"}, id : Requests, body : Events]
      \cup [type : {"complete"}, id : Requests, ok : BOOLEAN]
      \cup [type : {"cancel-complete"}, id : Cancellers \cup {"shutdown"}, ok : BOOLEAN]

ServerTypeOK ==
    /\ TypeOK
    /\ LifecycleTypeOK
    /\ transportCancelled \in [Requests -> BOOLEAN]
    /\ reply \in [Requests -> Replies]
    /\ written \in [Requests -> Seq(Events)]
    /\ toWorker \in Seq(ToWorker)
    /\ fromWorker \in Seq(FromWorker)
    /\ portOpen \in BOOLEAN
    /\ analysisStatus \in Requests \cup {None}
    /\ cancelled \in [Requests -> BOOLEAN]
    /\ step \in [Requests -> Steps]
    /\ filesLeft \in [Requests -> 0..Files]

ServerInit ==
    /\ QueueInit
    /\ LifecycleInit
    /\ transportCancelled = [r \in Requests |-> FALSE]
    /\ reply = [r \in Requests |-> "none"]
    /\ written = [r \in Requests |-> <<>>]
    /\ toWorker = <<>>
    /\ fromWorker = <<>>
    /\ portOpen = TRUE
    /\ analysisStatus = None
    /\ cancelled = [r \in Requests |-> FALSE]
    /\ step = [r \in Requests |-> "none"]
    /\ filesLeft = [r \in Requests |-> Files]

-----------------------------------------------------------------------------
(* What every main-thread step does besides: answer the calls whose entry  *)
(* settled or was not admitted, and post the work of the run or of the     *)
(* cancellation signal that started.                                       *)

\* toAnalysisServiceError, queueAdmissionError, callback(null, result), end().
ReplyFor == [resolved |-> "ok", rejected |-> "failed", cancelled |-> "cancelled",
             closed |-> "unavailable", refused |-> "unavailable", full |-> "exhausted"]

AnswerCalls ==
    reply' = [r \in Requests |->
                IF outcome'[r] # outcome[r] /\ ~transportCancelled'[r]
                THEN ReplyFor[outcome'[r]] ELSE reply[r]]

RunMessages ==
    IF active' \notin {active, None} THEN <<[type |-> "analyze", id |-> active']>> ELSE <<>>

SignalMessages ==
    SetToSeq({[type |-> "cancel", id |-> c] :
                c \in {d \in Cancellers : signal[d] = "none" /\ signal'[d] = "inFlight"}})

MainEffects ==
    /\ AnswerCalls
    /\ toWorker' = toWorker \o RunMessages \o SignalMessages

Serving == listening /\ ~serverClosed

-----------------------------------------------------------------------------
(* The gRPC handlers                                                       *)

\* AnalyzeProject and AnalyzeProjectUnary.
Submit(r) ==
    /\ Serving
    /\ ~transportCancelled[r]
    /\ UNCHANGED transportCancelled
    /\ Enqueue(r)
    /\ MainEffects
    /\ UNCHANGED <<lifecycleVars, written, fromWorker, portOpen, analysisVars>>

\* The call is already cancelled when its handler runs: it is not enqueued.
SubmitCancelled(r) ==
    /\ Serving
    /\ New(r)
    /\ ~transportCancelled[r]
    /\ transportCancelled' = [transportCancelled EXCEPT ![r] = TRUE]
    /\ UNCHANGED <<queueVars, lifecycleVars, reply, written, portVars, analysisVars>>

\* The 'cancelled' event of an admitted call, also after its answer: gRPC may
\* report it when the stream closes.
TransportCancelled(r) ==
    /\ Serving
    /\ ~transportCancelled[r]
    /\ transportCancelled' = [transportCancelled EXCEPT ![r] = TRUE]
    /\ CancelTransportCall(r, r)
    /\ MainEffects
    /\ UNCHANGED <<lifecycleVars, written, fromWorker, portOpen, analysisVars>>

CancelAnalysis(c) ==
    /\ Serving
    /\ UNCHANGED transportCancelled
    /\ CancelActiveAnalysis(c)
    /\ MainEffects
    /\ UNCHANGED <<lifecycleVars, written, fromWorker, portOpen, analysisVars>>

\* The CancelAnalysis call c was answered: { cancelled: false } at once, or as
\* the promise it waits for settled.
CancelAnswered(c) ==
    /\ answer[c] # None
    /\ answer[c] = "inactive" \/ signal[answer[c]] # "inFlight"

\* Mutant: requestCancel without a timeout.
CancelNeverTimesOut(c) == FALSE /\ UNCHANGED serverVars

\* The timeout of requestCancel: WORKER_RESPONSE_TIMEOUT_MS.
CancelTimesOut(c) ==
    /\ ~serverClosed
    /\ SignalSettles(c, "failed")
    /\ UNCHANGED <<lifecycleVars, callVars, portVars, analysisVars>>

-----------------------------------------------------------------------------
(* Delivery of the worker's messages to the main thread                    *)

Deliver(type) ==
    /\ worker # "exited"
    /\ fromWorker # <<>>
    /\ Head(fromWorker).type = type
    /\ fromWorker' = Tail(fromWorker)

\* onWorkerMessage stays registered until the run settles, writeResponse looks
\* at nothing but transportCancelled.
ReceiveEvent ==
    /\ Deliver("event")
    /\ LET m == Head(fromWorker) IN
         written' = IF transportCancelled[m.id] THEN written
                    ELSE [written EXCEPT ![m.id] = Append(@, m.body)]
    /\ UNCHANGED <<queueVars, lifecycleVars, transportCancelled, reply, toWorker,
                   portOpen, analysisVars>>

\* waitForWorkerCompletion resolves and the run settles.
ReceiveComplete ==
    /\ Deliver("complete")
    /\ UNCHANGED transportCancelled
    /\ LET m == Head(fromWorker) IN
         IF entryState[m.id] = "active"
         THEN Complete(m.id, IF m.ok THEN "resolved" ELSE "rejected") /\ MainEffects
         ELSE UNCHANGED <<queueVars, reply, toWorker>>
    /\ UNCHANGED <<lifecycleVars, written, portOpen, analysisVars>>

\* Nobody waits for the acknowledgement of a signal that timed out, nor for the
\* one of the cancellation that shutdown posts.
ReceiveCancelComplete ==
    /\ Deliver("cancel-complete")
    /\ LET m == Head(fromWorker) IN
         IF m.id \in Cancellers /\ signal[m.id] = "inFlight"
         THEN SignalSettles(m.id, IF m.ok THEN "acknowledged" ELSE "declined")
         ELSE UNCHANGED queueVars
    /\ UNCHANGED <<lifecycleVars, callVars, toWorker, portOpen, analysisVars>>

-----------------------------------------------------------------------------
(* Lifecycle steps.  The first shutdown closes the queue, posts a cancel   *)
(* when an analysis was active, then 'close'; an error or exit event of    *)
(* the worker also rejects every waitForWorkerCompletion.                  *)

SignalsFail ==
    /\ signal' = [c \in Cancellers |->
         IF signal[c] = "inFlight" THEN "failed" ELSE signal[c]]
    /\ cancellationResult' = [r \in Requests |->
         IF \E c \in Cancellers : cancellationResult[r] = c /\ signal[c] = "inFlight"
         THEN None ELSE cancellationResult[r]]
    /\ UNCHANGED <<answer, target>>

ShutdownMessages ==
    (IF active # None THEN <<[type |-> "cancel", id |-> "shutdown"]>> ELSE <<>>)
      \o <<[type |-> "close"]>>

ShutdownEffects ==
    IF shuttingDown' /\ ~shuttingDown
    THEN /\ CloseEntries
         /\ AnswerCalls
         /\ toWorker' = toWorker \o ShutdownMessages
    ELSE UNCHANGED <<active, pending, closed, entryState, outcome, reply, toWorker>>

LifecycleEvent ==
    /\ \/ AttachHandlers
       \/ Listen
       \/ StartupTimerFires
       \/ \E c \in LeaseCalls : Lease(c) \/ LeaseLost(c)
       \/ ScheduledShutdown
       \/ WorkerDies
       \/ WorkerTerminates
    /\ UNCHANGED transportCancelled
    /\ ShutdownEffects
    /\ UNCHANGED <<signalVars, written, fromWorker, portOpen,
                   analysisVars>>

\* Node delivers what the port still holds before it reports the exit.  After an
\* error every listener of the port is gone: what it still holds nobody reads.
WorkerEvent ==
    /\ WorkerErrorEvent \/ (fromWorker = <<>> /\ WorkerExitEvent)
    /\ fromWorker' = <<>>
    /\ UNCHANGED transportCancelled
    /\ ShutdownEffects
    /\ SignalsFail
    /\ UNCHANGED <<written, portOpen, analysisVars>>

-----------------------------------------------------------------------------
(* The worker thread                                                       *)

Working == worker = "up" /\ portOpen

Post(messages) == fromWorker' = fromWorker \o messages

Completion(r, ok) == [type |-> "complete", id |-> r, ok |-> ok]

\* analyzeProject sends events only when the request came with a channel.
EventMessages(r, body) ==
    IF r \in Streams THEN <<[type |-> "event", id |-> r, body |-> body]>> ELSE <<>>

Running(r) == step[r] \in {"between", "inFile"}

\* Mutant: one flag for all analyses, never reset.
StickyFlag == \E r \in Requests : cancelled[r]

IsAnalysisCancelled == analysisStatus # None /\ cancelled[analysisStatus]

Take(type) ==
    /\ Working
    /\ toWorker # <<>>
    /\ Head(toWorker).type = type
    /\ toWorker' = Tail(toWorker)

\* withAnalysisCancellation opens the scope before the first await.
BeginAnalysis ==
    /\ Take("analyze")
    /\ LET r == Head(toWorker).id IN
         /\ analysisStatus' = r
         /\ step' = [step EXCEPT ![r] = "between"]
    /\ UNCHANGED <<queueVars, lifecycleVars, callVars, fromWorker, portOpen, cancelled,
                   filesLeft>>

\* beginFilesystemCacheAnalysis rejects the request before any scope is opened.
RejectAnalysis ==
    /\ Take("analyze")
    /\ LET r == Head(toWorker).id IN
         /\ step' = [step EXCEPT ![r] = "done"]
         /\ Post(<<Completion(r, FALSE)>>)
    /\ UNCHANGED <<queueVars, lifecycleVars, callVars, portOpen, analysisStatus, cancelled,
                   filesLeft>>

\* Mutant: a cancellation that finds no analysis is not acknowledged.
CancelUnanswered ==
    /\ Take("cancel")
    /\ cancelled' = [r \in Requests |-> cancelled[r] \/ analysisStatus = r]
    /\ Post(IF analysisStatus = None THEN <<>>
            ELSE <<[type |-> "cancel-complete", id |-> Head(toWorker).id, ok |-> TRUE]>>)
    /\ UNCHANGED <<queueVars, lifecycleVars, callVars, portOpen, analysisStatus, step,
                   filesLeft>>

\* cancelAnalysis sets the flag of whatever analysis is under way.
HandleCancel ==
    /\ Take("cancel")
    /\ cancelled' = [r \in Requests |-> cancelled[r] \/ analysisStatus = r]
    /\ Post(<<[type |-> "cancel-complete", id |-> Head(toWorker).id,
               ok |-> analysisStatus # None]>>)
    /\ UNCHANGED <<queueVars, lifecycleVars, callVars, portOpen, analysisStatus, step,
                   filesLeft>>

HandleClose ==
    /\ Take("close")
    /\ portOpen' = FALSE
    /\ UNCHANGED <<queueVars, lifecycleVars, callVars, fromWorker, analysisVars>>

BeginFile(r) ==
    /\ Working
    /\ step[r] = "between"
    /\ filesLeft[r] > 0
    /\ ~IsAnalysisCancelled
    /\ step' = [step EXCEPT ![r] = "inFile"]
    /\ UNCHANGED <<queueVars, lifecycleVars, callVars, portVars, analysisStatus, cancelled,
                   filesLeft>>

\* analyzeFile ends: the file leaves pendingFiles and its result is sent.
EndFile(r) ==
    /\ Working
    /\ step[r] = "inFile"
    /\ step' = [step EXCEPT ![r] = "between"]
    /\ filesLeft' = [filesLeft EXCEPT ![r] = @ - 1]
    /\ Post(EventMessages(r, "file"))
    /\ UNCHANGED <<queueVars, lifecycleVars, callVars, toWorker, portOpen, analysisStatus,
                   cancelled>>

\* The end of the scope, of the handler and of the message, without an await
\* that returns to the event loop in between.
EndAnalysis(r, messages) ==
    /\ Working
    /\ step' = [step EXCEPT ![r] = "done"]
    /\ analysisStatus' = IF analysisStatus = r THEN None ELSE analysisStatus
    /\ Post(messages)
    /\ UNCHANGED <<queueVars, lifecycleVars, callVars, toWorker, portOpen, cancelled,
                   filesLeft>>

\* Mutant: the completion is posted before the last event.
FinishBeforeEvent(r) ==
    /\ step[r] = "between"
    /\ filesLeft[r] = 0 \/ IsAnalysisCancelled
    /\ EndAnalysis(r, <<Completion(r, TRUE)>> \o
                        EventMessages(r, IF IsAnalysisCancelled THEN "cancelled" ELSE "meta"))

\* Mutant: no check for a cancellation after the last file.
FinishUnchecked(r) ==
    /\ step[r] = "between"
    /\ filesLeft[r] = 0 \/ IsAnalysisCancelled
    /\ EndAnalysis(r, Append(EventMessages(r, IF filesLeft[r] = 0 THEN "meta" ELSE "cancelled"),
                             Completion(r, TRUE)))

FinishAnalysis(r) ==
    /\ step[r] = "between"
    /\ filesLeft[r] = 0 \/ IsAnalysisCancelled
    /\ EndAnalysis(r, Append(EventMessages(r, IF IsAnalysisCancelled THEN "cancelled" ELSE "meta"),
                             Completion(r, TRUE)))

\* An exception: normalisation, initialisation of the linters, a file.
FailAnalysis(r) ==
    /\ Running(r)
    /\ EndAnalysis(r, <<Completion(r, FALSE)>>)

-----------------------------------------------------------------------------
Receive == ReceiveEvent \/ ReceiveComplete \/ ReceiveCancelComplete

WorkerHandles == BeginAnalysis \/ RejectAnalysis \/ HandleCancel \/ HandleClose

Analyse(r) == BeginFile(r) \/ EndFile(r) \/ FinishAnalysis(r)

ServerNext ==
    \/ \E r \in Requests :
          \/ Submit(r)
          \/ SubmitCancelled(r)
          \/ TransportCancelled(r)
          \/ Analyse(r)
          \/ FailAnalysis(r)
    \/ \E c \in CancelCalls : CancelAnalysis(c)
    \/ \E c \in Cancellers : CancelTimesOut(c)
    \/ Receive
    \/ LifecycleEvent
    \/ WorkerEvent
    \/ WorkerHandles

ServerSpec == ServerInit /\ [][ServerNext]_serverVars

\* The main thread: its event loop delivers messages, fires timers and runs
\* immediates and lifecycle events.
MainFairness ==
    /\ WF_serverVars(Receive)
    /\ \A c \in Cancellers : WF_serverVars(CancelTimesOut(c))
    /\ WF_serverVars(LifecycleEvent /\ (AttachHandlers \/ Listen))
    /\ WF_serverVars(LifecycleEvent /\ (ScheduledShutdown \/ StartupTimerFires))
    /\ WF_serverVars(LifecycleEvent /\ WorkerTerminates)
    /\ WF_serverVars(WorkerEvent)

\* The worker: it returns to its event loop and its analysis gets on.  Without
\* this a file may take forever.
WorkerFairness ==
    /\ WF_serverVars(WorkerHandles)
    /\ WF_serverVars(\E r \in Requests : Analyse(r))

FairServerSpec == ServerSpec /\ MainFairness /\ WorkerFairness
StuckWorkerSpec == ServerSpec /\ MainFairness
-----------------------------------------------------------------------------
(* Safety *)

\* "A late or repeated cancellation from an older call cannot cancel its
\* successor" (docs/sonarlint-analyze-project-concurrency.md:116): the flag of an
\* analysis is only set by a signal sent for it, or by the server's shutdown.
\* The worker's 'cancel' message carries no identity of the analysis.
NoCrossCancellation ==
    \A r \in Requests : cancelled[r] => closed \/ \E c \in Cancellers : target[c] = r

\* A stream call that is answered OK received the results of its analysis and
\* nothing else: one terminal message, at the end; "meta" after all files, and
\* "cancelled" only if its cancellation was asked for.  Events travel over the
\* port, the answer comes from a promise.
StreamComplete ==
    \A r \in Streams : reply[r] = "ok" =>
      /\ written[r] # <<>>
      /\ \A i \in 1..Len(written[r]) - 1 : written[r][i] = "file"
      /\ \/ Last(written[r]) = "meta" /\ Len(written[r]) = Files + 1
         \/ Last(written[r]) = "cancelled" /\ \E c \in Cancellers : target[c] = r

\* An acknowledged cancellation is honoured: a stream that ends OK after the
\* worker confirmed the cancellation ends with "cancelled", even when the
\* acknowledgement overtakes or follows the completion.
AcknowledgedCancellationHonoured ==
    \A c \in Cancellers : signal[c] = "acknowledged" =>
      /\ cancelled[target[c]]
      /\ target[c] \in Streams /\ reply[target[c]] = "ok"
           => Last(written[target[c]]) = "cancelled"

\* A unary answer OK without a request for cancellation holds all files.
UnaryComplete ==
    \A r \in Requests \ Streams : reply[r] = "ok" =>
      filesLeft[r] = 0 \/ \E c \in Cancellers : target[c] = r

Has(port, type, id) == \E i \in DOMAIN port : port[i].type = type /\ port[i].id = id

Asked(r) == Has(toWorker, "analyze", r)
Ended(r) == Has(fromWorker, "complete", r)

\* From the posting of its message to the delivery of its completion.
UnderWay(r) == Asked(r) \/ Running(r) \/ Ended(r)

\* The active slot is only ever freed by the completion of its analysis or by
\* close, so it must not outlive the analysis: until the queue closes, the entry
\* that owns it is asked for, executed or about to be completed, whatever was
\* cancelled, rejected or thrown.  Otherwise it would block its successors for good.
ActiveEntryUnderWay == active # None => UnderWay(active)

\* A cancellation signal that the main thread waits for is on its way to the
\* worker or its acknowledgement is on its way back, also when the analysis ends
\* before the signal is handled, and when the worker fails.
SignalUnderWay ==
    \A c \in Cancellers : signal[c] = "inFlight" =>
      Has(toWorker, "cancel", c) \/ Has(fromWorker, "cancel-complete", c)

\* What the main thread waits for is never lost.
NothingIsLost == ActiveEntryUnderWay /\ SignalUnderWay

\* While the queue is open, a message is only written to the call whose analysis
\* owns the active slot, and never after its terminal answer.
WrittenWhileActive ==
    [][\A r \in Requests : written'[r] # written[r] =>
         closed \/ (active = r /\ reply[r] = "none")]_serverVars

-----------------------------------------------------------------------------
(* What a client sees of its stream                                        *)

EndOf(r) == IF reply[r] \in {"none", "ok", "cancelled"} THEN reply[r] ELSE "error"

Result(r) == INSTANCE ResultStream WITH sent <- written[r], ended <- EndOf(r)

\* Each stream call gets what the client assumes of it (ProjectStream), message by
\* message: one result per file, then the metadata, then OK; or a cancellation as
\* the last message, never as a status; and no message after OK.
StreamSpec ==
    /\ \A r \in Streams : Result(r)!Init
    /\ [][\A r \in Streams : [Result(r)!Next]_(Result(r)!vars)]_serverVars

-----------------------------------------------------------------------------
(* Liveness *)

\* Every admitted call is answered, or its client is gone; also when the worker
\* dies, the lease is lost, or cancellation signals time out.
EveryCallAnswered ==
    \A r \in Requests :
      entryState[r] # "none" ~> reply[r] # "none" \/ transportCancelled[r]

\* The queue outlives no worker: only one that died before anyone listened to it
\* (FragileStart) leaves it open.
NoUnheardExit == worker = "exited" => closed

\* Every CancelAnalysis call is answered, even by a worker that is stuck.  What is sent
\* to a worker whose exit nobody heard has only its timeout, which the end of the server
\* may forestall.
EveryCancelAnswered ==
    []NoUnheardExit => \A c \in CancelCalls : answer[c] # None ~> CancelAnswered(c)

\* "Worker failure or server shutdown closes the queue and rejects both active
\* and pending requests" (docs/sonarlint-analyze-project-concurrency.md:109).
WorkerFailureClosesQueue == worker # "up" ~> closed
=============================================================================
