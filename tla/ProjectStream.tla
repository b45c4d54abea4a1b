--------------------------- MODULE ProjectStream ---------------------------
(* The analysis itself, on top of BridgeServer: WebSensor sends one request *)
(* and consumes the stream of results, while a watcher thread polls whether *)
(* the SensorContext was cancelled (BridgeServerImpl.analyzeProject,        *)
(* WebSensor.AnalyzeProjectHandler).                                        *)
(*                                                                          *)
(* The server takes the steps of ResultStream, which AnalyzeProjectServer   *)
(* implements, or stays silent.  The request without files and one that     *)
(* cannot be built, which make no call, are left out.                       *)
EXTENDS BridgeServer, Sequences

CONSTANTS
    Calls,   \* call identifiers, used again when both sides forgot them
    NoCall,
    Files    \* how many results an analysis has

ASSUME CallsAssumption == NoCall \notin Calls
ASSUME FilesAssumption == Files \in Nat

VARIABLES
    call,        \* the call whose stream is consumed
    isCancelled, \* SensorContext.isCancelled, of this analysis
    aborted,     \* calls whose analyzeContext is cancelled
    watchers,    \* calls whose cancellation watcher still runs
    requested,   \* the call's response iterator exists: its request is out
    servedBy,    \* the process that works for each call
    sent,        \* the messages it has sent for this one, see ResultStream
    buffer,      \* messages received and not consumed
    terminal,    \* how the stream ended
    handled,     \* results processed without failure
    future,      \* handler.getFuture()
    outcome      \* how the last analysis ended

streamVars == <<call, isCancelled, aborted, watchers, requested, servedBy, sent, buffer, terminal,
                handled, future, outcome>>
vars == <<bridgeVars, streamVars>>

Messages == {"file", "badAst", "throws", "meta", "cancelled"}
Statuses == {"none", "OK", "INTERNAL", "UNAVAILABLE", "CANCELLED"}

TypeOK ==
    /\ BridgeTypeOK
    /\ call \in Calls \cup {NoCall}
    /\ isCancelled \in BOOLEAN
    /\ aborted \subseteq Calls
    /\ watchers \subseteq Calls
    /\ requested \in BOOLEAN
    /\ servedBy \in [Calls -> Nodes \cup {NoNode}]
    /\ sent \in Seq({"file", "meta", "cancelled"})
    /\ buffer \in Seq(Messages)
    /\ terminal \in Statuses
    /\ handled \in 0..Files
    /\ future \in {"open", "complete", "failed", "cancelled"}
    /\ outcome \in {"none", "done", "cancelled", "failed"}

Init ==
    /\ BridgeInit
    /\ call = NoCall
    /\ isCancelled = FALSE
    /\ aborted = {}
    /\ watchers = {}
    /\ requested = FALSE
    /\ servedBy = [c \in Calls |-> NoNode]
    /\ sent = <<>>
    /\ buffer = <<>>
    /\ terminal = "none"
    /\ handled = 0
    /\ future = "open"
    /\ outcome = "none"

Active == jvm /\ call # NoCall

-----------------------------------------------------------------------------
(* The analysis thread                                                      *)

\* analyzeProject starts the watcher, before it makes the call.
BeginCall(c) ==
    /\ jvm
    /\ sensor = "analysing"
    /\ call = NoCall
    /\ outcome = "none"
    /\ c \notin watchers
    /\ servedBy[c] = NoNode
    /\ call' = c
    /\ aborted' = aborted \ {c}
    /\ watchers' = watchers \cup {c}
    /\ UNCHANGED <<isCancelled, requested, servedBy, sent, buffer, terminal, handled, future, outcome,
                   bridgeVars>>

\* The stub returns the response iterator.  A call that is made in a cancelled
\* context reaches no server.
RequestGoesOut ==
    /\ Active
    /\ ~requested
    /\ requested' = TRUE
    /\ servedBy' = IF terminal = "none" THEN [servedBy EXCEPT ![call] = channel] ELSE servedBy
    /\ UNCHANGED <<call, isCancelled, aborted, watchers, sent, buffer, terminal, handled, future,
                   outcome, bridgeVars>>

\* analyzeContext.cancel: gRPC ends the call as CANCELLED, unless it has ended.
\* What was received before can still be consumed.
Abort ==
    /\ aborted' = aborted \cup {call}
    /\ terminal' = IF terminal = "none" THEN "CANCELLED" ELSE terminal

\* Mutant: the end of a call leaves its transport alone.
EndCallOnly(result) ==
    /\ outcome' = result
    /\ call' = NoCall
    /\ aborted' = aborted

\* The finally block: finished is set, the watcher interrupted, the call aborted.
EndCall(result) ==
    /\ outcome' = result
    /\ call' = NoCall
    /\ aborted' = aborted \cup {call}

\* The stub throws instead.  Its status is not looked at, as that of the stream is:
\* CANCELLED, of a context that the watcher has cancelled, is a failure too.
RequestFails ==
    /\ Active
    /\ ~requested
    /\ terminal' \in IF terminal = "none" THEN {"INTERNAL", "UNAVAILABLE"} ELSE {terminal}
    /\ EndCall("failed")
    /\ UNCHANGED <<isCancelled, watchers, requested, servedBy, sent, buffer, handled, future,
                   bridgeVars>>

\* The first completion of the future counts.
Complete(with) == future' = IF future = "open" THEN with ELSE future

\* handleMessage.  A result whose AST cannot be decoded and a cancelled message
\* only complete the future; an exception ends the call.
HandleMessage ==
    /\ Active
    /\ requested
    /\ buffer # <<>>
    /\ buffer' = Tail(buffer)
    /\ LET message == Head(buffer)
       IN  /\ handled' = IF message = "file" THEN handled + 1 ELSE handled
           /\ CASE message = "meta" -> Complete("complete")
                [] message = "cancelled" -> Complete("cancelled")
                [] message \in {"badAst", "throws"} -> Complete("failed")
                [] OTHER -> UNCHANGED future
           /\ IF message = "throws" THEN EndCall("failed")
              ELSE IF isCancelled THEN EndCall("cancelled")
              ELSE UNCHANGED <<outcome, call, aborted>>
    /\ UNCHANGED <<isCancelled, watchers, requested, servedBy, sent, terminal, bridgeVars>>

\* Mutant: a completed future counts as a success.
IsDone == IF future = "open" THEN "failed" ELSE "done"

\* ensureProjectAnalysisCompleted: join throws what the future was completed with.
EnsureCompleted ==
    CASE future = "complete" -> "done"
      [] future = "cancelled" -> "cancelled"
      [] OTHER -> "failed"

StatusOutcome == IF isCancelled /\ terminal = "CANCELLED" THEN "cancelled" ELSE "failed"

\* hasNext, when nothing is left to consume.
EndOfStream ==
    /\ Active
    /\ requested
    /\ buffer = <<>>
    /\ terminal # "none"
    /\ EndCall(IF terminal = "OK" THEN EnsureCompleted ELSE StatusOutcome)
    /\ UNCHANGED <<isCancelled, watchers, requested, servedBy, sent, buffer, terminal, handled,
                   future, bridgeVars>>

\* execute returns or throws; the handler and its future are garbage.
EndAnalysis ==
    /\ jvm
    /\ outcome # "none"
    /\ outcome' = "none"
    /\ sensor' = "idle"
    /\ isCancelled' = FALSE
    /\ requested' = FALSE
    /\ sent' = <<>>
    /\ buffer' = <<>>
    /\ terminal' = "none"
    /\ handled' = 0
    /\ future' = "open"
    /\ UNCHANGED <<call, aborted, watchers, servedBy, jvm, status, nodeCommand, channel, ready,
                   leaseVars, everOk, procVars>>

-----------------------------------------------------------------------------
(* The watcher, and who cancels                                             *)

\* Mutant: the watcher looks once, when it starts.
WatcherLooksOnce(c) ==
    /\ jvm
    /\ c \in watchers
    /\ watchers' = watchers \ {c}
    /\ IF c = call /\ isCancelled /\ sent = <<>> THEN Abort ELSE UNCHANGED <<aborted, terminal>>
    /\ UNCHANGED <<call, isCancelled, requested, servedBy, sent, buffer, handled, future, outcome,
                   bridgeVars>>

\* A poll that finds the call finished, or cancelled, is the last.
WatcherPolls(c) ==
    /\ jvm
    /\ c \in watchers
    /\ c # call \/ isCancelled
    /\ watchers' = watchers \ {c}
    /\ IF c = call THEN Abort ELSE UNCHANGED <<aborted, terminal>>
    /\ UNCHANGED <<call, isCancelled, requested, servedBy, sent, buffer, handled, future, outcome,
                   bridgeVars>>

\* At any time of the analysis, also before its call.
UserCancels ==
    /\ jvm
    /\ sensor = "analysing"
    /\ outcome = "none"
    /\ ~isCancelled
    /\ isCancelled' = TRUE
    /\ UNCHANGED <<call, aborted, watchers, requested, servedBy, sent, buffer, terminal, handled,
                   future, outcome, bridgeVars>>

-----------------------------------------------------------------------------
(* The server                                                               *)

Serves ==
    /\ Active
    /\ terminal = "none"
    /\ servedBy[call] # NoNode
    /\ proc[servedBy[call]] = "listening"

SendsMessage(message) ==
    /\ buffer' = Append(buffer, message)
    /\ UNCHANGED <<call, isCancelled, aborted, watchers, requested, servedBy, terminal, handled,
                   future, outcome, bridgeVars>>

StreamEnd ==
    CASE terminal = "none" -> "none"
      [] terminal = "OK" -> "ok"
      [] OTHER -> "error"

Served == INSTANCE ResultStream WITH ended <- StreamEnd

ServerSends ==
    /\ Serves
    /\ \/ \E message \in {"file", "badAst", "throws"} : SendsMessage(message) /\ Served!SendResult
       \/ SendsMessage("meta") /\ Served!SendMetadata

\* Cancelled on the server's side, by CancelAnalysis or its shutdown.
ServerCancels ==
    /\ Serves
    /\ SendsMessage("cancelled")
    /\ Served!SendCancelled

ServerEnds ==
    /\ Serves
    /\ terminal' \in {"OK", "INTERNAL"}
    /\ Served!EndOk \/ Served!EndError
    /\ servedBy' = [servedBy EXCEPT ![call] = NoNode]
    /\ UNCHANGED <<call, isCancelled, aborted, watchers, requested, buffer, handled, future,
                   outcome, bridgeVars>>

\* The transport reports that the process is gone.
StreamBreaks ==
    /\ Active
    /\ requested
    /\ terminal = "none"
    /\ ~Running(channel)
    /\ terminal' = "UNAVAILABLE"
    /\ UNCHANGED <<call, isCancelled, aborted, watchers, requested, servedBy, sent, buffer, handled,
                   future, outcome, bridgeVars>>

\* The process learns that the client has gone, or dies itself.
ServerStops(c) ==
    /\ servedBy[c] # NoNode
    /\ \/ ~Running(servedBy[c])
       \/ c \in aborted
       \/ ~jvm
       \/ channel # servedBy[c]
    /\ servedBy' = [servedBy EXCEPT ![c] = NoNode]
    /\ UNCHANGED <<call, isCancelled, aborted, watchers, requested, sent, buffer, terminal, handled,
                   future, outcome, bridgeVars>>

-----------------------------------------------------------------------------
(* The composition                                                          *)

JavaThread ==
    \/ AlreadyAlive \/ NoticeFailure \/ (\E n \in Nodes : StartServer(n))
    \/ WaitForBoundPort \/ TakeLease \/ ServerStarts \/ ServerUnreachable
    \/ Clean \/ Cleaned

Surroundings ==
    \/ JvmDies \/ ChannelConnects \/ ChannelBreaks
    \/ \E n \in Nodes : \/ LeaseArrives(n) \/ LeaseEnds(n)
                        \/ NodeListens(n) \/ NodeCrashes(n)
                        \/ NodeLosesLease(n) \/ NodeTimesOut(n)

Bridge == (JavaThread \/ Surroundings) /\ UNCHANGED streamVars

Stream ==
    \/ \E c \in Calls : BeginCall(c) \/ WatcherPolls(c) \/ ServerStops(c)
    \/ RequestGoesOut \/ RequestFails \/ HandleMessage \/ EndOfStream \/ EndAnalysis
    \/ UserCancels
    \/ ServerSends \/ ServerCancels \/ ServerEnds \/ StreamBreaks

Next == Bridge \/ Stream

Spec == Init /\ [][Next]_vars

\* The analysis thread runs, and analyses keep being asked.
JavaFairness ==
    /\ WF_bridgeVars(AlreadyAlive \/ NoticeFailure \/ \E n \in Nodes : StartServer(n))
    /\ WF_bridgeVars(WaitForBoundPort \/ TakeLease \/ ServerStarts
                       \/ ServerUnreachable \/ Cleaned)
    /\ WF_vars(\E c \in Calls : BeginCall(c))
    /\ WF_vars(RequestGoesOut \/ RequestFails \/ HandleMessage \/ EndOfStream \/ EndAnalysis)
    /\ \A c \in Calls : WF_vars(WatcherPolls(c))

\* gRPC reports what happens to connections and calls; processes start up, and
\* react to the loss of a lease and to their timer.  Nothing is assumed of a
\* server's answer.
RuntimeFairness ==
    /\ WF_bridgeVars(ChannelConnects \/ ChannelBreaks)
    /\ WF_vars(StreamBreaks)
    /\ \A c \in Calls : WF_vars(ServerStops(c))
    /\ \A n \in Nodes : /\ WF_bridgeVars(LeaseArrives(n))
                        /\ WF_bridgeVars(LeaseEnds(n))
                        /\ WF_bridgeVars(NodeListens(n))
                        /\ WF_bridgeVars(NodeLosesLease(n) \/ NodeTimesOut(n))

FairSpec == Spec /\ JavaFairness /\ RuntimeFairness

-----------------------------------------------------------------------------
(* Properties                                                               *)

\* An analysis begins only on a server whose lease this JVM holds, or has asked
\* for: the server will not stop under it for want of a lease.
AnalysisBeginsLeased ==
    [][sensor # "analysing" /\ sensor' = "analysing"
         => leaseObserver = channel /\ leaseCalls[channel] > 0]_vars

\* An analysis that succeeds has processed every result and seen the metadata;
\* one that is only cancelled is not reported as failed, unless the cancellation
\* came while the request was made.
OutcomeIsTrue ==
    /\ outcome = "done" => handled = Files /\ future = "complete"
    /\ outcome = "failed" =>
         \/ terminal \in {"INTERNAL", "UNAVAILABLE"}
         \/ future = "failed"
         \/ terminal = "CANCELLED" /\ ~requested

\* The same without the exception: a call whose context was cancelled is a cancelled
\* analysis.  "It can misreport cancellation as an unresponsive bridge"
\* (docs/sonarlint-analyze-project-concurrency.md:171).
CancelIsNotFailure == outcome = "failed" /\ terminal = "CANCELLED" => future = "failed"

\* A call can be stopped for as long as anything works for it: the stream that is
\* consumed is watched until it has ended, and a process that serves a call which
\* is over was told so, although identifiers, watchers and processes outlive calls.
NoUnattendedCall ==
    /\ call # NoCall => call \in watchers \/ terminal # "none"
    /\ \A c \in Calls : servedBy[c] # NoNode => c = call \/ c \in aborted

\* Cancelling the SensorContext ends the analysis, even when the server is silent.
CancelEndsCall ==
    \A c \in Calls : call = c /\ isCancelled ~> call # c \/ ~jvm

\* Of a call that is over, however it ended, nothing remains: its watcher ends
\* and the server stops working for it.
EndedCallLeavesNothing ==
    \A c \in Calls : call # c \/ ~jvm ~> servedBy[c] = NoNode /\ (c \notin watchers \/ ~jvm)

\* A process that no JVM refers to any more stops.
UnownedProcessStops ==
    \A n \in Nodes : Running(n) /\ (~jvm \/ n \notin {nodeCommand, channel}) ~> ~Running(n)

\* Once a server has been up, the analyses that are asked get one again, however
\* often it has died: a failed server is replaced.
ServerComesBack == everOk ~> sensor = "analysing" \/ ~jvm

=============================================================================
