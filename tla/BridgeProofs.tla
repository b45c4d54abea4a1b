---------------------------- MODULE BridgeProofs ----------------------------
(* Proofs about ProjectStream over BridgeServer, for every set of          *)
(* processes and calls and any number of incidents.                        *)
EXTENDS ProjectStream, SequenceTheorems, TLAPS

LeaseTypes ==
    /\ channel \in Nodes \cup {NoNode}
    /\ leaseObserver \in Nodes \cup {NoNode}
    /\ leaseTerminated \in BOOLEAN
    /\ leaseCalls \in [Nodes -> Nat]
    /\ nodeCommand \in Nodes \cup {NoNode}

\* An observer belongs to the open channel, and to a call not reported yet: the
\* channel is never closed, and no call is ended, under an observer.
ObserverOfChannel ==
    leaseObserver # NoNode => leaseObserver = channel /\ leaseCalls[channel] > 0

\* A start that asked for the lease has an observer until the call is reported.
LeasingHasObserver == sensor = "leasing" => leaseObserver # NoNode \/ leaseTerminated

ReadyChannel == ready => channel # NoNode

\* Inductive: LeasingHasObserver is what ServerStarts relies on, ObserverOfChannel
\* what isAlive() does.
LeaseInv == LeaseTypes /\ ObserverOfChannel /\ LeasingHasObserver /\ ReadyChannel

\* A process that is started was waited for, or found at the channel.
StartHasProcess == sensor = "waitForBoundPort" => nodeCommand \in Nodes

LEMMA LeaseInvInit == Init => LeaseInv /\ StartHasProcess
<1> SUFFICES ASSUME Init PROVE LeaseInv /\ StartHasProcess
  OBVIOUS
<1>1. channel = NoNode /\ leaseObserver = NoNode /\ nodeCommand = NoNode /\ sensor = "idle"
  BY DEF Init, BridgeInit
<1>2. leaseTerminated = FALSE /\ ready = FALSE
  BY DEF Init, BridgeInit
<1>3. leaseCalls \in [Nodes -> Nat]
  BY DEF Init, BridgeInit
<1> QED
  BY <1>1, <1>2, <1>3 DEF LeaseInv, LeaseTypes, ObserverOfChannel, LeasingHasObserver,
     ReadyChannel, StartHasProcess

\* What a step that leaves the lease and the channel alone must still respect.
LEMMA LeaseUntouched ==
    ASSUME LeaseInv, UNCHANGED <<channel, leaseVars>>, nodeCommand' \in Nodes \cup {NoNode},
           sensor' = "leasing" => sensor = "leasing",
           ready' => channel # NoNode
    PROVE  LeaseInv'
BY DEF LeaseInv, LeaseTypes, ObserverOfChannel, LeasingHasObserver, ReadyChannel, leaseVars

LEMMA ClosingKeepsLeaseInv ==
    ASSUME LeaseInv, CloseChannel, leaseCalls' = leaseCalls,
           nodeCommand' \in Nodes \cup {NoNode}, sensor' # "leasing"
    PROVE  LeaseInv'
<1>1. leaseObserver' = NoNode
  BY DEF LeaseInv, LeaseTypes, ObserverOfChannel, CloseChannel
<1>2. LeaseTypes'
  BY DEF LeaseInv, LeaseTypes, CloseChannel
<1> QED
  BY <1>1, <1>2 DEF LeaseInv, ObserverOfChannel, LeasingHasObserver, ReadyChannel, CloseChannel

LEMMA StartupFailureKeepsLeaseInv == LeaseInv /\ StartupFailure => LeaseInv'
<1> SUFFICES ASSUME LeaseInv, StartupFailure PROVE LeaseInv'
  OBVIOUS
<1>1. CloseChannel /\ leaseCalls' = leaseCalls /\ nodeCommand' = NoNode /\ sensor' = "idle"
  BY DEF StartupFailure
<1> QED
  BY <1>1, ClosingKeepsLeaseInv

LEMMA JavaKeepsLeaseInv == LeaseInv /\ StartHasProcess /\ JavaThread => LeaseInv'
<1> SUFFICES ASSUME LeaseInv, StartHasProcess, JavaThread PROVE LeaseInv'
  OBVIOUS
<1> USE NoNodeAssumption
<1>1. CASE AlreadyAlive
  BY <1>1, LeaseUntouched DEF AlreadyAlive, LeaseInv, LeaseTypes, ReadyChannel
<1>2. CASE NoticeFailure
  BY <1>2, LeaseUntouched DEF NoticeFailure, LeaseInv, LeaseTypes, ReadyChannel
<1>3. CASE \E n \in Nodes : StartServer(n)
  BY <1>3, LeaseUntouched DEF StartServer, LeaseInv, LeaseTypes, ReadyChannel
<1>4. CASE WaitForBoundPort
  <2>1. CASE StartupFailure
    BY <2>1, StartupFailureKeepsLeaseInv
  <2>2. CASE OpenChannel /\ sensor' = "waitServerToStart"
             /\ UNCHANGED <<nodeCommand, leaseVars>>
    <3>1. nodeCommand \in Nodes
      BY <1>4 DEF WaitForBoundPort, StartHasProcess
    <3>2. CASE channel # NoNode
      BY <2>2, <3>2, LeaseUntouched DEF OpenChannel, LeaseInv, LeaseTypes, ReadyChannel
    <3>3. CASE channel = NoNode
      <4>1. leaseObserver = NoNode
        BY <3>3 DEF LeaseInv, LeaseTypes, ObserverOfChannel
      <4>2. channel' = nodeCommand /\ ready' = FALSE
        BY <2>2, <3>3 DEF OpenChannel
      <4> QED
        BY <2>2, <3>1, <4>1, <4>2 DEF LeaseInv, LeaseTypes, ObserverOfChannel,
           LeasingHasObserver, ReadyChannel, leaseVars
    <3> QED
      BY <3>2, <3>3
  <2> QED
    BY <1>4, <2>1, <2>2 DEF WaitForBoundPort
<1>5. CASE TakeLease
  <2>1. CASE Running(nodeCommand)
    <3>1. StartLease /\ sensor' = "leasing" /\ UNCHANGED <<nodeCommand, channel, ready>>
      BY <1>5, <2>1 DEF TakeLease
    <3>2. channel \in Nodes /\ ready
      BY <1>5 DEF TakeLease, LeaseInv, LeaseTypes, ReadyChannel
    <3>3. CASE leaseObserver # NoNode
      BY <3>1, <3>2, <3>3 DEF StartLease, LeaseInv, LeaseTypes, ObserverOfChannel,
         LeasingHasObserver, ReadyChannel, leaseVars
    <3>4. CASE leaseObserver = NoNode
      <4>1. /\ leaseObserver' = channel
            /\ leaseTerminated' = FALSE
            /\ leaseCalls' = [leaseCalls EXCEPT ![channel] = @ + 1]
        BY <3>1, <3>4 DEF StartLease
      <4>2. leaseCalls' \in [Nodes -> Nat] /\ leaseCalls'[channel] > 0
        BY <3>2, <4>1 DEF LeaseInv, LeaseTypes
      <4>3. LeaseTypes'
        BY <3>1, <4>1, <4>2 DEF LeaseInv, LeaseTypes
      <4>4. ObserverOfChannel' /\ LeasingHasObserver' /\ ReadyChannel'
        BY <3>1, <3>2, <4>1, <4>2, NoNodeAssumption DEF ObserverOfChannel, LeasingHasObserver,
           ReadyChannel
      <4> QED
        BY <4>3, <4>4 DEF LeaseInv
    <3> QED
      BY <3>3, <3>4
  <2>2. CASE ~Running(nodeCommand)
    BY <1>5, <2>2, ClosingKeepsLeaseInv DEF TakeLease
  <2> QED
    BY <2>1, <2>2
<1>6. CASE ServerStarts
  <2>1. CASE StartupFailure
    BY <2>1, StartupFailureKeepsLeaseInv
  <2>2. CASE sensor' = "analysing" /\ UNCHANGED <<nodeCommand, channel, ready, leaseVars>>
    BY <2>2, LeaseUntouched DEF LeaseInv, LeaseTypes, ReadyChannel
  <2> QED
    BY <1>6, <2>1, <2>2 DEF ServerStarts
<1>7. CASE ServerUnreachable
  BY <1>7, StartupFailureKeepsLeaseInv DEF ServerUnreachable
<1>8. CASE Clean
  BY <1>8 DEF Clean, LeaseInv, LeaseTypes, ObserverOfChannel, LeasingHasObserver, ReadyChannel
<1>9. CASE Cleaned
  BY <1>9, LeaseUntouched DEF Cleaned, LeaseInv, LeaseTypes, ReadyChannel
<1> QED
  BY <1>1, <1>2, <1>3, <1>4, <1>5, <1>6, <1>7, <1>8, <1>9 DEF JavaThread

LEMMA SurroundingsKeepLeaseInv == LeaseInv /\ Surroundings => LeaseInv'
<1> SUFFICES ASSUME LeaseInv, Surroundings PROVE LeaseInv'
  OBVIOUS
<1>1. CASE JvmDies
  BY <1>1, LeaseUntouched DEF JvmDies, LeaseInv, LeaseTypes, ReadyChannel
<1>2. CASE ChannelConnects \/ ChannelBreaks
  BY <1>2, LeaseUntouched DEF ChannelConnects, ChannelBreaks, LeaseInv, LeaseTypes, ReadyChannel
<1>3. ASSUME NEW n \in Nodes, LeaseEnds(n) PROVE LeaseInv'
  <2>1. leaseObserver' = NoNode /\ leaseTerminated' = TRUE
    BY <1>3 DEF LeaseEnds, OnLeaseTerminated
  <2>2. leaseCalls' \in [Nodes -> Nat]
    BY <1>3 DEF LeaseEnds, LeaseOver, LeaseInv, LeaseTypes
  <2> QED
    BY <1>3, <2>1, <2>2 DEF LeaseEnds, LeaseInv, LeaseTypes, ObserverOfChannel,
       LeasingHasObserver, ReadyChannel
<1>4. ASSUME NEW n \in Nodes, LeaseArrives(n) PROVE LeaseInv'
  BY <1>4, LeaseUntouched DEF LeaseArrives, LeaseInv, LeaseTypes, ReadyChannel
<1>5. ASSUME NEW n \in Nodes,
             NodeListens(n) \/ NodeCrashes(n) \/ NodeLosesLease(n) \/ NodeTimesOut(n)
      PROVE  LeaseInv'
  BY <1>5, LeaseUntouched DEF NodeListens, NodeCrashes, NodeLosesLease, NodeTimesOut, LeaseInv,
     LeaseTypes, ReadyChannel
<1> QED
  BY <1>1, <1>2, <1>3, <1>4, <1>5 DEF Surroundings

\* The steps of the stream leave the lease alone and never lead to "leasing".
LEMMA StreamKeepsLeaseInv == LeaseInv /\ Stream => LeaseInv'
<1> SUFFICES ASSUME LeaseInv, Stream PROVE LeaseInv'
  OBVIOUS
<1>1. /\ UNCHANGED <<channel, leaseVars, nodeCommand, ready>>
      /\ sensor' \in {sensor, "idle"}
  BY DEF Stream, BeginCall, RequestGoesOut, RequestFails, EndCall, WatcherPolls, ServerStops, HandleMessage, EndOfStream, EndAnalysis,
     UserCancels, ServerSends, ServerCancels, ServerEnds, StreamBreaks, SendsMessage, bridgeVars
<1> QED
  BY <1>1, LeaseUntouched DEF LeaseInv, LeaseTypes, ReadyChannel

\* Only the analysis thread changes nodeCommand, and it waits for the port of the
\* process it has just started.
LEMMA StartHasProcessStep == StartHasProcess /\ [Next]_vars => StartHasProcess'
<1> SUFFICES ASSUME StartHasProcess, [Next]_vars PROVE StartHasProcess'
  OBVIOUS
<1>1. CASE JavaThread
  BY <1>1 DEF JavaThread, AlreadyAlive, NoticeFailure, StartServer, WaitForBoundPort, TakeLease,
     ServerStarts, ServerUnreachable, StartupFailure, Clean, Cleaned, StartHasProcess
<1>2. CASE Surroundings
  BY <1>2 DEF Surroundings, JvmDies, ChannelConnects, ChannelBreaks, LeaseArrives, LeaseEnds,
     NodeListens, NodeCrashes, NodeLosesLease, NodeTimesOut, StartHasProcess
<1>3. CASE Stream
  BY <1>3 DEF Stream, BeginCall, RequestGoesOut, RequestFails, EndCall, WatcherPolls, ServerStops, HandleMessage, EndOfStream,
     EndAnalysis, UserCancels, ServerSends, ServerCancels, ServerEnds, StreamBreaks,
     SendsMessage, bridgeVars, StartHasProcess
<1>4. CASE UNCHANGED vars
  BY <1>4 DEF vars, bridgeVars, StartHasProcess
<1> QED
  BY <1>1, <1>2, <1>3, <1>4 DEF Next, Bridge

LEMMA LeaseInvStep == LeaseInv /\ StartHasProcess /\ [Next]_vars => LeaseInv'
<1>1. ASSUME LeaseInv, UNCHANGED vars PROVE LeaseInv'
  BY <1>1, LeaseUntouched DEF vars, bridgeVars, leaseVars, LeaseInv, LeaseTypes, ReadyChannel
<1> QED
  BY <1>1, JavaKeepsLeaseInv, SurroundingsKeepLeaseInv, StreamKeepsLeaseInv DEF Next, Bridge

\* The observer that startLease sets belongs to the open channel as long as it is
\* set, although gRPC reports the ends of older leases at any time.
THEOREM LeaseInvCorrect == Spec => [](LeaseInv /\ StartHasProcess)
<1>1. LeaseInv /\ StartHasProcess /\ [Next]_vars => (LeaseInv /\ StartHasProcess)'
  BY LeaseInvStep, StartHasProcessStep
<1> QED
  BY LeaseInvInit, <1>1, PTL DEF Spec

\* An analysis begins only on a server whose lease is held or asked for: neither
\* isAlive() nor a start lets it begin on another.
THEOREM AnalysisBeginsLeasedCorrect == Spec => AnalysisBeginsLeased
<1> DEFINE Begins == sensor # "analysing" /\ sensor' = "analysing"
           Leased == leaseObserver = channel /\ leaseCalls[channel] > 0
<1>1. LeaseInv /\ [Next]_vars => (Begins => Leased)
  <2> SUFFICES ASSUME LeaseInv, [Next]_vars, Begins PROVE Leased
    OBVIOUS
  <2>1. CASE AlreadyAlive
    BY <2>1 DEF AlreadyAlive, IsAlive, LeaseInv, ObserverOfChannel
  <2>2. CASE ServerStarts
    BY <2>2 DEF ServerStarts, StartupFailure, LeaseInv, LeasingHasObserver, ObserverOfChannel
  <2>3. CASE JavaThread /\ ~AlreadyAlive /\ ~ServerStarts
    BY <2>3 DEF JavaThread, NoticeFailure, StartServer, WaitForBoundPort, TakeLease,
       ServerUnreachable, StartupFailure, Clean, Cleaned
  <2>4. CASE Surroundings
    BY <2>4 DEF Surroundings, JvmDies, ChannelConnects, ChannelBreaks, LeaseArrives, LeaseEnds,
       NodeListens, NodeCrashes, NodeLosesLease, NodeTimesOut
  <2>5. CASE Stream
    BY <2>5 DEF Stream, BeginCall, RequestGoesOut, RequestFails, EndCall, WatcherPolls, ServerStops, HandleMessage, EndOfStream,
       EndAnalysis, UserCancels, ServerSends, ServerCancels, ServerEnds, StreamBreaks,
       SendsMessage, bridgeVars
  <2>6. CASE UNCHANGED vars
    BY <2>6 DEF vars, bridgeVars
  <2> QED
    BY <2>1, <2>2, <2>3, <2>4, <2>5, <2>6 DEF Next, Bridge
<1> QED
  BY LeaseInvCorrect, <1>1, PTL DEF Spec, AnalysisBeginsLeased

-----------------------------------------------------------------------------
(* How an analysis ends, for any number of results                         *)

FileMessages == {"file", "badAst", "throws"}

\* The server has sent that it cancelled.
Cut == \E i \in DOMAIN sent : sent[i] = "cancelled"

\* How far the server has come: as many results, Files + 1 with the metadata,
\* Files + 2 when it was cancelled.
Count == IF Cut THEN Files + 2 ELSE Len(sent)

\* The messages are those of ResultStream: the metadata follows all results, and
\* nothing the metadata or a cancellation.
SentInOrder ==
    /\ sent \in Seq({"file", "meta", "cancelled"})
    /\ Served!ResultsOnly => Len(sent) <= Files
    /\ ~Served!ResultsOnly /\ ~Cut => Len(sent) = Files + 1

\* What ends the results: the metadata, or that the server cancelled.
LastMessage == IF Count = Files + 1 THEN "meta" ELSE "cancelled"

MessageTypes ==
    /\ Count \in Nat /\ handled \in Nat
    /\ buffer \in Seq(Messages)
    /\ Count <= Files + 2
    /\ future \in {"open", "complete", "failed", "cancelled"}

\* The last message comes after all others, and is received once it was sent.
LastMessageIsLast ==
    \A i \in 1..Len(buffer) :
         IF i = Len(buffer) /\ Count > Files THEN buffer[i] = LastMessage
         ELSE buffer[i] \in FileMessages

\* Until the last message is consumed the future is open, and then all that was sent
\* was processed or is in the buffer, unless a result has failed.
BeforeLastMessage ==
    Count <= Files \/ buffer # <<>> =>
      /\ future \in {"open", "failed"}
      /\ future = "open" /\ Count <= Files + 1 => handled + Len(buffer) = Count

AfterLastMessage ==
    Count > Files /\ buffer = <<>> =>
      /\ future \in {"failed", IF Count = Files + 1 THEN "complete" ELSE "cancelled"}
      /\ future = "complete" => handled = Files

\* The stream ends as OK after its last message only, as CANCELLED only when the
\* SensorContext was, and nothing of it moves after the call has ended.
EndOfCall ==
    /\ terminal = "OK" => Count > Files
    /\ terminal \in Statuses
    /\ terminal = "CANCELLED" => isCancelled
    /\ outcome # "none" => call = NoCall

ServedCalls == servedBy = [c \in Calls |-> servedBy[c]]

\* Before its request is out nothing works for a call, and nothing but the watcher
\* can end it.
RequestFirst ==
    /\ ServedCalls
    /\ call \in Calls \cup {NoCall}
    /\ call = NoCall /\ outcome = "none" => terminal = "none"
    /\ call # NoCall /\ ~requested => servedBy[call] = NoNode /\ terminal \in {"none", "CANCELLED"}

MessagesInOrder ==
    SentInOrder /\ MessageTypes /\ LastMessageIsLast /\ BeforeLastMessage /\ AfterLastMessage

LEMMA CountTells ==
    ASSUME SentInOrder
    PROVE  /\ Count \in Nat /\ Count <= Files + 2
           /\ Served!ResultsOnly <=> Count <= Files
           /\ Served!ResultsOnly => Count = Len(sent)
<1>1. Len(sent) \in Nat
  BY LenProperties DEF SentInOrder
<1>2. Served!ResultsOnly => ~Cut
  BY DEF Cut, Served!ResultsOnly
<1>3. CASE Cut
  BY <1>2, <1>3, FilesAssumption DEF Count
<1>4. CASE ~Cut /\ Served!ResultsOnly
  BY <1>1, <1>4, FilesAssumption DEF Count, SentInOrder
<1>5. CASE ~Cut /\ ~Served!ResultsOnly
  BY <1>1, <1>5, FilesAssumption DEF Count, SentInOrder
<1> QED
  BY <1>3, <1>4, <1>5

LEMMA NothingSent == sent = <<>> => SentInOrder /\ Count = 0
<1> SUFFICES ASSUME sent = <<>> PROVE SentInOrder /\ Count = 0
  OBVIOUS
<1>1. sent \in Seq({"file", "meta", "cancelled"}) /\ Len(sent) = 0 /\ DOMAIN sent = {}
  OBVIOUS
<1> QED
  BY <1>1, FilesAssumption DEF SentInOrder, Count, Cut, Served!ResultsOnly

\* A message of the server moves Count as the message says.
LEMMA SendingCounts ==
    ASSUME SentInOrder, Served!ResultsOnly,
           NEW body \in {"file", "meta", "cancelled"}, sent' = Append(sent, body),
           body = "file" => Len(sent) < Files,
           body = "meta" => Len(sent) = Files
    PROVE  /\ SentInOrder'
           /\ Count' = IF body = "cancelled" THEN Files + 2 ELSE Count + 1
<1> DEFINE length == Len(sent)
<1>1. /\ sent' \in Seq({"file", "meta", "cancelled"})
      /\ length \in Nat /\ Len(sent') = length + 1
      /\ DOMAIN sent = 1..length /\ DOMAIN sent' = 1..length + 1
      /\ \A i \in 1..length : sent'[i] = sent[i]
      /\ sent'[length + 1] = body
  BY AppendProperties, LenProperties DEF SentInOrder
<1>2. \A i \in 1..length : sent[i] = "file"
  BY <1>1 DEF Served!ResultsOnly
<1>3. Cut' <=> body = "cancelled"
  <2>1. length + 1 \in 1..length + 1
    BY <1>1
  <2> QED
    BY <1>1, <1>2, <2>1 DEF Cut
<1>4. Served!ResultsOnly' <=> body = "file"
  <2>1. length + 1 \in 1..length + 1
    BY <1>1
  <2> QED
    BY <1>1, <1>2, <2>1 DEF Served!ResultsOnly
<1>5. Count = length
  BY CountTells
<1> HIDE DEF length
<1>6. Count' = IF body = "cancelled" THEN Files + 2 ELSE Count + 1
  BY <1>1, <1>3, <1>5 DEF Count
<1>7. SentInOrder'
  <2>1. body \in {"file", "meta", "cancelled"}
    OBVIOUS
  <2>2. Served!ResultsOnly' => length < Files
    BY <1>4 DEF length
  <2>3. ~Served!ResultsOnly' /\ ~Cut' => length = Files
    BY <1>3, <1>4, <2>1 DEF length
  <2> QED
    BY <1>1, <2>2, <2>3, FilesAssumption DEF SentInOrder
<1> QED
  BY <1>6, <1>7

\* Inductive: what EndOfStream concludes from the future is true because of the order
\* of the messages.
OutcomeInv == MessagesInOrder /\ EndOfCall /\ OutcomeIsTrue

LEMMA OutcomeInvInit == Init => RequestFirst /\ OutcomeInv
<1> SUFFICES ASSUME Init PROVE RequestFirst /\ OutcomeInv
  OBVIOUS
<1>1. /\ sent = <<>> /\ handled = 0 /\ buffer = <<>> /\ future = "open"
      /\ terminal = "none" /\ outcome = "none"
  BY DEF Init
<1>2. MessagesInOrder
  BY <1>1, NothingSent, FilesAssumption DEF MessagesInOrder, MessageTypes, LastMessageIsLast,
     BeforeLastMessage, AfterLastMessage
<1>3. RequestFirst
  BY DEF Init, RequestFirst, ServedCalls
<1> QED
  BY <1>1, <1>2, <1>3 DEF OutcomeInv, EndOfCall, OutcomeIsTrue, Statuses

\* A step that neither sends nor consumes a message.
LEMMA OrderKept ==
    ASSUME MessagesInOrder, UNCHANGED <<sent, buffer, handled, future>>
    PROVE  MessagesInOrder'
<1>1. Count' = Count /\ SentInOrder'
  BY DEF Count, Cut, MessagesInOrder, SentInOrder, Served!ResultsOnly
<1> QED
  BY <1>1 DEF MessagesInOrder, MessageTypes, LastMessageIsLast, LastMessage, BeforeLastMessage,
     AfterLastMessage

\* A message is sent: the buffer grows at its end.
LEMMA SendingKeepsOrder ==
    ASSUME MessagesInOrder, NEW message \in Messages,
           Count < Files + 1,
           buffer' = Append(buffer, message),
           \/ Count' = Count + 1 /\ message \in (IF Count < Files THEN FileMessages ELSE {"meta"})
           \/ Count' = Files + 2 /\ message = "cancelled",
           SentInOrder',
           UNCHANGED <<handled, future>>
    PROVE  MessagesInOrder'
<1> USE FilesAssumption
<1>1. /\ buffer' \in Seq(Messages)
      /\ Len(buffer') = Len(buffer) + 1
      /\ \A i \in 1..Len(buffer) : buffer'[i] = buffer[i]
      /\ buffer'[Len(buffer) + 1] = message
      /\ buffer' # <<>>
      /\ Len(buffer) \in Nat
  BY DEF MessagesInOrder, MessageTypes
<1>2. Count \in Nat /\ Count <= Files
  BY DEF MessagesInOrder, MessageTypes
<1>3. MessageTypes'
  BY <1>1, <1>2 DEF MessagesInOrder, MessageTypes
<1>4. LastMessageIsLast'
  <2> SUFFICES ASSUME NEW i \in 1..Len(buffer')
               PROVE  IF i = Len(buffer') /\ Count' > Files THEN buffer'[i] = LastMessage'
                      ELSE buffer'[i] \in FileMessages
    BY DEF LastMessageIsLast
  <2>1. CASE i = Len(buffer')
    BY <1>1, <1>2, <2>1 DEF LastMessage
  <2>2. CASE i # Len(buffer')
    <3>1. i \in 1..Len(buffer)
      BY <1>1, <2>2
    <3>2. buffer[i] \in FileMessages
      BY <1>2, <3>1 DEF MessagesInOrder, LastMessageIsLast
    <3> QED
      BY <1>1, <2>2, <3>1, <3>2
  <2> QED
    BY <2>1, <2>2
<1>5. BeforeLastMessage'
  BY <1>1, <1>2 DEF MessagesInOrder, MessageTypes, BeforeLastMessage
<1>6. AfterLastMessage'
  BY <1>1 DEF AfterLastMessage
<1> QED
  BY <1>3, <1>4, <1>5, <1>6 DEF MessagesInOrder

\* A message is consumed: the first of the buffer.
LEMMA HandlingKeepsOrder == MessagesInOrder /\ HandleMessage => MessagesInOrder'
<1> SUFFICES ASSUME MessagesInOrder, HandleMessage PROVE MessagesInOrder'
  OBVIOUS
<1> USE FilesAssumption
<1> DEFINE message == Head(buffer)
<1>1. /\ buffer # <<>>
      /\ buffer' = Tail(buffer)
      /\ sent' = sent
      /\ Count' = Count /\ SentInOrder'
      /\ handled' = IF message = "file" THEN handled + 1 ELSE handled
      /\ message = "meta" => Complete("complete")
      /\ message = "cancelled" => Complete("cancelled")
      /\ message \in {"badAst", "throws"} => Complete("failed")
      /\ message = "file" => future' = future
  BY DEF HandleMessage, Count, Cut, MessagesInOrder, SentInOrder, Served!ResultsOnly
<1>2. /\ Len(buffer) \in Nat /\ Len(buffer) > 0
      /\ message = buffer[1]
      /\ buffer' \in Seq(Messages)
      /\ Len(buffer') = Len(buffer) - 1
      /\ \A i \in 1..Len(buffer') : buffer'[i] = buffer[i + 1]
      /\ buffer' = <<>> <=> Len(buffer) = 1
  <2>1. buffer \in Seq(Messages) /\ buffer # <<>>
    BY <1>1 DEF MessagesInOrder, MessageTypes
  <2>2. Len(buffer) \in Nat /\ Len(buffer) > 0 /\ message = buffer[1]
    BY <2>1
  <2>3. buffer' \in Seq(Messages) /\ Len(buffer') = Len(buffer) - 1
    BY <1>1, <2>1
  <2>4. \A i \in 1..Len(buffer') : buffer'[i] = buffer[i + 1]
    BY <1>1, <2>1
  <2>5. buffer' = <<>> <=> Len(buffer') = 0
    BY <2>3, EmptySeq
  <2> QED
    BY <2>2, <2>3, <2>4, <2>5
<1> HIDE DEF message
<1>3. Count \in Nat /\ handled \in Nat /\ Count <= Files + 2 /\ future \in {"open", "failed"}
  BY <1>1 DEF MessagesInOrder, MessageTypes, BeforeLastMessage
<1>4. IF Len(buffer) = 1 /\ Count > Files THEN message = LastMessage ELSE message \in FileMessages
  BY <1>2 DEF MessagesInOrder, LastMessageIsLast
<1>5. LastMessageIsLast'
  <2> SUFFICES ASSUME NEW i \in 1..Len(buffer')
               PROVE  IF i = Len(buffer') /\ Count > Files THEN buffer'[i] = LastMessage
                      ELSE buffer'[i] \in FileMessages
    BY <1>1 DEF LastMessageIsLast, LastMessage
  <2>1. i + 1 \in 1..Len(buffer) /\ buffer'[i] = buffer[i + 1]
    BY <1>2
  <2>2. i = Len(buffer') <=> i + 1 = Len(buffer)
    BY <1>2
  <2> QED
    BY <2>1, <2>2 DEF MessagesInOrder, LastMessageIsLast
<1>6. CASE message \in FileMessages
  <2>1. Count <= Files \/ Len(buffer) # 1
    BY <1>3, <1>4, <1>6 DEF LastMessage, FileMessages
  <2>2. IF message = "file" THEN future' = future ELSE future' = "failed"
    BY <1>1, <1>3, <1>6 DEF Complete, FileMessages
  <2>3. MessageTypes'
    BY <1>1, <1>2, <1>3, <2>2 DEF MessageTypes
  <2>4. BeforeLastMessage'
    BY <1>1, <1>2, <1>3, <2>2 DEF MessagesInOrder, BeforeLastMessage
  <2>5. AfterLastMessage'
    BY <1>1, <1>2, <1>3, <2>1 DEF AfterLastMessage
  <2> QED
    BY <1>1, <1>5, <2>3, <2>4, <2>5 DEF MessagesInOrder
<1>7. CASE message \notin FileMessages
  <2>1. Len(buffer) = 1 /\ Count > Files /\ message = LastMessage
    BY <1>4, <1>7
  <2>2. handled' = handled
    BY <1>1, <1>7 DEF FileMessages
  <2>3. CASE Count = Files + 1
    <3>1. future' = IF future = "open" THEN "complete" ELSE future
      BY <1>1, <2>1, <2>3 DEF LastMessage, Complete
    <3>2. future = "open" => handled = Files
      BY <1>1, <1>3, <2>1, <2>3 DEF MessagesInOrder, BeforeLastMessage
    <3>3. MessageTypes' /\ BeforeLastMessage' /\ AfterLastMessage'
      BY <1>1, <1>2, <1>3, <2>1, <2>2, <2>3, <3>1, <3>2 DEF MessageTypes, BeforeLastMessage,
         AfterLastMessage
    <3> QED
      BY <1>1, <1>5, <3>3 DEF MessagesInOrder
  <2>4. CASE Count # Files + 1
    <3>1. future' = IF future = "open" THEN "cancelled" ELSE future
      BY <1>1, <2>1, <2>4 DEF LastMessage, Complete
    <3>2. MessageTypes' /\ BeforeLastMessage' /\ AfterLastMessage'
      BY <1>1, <1>2, <1>3, <2>1, <2>2, <2>4, <3>1 DEF MessageTypes, BeforeLastMessage,
         AfterLastMessage
    <3> QED
      BY <1>1, <1>5, <3>2 DEF MessagesInOrder
  <2> QED
    BY <2>3, <2>4
<1> QED
  BY <1>6, <1>7

LEMMA HandlingKeepsOutcome == OutcomeInv /\ HandleMessage => OutcomeInv'
<1> SUFFICES ASSUME OutcomeInv, HandleMessage PROVE OutcomeInv'
  OBVIOUS
<1>1. MessagesInOrder'
  BY HandlingKeepsOrder DEF OutcomeInv
<1>2. UNCHANGED <<sent, Count, terminal, isCancelled, requested>> /\ call # NoCall
  BY DEF HandleMessage, Active, Count, Cut
<1>3. outcome = "none"
  BY <1>2 DEF OutcomeInv, EndOfCall
<1>4. \/ UNCHANGED <<outcome, call>>
      \/ call' = NoCall /\ outcome' = "cancelled"
      \/ call' = NoCall /\ outcome' = "failed" /\ Head(buffer) = "throws"
  BY DEF HandleMessage, EndCall
<1>5. EndOfCall'
  BY <1>2, <1>3, <1>4 DEF OutcomeInv, EndOfCall
<1>6. OutcomeIsTrue'
  <2> SUFFICES ASSUME outcome' = "failed" PROVE future' = "failed"
    BY <1>3, <1>4 DEF OutcomeIsTrue
  <2>1. buffer # <<>> /\ Complete("failed")
    BY <1>3, <1>4 DEF HandleMessage
  <2>2. future \in {"open", "failed"}
    BY <2>1 DEF OutcomeInv, MessagesInOrder, BeforeLastMessage
  <2> QED
    BY <2>1, <2>2 DEF Complete
<1> QED
  BY <1>1, <1>5, <1>6 DEF OutcomeInv

\* The end of the stream: OK comes after the last message, so the future tells how it
\* went; CANCELLED comes only of the own cancellation.
LEMMA EndOfStreamKeepsOutcome == OutcomeInv /\ EndOfStream => OutcomeInv'
<1> SUFFICES ASSUME OutcomeInv, EndOfStream PROVE OutcomeInv'
  OBVIOUS
<1>1. /\ UNCHANGED <<isCancelled, sent, Count, buffer, terminal, handled, future>>
      /\ buffer = <<>> /\ terminal # "none" /\ call' = NoCall
      /\ outcome' = IF terminal = "OK" THEN EnsureCompleted ELSE StatusOutcome
  BY DEF EndOfStream, EndCall, Count, Cut
<1>2. MessagesInOrder'
  BY <1>1, OrderKept DEF OutcomeInv
<1>3. EndOfCall'
  BY <1>1 DEF OutcomeInv, EndOfCall
<1>4. OutcomeIsTrue'
  <2>1. CASE terminal = "OK"
    <3>1. Count > Files /\ future # "open" /\ (future = "complete" => handled = Files)
      BY <1>1, <2>1 DEF OutcomeInv, EndOfCall, MessagesInOrder, AfterLastMessage
    <3>2. future \in {"complete", "failed", "cancelled"}
      BY <3>1 DEF OutcomeInv, MessagesInOrder, MessageTypes
    <3> QED
      BY <1>1, <2>1, <3>1, <3>2 DEF EnsureCompleted, OutcomeIsTrue
  <2>2. CASE terminal # "OK"
    BY <1>1, <2>2 DEF StatusOutcome, OutcomeInv, EndOfCall, Statuses, OutcomeIsTrue
  <2> QED
    BY <2>1, <2>2
<1> QED
  BY <1>2, <1>3, <1>4 DEF OutcomeInv

LEMMA ServerKeepsOutcome ==
    ASSUME OutcomeInv, ServerSends \/ ServerCancels \/ ServerEnds \/ StreamBreaks
    PROVE  OutcomeInv'
<1>1. UNCHANGED <<call, isCancelled, requested, handled, future, outcome>> /\ call # NoCall
  BY DEF ServerSends, ServerCancels, ServerEnds, StreamBreaks, SendsMessage, Serves, Active
<1>2. outcome = "none"
  BY <1>1 DEF OutcomeInv, EndOfCall
<1>3. CASE ServerSends \/ ServerCancels
  <2>1. /\ Count < Files + 1 /\ terminal' = terminal /\ SentInOrder'
        /\ \E message \in Messages :
             /\ buffer' = Append(buffer, message)
             /\ \/ Count' = Count + 1
                   /\ message \in (IF Count < Files THEN FileMessages ELSE {"meta"})
                \/ Count' = Files + 2 /\ message = "cancelled"
    <3> SUFFICES ASSUME NEW message \in Messages, SendsMessage(message),
                        NEW body \in {"file", "meta", "cancelled"}, sent' = Append(sent, body),
                        Served!ResultsOnly,
                        body = "file" => Len(sent) < Files /\ message \in FileMessages,
                        body = "meta" => Len(sent) = Files /\ message = "meta",
                        body = "cancelled" => message = "cancelled"
                 PROVE  /\ Count < Files + 1 /\ terminal' = terminal /\ SentInOrder'
                        /\ buffer' = Append(buffer, message)
                        /\ \/ Count' = Count + 1
                              /\ message \in (IF Count < Files THEN FileMessages ELSE {"meta"})
                           \/ Count' = Files + 2 /\ message = "cancelled"
      BY <1>3 DEF ServerSends, ServerCancels, Served!SendResult, Served!SendMetadata,
                  Served!SendCancelled, Messages, FileMessages
    <3>1. SentInOrder
      BY DEF OutcomeInv, MessagesInOrder
    <3>2. /\ SentInOrder'
          /\ Count' = IF body = "cancelled" THEN Files + 2 ELSE Count + 1
      BY <3>1, SendingCounts
    <3>3. Count \in Nat /\ Count <= Files /\ Count = Len(sent)
      BY <3>1, CountTells
    <3>4. terminal' = terminal /\ buffer' = Append(buffer, message)
      BY DEF SendsMessage
    <3>5. CASE body = "cancelled"
      BY <3>2, <3>3, <3>4, <3>5, FilesAssumption
    <3>6. CASE body # "cancelled"
      BY <3>2, <3>3, <3>4, <3>6, FilesAssumption
    <3> QED
      BY <3>5, <3>6
  <2>2. MessagesInOrder'
    BY <1>1, <2>1, SendingKeepsOrder DEF OutcomeInv
  <2>3. Count' >= Count
    BY <2>1, FilesAssumption DEF OutcomeInv, MessagesInOrder, MessageTypes
  <2>4. EndOfCall'
    BY <1>1, <2>1, <2>3, FilesAssumption DEF OutcomeInv, EndOfCall, MessagesInOrder, MessageTypes
  <2> QED
    BY <1>1, <1>2, <2>2, <2>4 DEF OutcomeInv, OutcomeIsTrue
<1>4. CASE ServerEnds \/ StreamBreaks
  <2>1. /\ UNCHANGED <<sent, Count, buffer>>
        /\ terminal' \in {"INTERNAL", "UNAVAILABLE"} \/ (terminal' = "OK" /\ Count > Files)
    <3>1. CASE ServerEnds
      <4>1. terminal' = "OK" => StreamEnd' = "ok"
        BY DEF StreamEnd
      <4> QED
        BY <3>1, <4>1, CountTells, FilesAssumption
           DEF ServerEnds, Served!EndOk, Served!EndError, OutcomeInv, MessagesInOrder, Count, Cut
    <3>2. CASE StreamBreaks
      BY <3>2 DEF StreamBreaks, Count, Cut
    <3> QED
      BY <1>4, <3>1, <3>2
  <2>2. MessagesInOrder'
    BY <1>1, <2>1, OrderKept DEF OutcomeInv
  <2>3. EndOfCall'
    BY <1>1, <2>1 DEF OutcomeInv, EndOfCall, Statuses
  <2> QED
    BY <1>1, <1>2, <2>2, <2>3 DEF OutcomeInv, OutcomeIsTrue
<1> QED
  BY <1>3, <1>4

LEMMA RequestFirstStep == RequestFirst /\ EndOfCall /\ [Next]_vars => RequestFirst'
<1> SUFFICES ASSUME RequestFirst, EndOfCall, [Next]_vars PROVE RequestFirst'
  OBVIOUS
<1> USE CallsAssumption DEF RequestFirst, ServedCalls, EndOfCall
<1>1. ASSUME UNCHANGED streamVars PROVE RequestFirst'
  BY <1>1 DEF streamVars
<1>2. ASSUME NEW c \in Calls, BeginCall(c) PROVE RequestFirst'
  BY <1>2 DEF BeginCall
<1>3. ASSUME NEW c \in Calls, WatcherPolls(c) PROVE RequestFirst'
  <2>1. UNCHANGED <<call, requested, servedBy, outcome>>
    BY <1>3 DEF WatcherPolls
  <2>2. CASE c = call
    <3>1. terminal' \in {terminal, "CANCELLED"}
      BY <1>3, <2>2 DEF WatcherPolls, Abort
    <3> QED
      BY <2>1, <2>2, <3>1
  <2>3. CASE c # call
    BY <1>3, <2>1, <2>3 DEF WatcherPolls
  <2> QED
    BY <2>2, <2>3
<1>4. ASSUME NEW c \in Calls, servedBy' = [servedBy EXCEPT ![c] = NoNode],
             UNCHANGED <<call, requested, outcome>>,
             terminal' = terminal \/ (call # NoCall /\ requested)
      PROVE  RequestFirst'
  <2>1. ServedCalls'
    BY <1>4
  <2>2. \A d \in Calls : servedBy[d] = NoNode => servedBy'[d] = NoNode
    BY <1>4
  <2> QED
    BY <1>4, <2>1, <2>2
<1>5. ASSUME NEW c \in Calls, ServerStops(c) PROVE RequestFirst'
  BY <1>4, <1>5 DEF ServerStops
<1>6. CASE ServerEnds
  <2>1. call \in Calls /\ requested
    BY <1>6 DEF ServerEnds, Serves, Active
  <2> QED
    BY <1>4, <1>6, <2>1 DEF ServerEnds
<1>7. CASE RequestGoesOut
  <2>1. call \in Calls /\ UNCHANGED <<call, outcome, terminal>> /\ requested'
    BY <1>7 DEF RequestGoesOut, Active
  <2>2. ServedCalls'
    BY <1>7 DEF RequestGoesOut
  <2> QED
    BY <2>1, <2>2
<1>8. CASE RequestFails \/ EndOfStream
  BY <1>8 DEF RequestFails, EndOfStream, EndCall, EnsureCompleted, StatusOutcome
<1>9. CASE HandleMessage
  <2>1. UNCHANGED <<requested, servedBy, terminal>> /\ call # NoCall /\ requested
    BY <1>9 DEF HandleMessage, Active
  <2>2. \/ UNCHANGED <<call, outcome>>
        \/ call' = NoCall /\ outcome' # "none"
    BY <1>9 DEF HandleMessage, EndCall
  <2> QED
    BY <2>1, <2>2
<1>10. CASE EndAnalysis
  BY <1>10 DEF EndAnalysis
<1>11. CASE UserCancels \/ ServerSends \/ ServerCancels
  BY <1>11 DEF UserCancels, ServerSends, ServerCancels, SendsMessage
<1>12. CASE StreamBreaks
  BY <1>12 DEF StreamBreaks, Active
<1> QED
  BY <1>1, <1>2, <1>3, <1>5, <1>6, <1>7, <1>8, <1>9, <1>10, <1>11, <1>12
     DEF Next, Stream, Bridge, vars

LEMMA StreamKeepsOutcome == RequestFirst /\ OutcomeInv /\ Stream => OutcomeInv'
<1> SUFFICES ASSUME RequestFirst, OutcomeInv, Stream PROVE OutcomeInv'
  OBVIOUS
<1>1. ASSUME NEW c \in Calls, BeginCall(c) PROVE OutcomeInv'
  <2>1. /\ UNCHANGED <<isCancelled, sent, Count, buffer, terminal, handled, future, outcome>>
        /\ outcome = "none"
    BY <1>1 DEF BeginCall, Count, Cut
  <2> QED
    BY <2>1, OrderKept DEF OutcomeInv, EndOfCall, OutcomeIsTrue
<1>2. ASSUME NEW c \in Calls, WatcherPolls(c) PROVE OutcomeInv'
  <2>1. /\ UNCHANGED <<call, isCancelled, requested, sent, Count, buffer, handled, future, outcome>>
        /\ \/ terminal' = terminal
           \/ c = call /\ isCancelled /\ terminal = "none" /\ terminal' = "CANCELLED"
    BY <1>2 DEF WatcherPolls, Abort, Count, Cut
  <2>2. c = call => outcome = "none"
    BY CallsAssumption DEF OutcomeInv, EndOfCall
  <2>3. MessagesInOrder'
    BY <2>1, OrderKept DEF OutcomeInv
  <2>4. EndOfCall' /\ OutcomeIsTrue'
    BY <2>1, <2>2 DEF OutcomeInv, EndOfCall, OutcomeIsTrue, Statuses
  <2> QED
    BY <2>3, <2>4 DEF OutcomeInv
<1>3. ASSUME NEW c \in Calls, ServerStops(c) PROVE OutcomeInv'
  BY <1>3, OrderKept DEF ServerStops, OutcomeInv, EndOfCall, OutcomeIsTrue, Count, Cut
<1>4. CASE EndAnalysis
  <2>1. /\ sent' = <<>> /\ handled' = 0 /\ buffer' = <<>> /\ future' = "open"
        /\ terminal' = "none" /\ outcome' = "none"
    BY <1>4 DEF EndAnalysis
  <2>2. MessagesInOrder'
    <3>1. SentInOrder' /\ Count' = 0
      BY <2>1, FilesAssumption DEF SentInOrder, Count, Cut, Served!ResultsOnly
    <3> QED
      BY <2>1, <3>1, FilesAssumption DEF MessagesInOrder, MessageTypes, LastMessageIsLast,
         BeforeLastMessage, AfterLastMessage
  <2> QED
    BY <2>1, <2>2 DEF OutcomeInv, EndOfCall, OutcomeIsTrue, Statuses
<1>5. CASE UserCancels
  BY <1>5, OrderKept DEF UserCancels, OutcomeInv, EndOfCall, OutcomeIsTrue, Count, Cut
<1>6. CASE RequestGoesOut
  <2>1. /\ UNCHANGED <<call, isCancelled, sent, Count, buffer, terminal, handled, future, outcome>>
        /\ call # NoCall
    BY <1>6 DEF RequestGoesOut, Active, Count, Cut
  <2>2. outcome = "none"
    BY <2>1 DEF OutcomeInv, EndOfCall
  <2>3. MessagesInOrder'
    BY <2>1, OrderKept DEF OutcomeInv
  <2> QED
    BY <2>1, <2>2, <2>3 DEF OutcomeInv, EndOfCall, OutcomeIsTrue
<1>7. CASE RequestFails
  <2>1. /\ UNCHANGED <<isCancelled, requested, sent, Count, buffer, handled, future>>
        /\ call' = NoCall /\ outcome' = "failed" /\ ~requested
        /\ terminal' \in IF terminal = "none" THEN {"INTERNAL", "UNAVAILABLE"} ELSE {terminal}
    BY <1>7 DEF RequestFails, EndCall, Count, Cut
  <2>2. terminal \in {"none", "CANCELLED", "INTERNAL", "UNAVAILABLE"}
    BY <1>7 DEF RequestFails, Active, RequestFirst
  <2>3. MessagesInOrder'
    BY <2>1, OrderKept DEF OutcomeInv
  <2> QED
    BY <2>1, <2>2, <2>3 DEF OutcomeInv, EndOfCall, OutcomeIsTrue, Statuses
<1> QED
  BY <1>1, <1>2, <1>3, <1>4, <1>5, <1>6, <1>7, HandlingKeepsOutcome, EndOfStreamKeepsOutcome,
     ServerKeepsOutcome DEF Stream

LEMMA OutcomeInvStep == RequestFirst /\ OutcomeInv /\ [Next]_vars => (RequestFirst /\ OutcomeInv)'
<1>1. ASSUME OutcomeInv, UNCHANGED streamVars PROVE OutcomeInv'
  BY <1>1, OrderKept DEF streamVars, OutcomeInv, EndOfCall, OutcomeIsTrue, Count, Cut
<1> QED
  BY <1>1, StreamKeepsOutcome, RequestFirstStep DEF Next, Bridge, vars, OutcomeInv

\* An analysis that succeeds has processed every result and seen the metadata, and one
\* fails only because the stream, the server or a result did: OK arrives after the last
\* message, CANCELLED only after the own cancellation (BridgeServerImpl.analyzeProject).
THEOREM OutcomeIsTrueCorrect == Spec => []OutcomeIsTrue
<1>1. OutcomeInv => OutcomeIsTrue
  BY DEF OutcomeInv
<1> QED
  BY OutcomeInvInit, OutcomeInvStep, <1>1, PTL DEF Spec

-----------------------------------------------------------------------------
(* Watchers, transports and what the server still works for                *)

\* A finished call is aborted in the step that ends it, and a new one gets its
\* watcher before it is sent.

LEMMA NoUnattendedCallStep ==
    OutcomeInv /\ ServedCalls /\ NoUnattendedCall /\ [Next]_vars
      => ServedCalls' /\ NoUnattendedCall'
<1> SUFFICES ASSUME OutcomeInv, ServedCalls, NoUnattendedCall, [Next]_vars
             PROVE  ServedCalls' /\ NoUnattendedCall'
  OBVIOUS
<1> USE DEF ServedCalls, NoUnattendedCall
<1>1. ASSUME UNCHANGED servedBy, aborted \subseteq aborted', UNCHANGED <<call, watchers>>,
             terminal # "none" => terminal' # "none"
      PROVE  ServedCalls' /\ NoUnattendedCall'
  BY <1>1
<1>2. ASSUME UNCHANGED <<servedBy, watchers, terminal>>, call' = NoCall, aborted' = aborted \cup {call}
      PROVE  ServedCalls' /\ NoUnattendedCall'
  BY <1>2
<1>3. ASSUME NEW c \in Calls, BeginCall(c) PROVE ServedCalls' /\ NoUnattendedCall'
  <2>1. /\ call = NoCall /\ call' = c /\ c \in watchers' /\ aborted' = aborted \ {c}
        /\ servedBy' = servedBy
    BY <1>3 DEF BeginCall
  <2>2. \A d \in Calls : d # c /\ servedBy[d] # NoNode => d \in aborted
    BY <2>1, CallsAssumption
  <2> QED
    BY <2>1, <2>2
<1>4. ASSUME NEW c \in Calls, WatcherPolls(c) PROVE ServedCalls' /\ NoUnattendedCall'
  <2>1. CASE c = call
    <3>1. /\ terminal' # "none" /\ aborted \subseteq aborted' /\ UNCHANGED <<servedBy, call>>
      BY <1>4, <2>1 DEF WatcherPolls, Abort
    <3> QED
      BY <3>1
  <2>2. CASE c # call
    BY <1>4, <2>2 DEF WatcherPolls
  <2> QED
    BY <2>1, <2>2
<1>5. ASSUME NEW c \in Calls, UNCHANGED <<call, watchers, aborted>>,
             terminal # "none" => terminal' # "none",
             servedBy' = [servedBy EXCEPT ![c] = NoNode]
      PROVE  ServedCalls' /\ NoUnattendedCall'
  <2>1. ServedCalls' /\ \A d \in Calls : servedBy'[d] # NoNode => servedBy[d] # NoNode
    BY <1>5
  <2> QED
    BY <1>5, <2>1
<1>6. ASSUME NEW c \in Calls, ServerStops(c) PROVE ServedCalls' /\ NoUnattendedCall'
  BY <1>5, <1>6 DEF ServerStops
<1>7. CASE ServerEnds
  <2>1. servedBy' = [servedBy EXCEPT ![call] = NoNode]
    BY <1>7 DEF ServerEnds
  <2>2. UNCHANGED <<call, watchers, aborted>> /\ terminal' # "none"
    BY <1>7 DEF ServerEnds
  <2>3. ServedCalls' /\ \A d \in Calls : servedBy'[d] # NoNode => servedBy[d] # NoNode
    BY <2>1
  <2> QED
    BY <2>2, <2>3
<1>8. CASE HandleMessage
  <2>1. UNCHANGED <<servedBy, watchers, terminal>>
    BY <1>8 DEF HandleMessage
  <2>2. \/ call' = NoCall /\ aborted' = aborted \cup {call}
        \/ UNCHANGED <<call, aborted>>
    BY <1>8 DEF HandleMessage, EndCall
  <2> QED
    BY <1>1, <1>2, <2>1, <2>2
<1>9. CASE EndOfStream
  BY <1>2, <1>9 DEF EndOfStream, EndCall
<1>10. CASE EndAnalysis
  <2>1. call = NoCall /\ UNCHANGED <<call, servedBy, watchers, aborted>>
    BY <1>10 DEF EndAnalysis, OutcomeInv, EndOfCall
  <2> QED
    BY <2>1
<1>11. CASE UserCancels \/ ServerSends \/ ServerCancels \/ StreamBreaks
  BY <1>1, <1>11 DEF UserCancels, ServerSends, ServerCancels, SendsMessage, StreamBreaks
<1>12. CASE UNCHANGED streamVars
  BY <1>1, <1>12 DEF streamVars
<1>13. CASE RequestGoesOut
  <2>1. /\ UNCHANGED <<call, watchers, aborted, terminal>>
        /\ servedBy' = [servedBy EXCEPT ![call] = channel] \/ servedBy' = servedBy
    BY <1>13 DEF RequestGoesOut
  <2>2. ServedCalls' /\ \A d \in Calls : d # call => servedBy'[d] = servedBy[d]
    BY <2>1
  <2> QED
    BY <2>1, <2>2
<1>14. CASE RequestFails
  BY <1>14 DEF RequestFails, EndCall
<1> QED
  BY <1>3, <1>4, <1>6, <1>7, <1>8, <1>9, <1>10, <1>11, <1>12, <1>13, <1>14
     DEF Next, Stream, Bridge, vars

\* The call that is consumed is watched until its stream has ended, and a process that
\* serves a call which is over has been told, for any number of identifiers, watchers
\* that linger and processes that serve the calls of an earlier analysis.
THEOREM NoUnattendedCallCorrect == Spec => []NoUnattendedCall
<1>1. Init => ServedCalls /\ NoUnattendedCall
  BY DEF Init, ServedCalls, NoUnattendedCall
<1> QED
  BY OutcomeInvInit, OutcomeInvStep, <1>1, NoUnattendedCallStep, PTL DEF Spec
=============================================================================
