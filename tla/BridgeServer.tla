---------------------------- MODULE BridgeServer ----------------------------
(* The Java side of the analyzer runtime: BridgeServerImpl starts a Node   *)
(* process when an analysis needs one, connects a gRPC channel to the port *)
(* it announces, takes the lease that ties its life to this JVM, and starts*)
(* another when it has failed.                                             *)
(*                                                                         *)
(* One thread runs the analyses.  The processes, the channel and the end of*)
(* a lease, which gRPC reports on a thread of its own, move independently. *)
(* A process is modelled by what ServerLifecycle promises of it: it stops  *)
(* when its lease is lost and when nobody takes the lease in time.  Node   *)
(* processes started by somebody else (SONARJS_EXISTING_NODE_PROCESS_PORT) *)
(* are left out.                                                           *)
EXTENDS Naturals, FiniteSets

CONSTANTS
    Nodes,       \* process identifiers, used again when nothing refers to them
    NoNode,      \* Java's null
    MaxIncidents \* bound: processes that die of themselves, and calls of clean

ASSUME NoNodeAssumption == NoNode \notin Nodes
ASSUME MaxIncidentsAssumption == MaxIncidents \in Nat

VARIABLES
    jvm,              \* the Java process is alive
    sensor,           \* where the analysis thread is
    status,           \* status
    nodeCommand,      \* nodeCommand: the process started last
    channel,          \* channel, by the process whose port it was opened for
    ready,            \* the state of the channel is READY
    leaseObserver,    \* leaseObserver, by the process its call went to
    leaseTerminated,  \* leaseTerminated
    leaseCalls,       \* Lease calls per process whose end was not reported yet
    everOk,           \* latestOKIsAliveTimestamp is not null
    proc,             \* the Node processes
    held,             \* processes whose lease is taken: state.leaseCall
    incidents         \* processes that died of themselves, calls of clean

procVars == <<proc, held, incidents>>
leaseVars == <<leaseObserver, leaseTerminated, leaseCalls>>
bridgeVars == <<jvm, sensor, status, nodeCommand, channel, ready, leaseVars, everOk, procVars>>

\* "exited" after "listening", "stillborn" before it announced its port.
ProcStates == {"none", "booting", "listening", "exited", "stillborn"}
SensorStates == {"idle", "waitForBoundPort", "waitServerToStart", "leasing",
                 "analysing", "cleaning"}

Running(n) == proc[n] \in {"booting", "listening"}

BridgeTypeOK ==
    /\ jvm \in BOOLEAN
    /\ sensor \in SensorStates
    /\ status \in {"NOT_STARTED", "FAILED", "STARTED"}
    /\ nodeCommand \in Nodes \cup {NoNode}
    /\ channel \in Nodes \cup {NoNode}
    /\ ready \in BOOLEAN
    /\ leaseObserver \in Nodes \cup {NoNode}
    /\ leaseTerminated \in BOOLEAN
    /\ leaseCalls \in [Nodes -> Nat]
    /\ everOk \in BOOLEAN
    /\ proc \in [Nodes -> ProcStates]
    /\ held \subseteq Nodes
    /\ incidents \in 0..MaxIncidents

BridgeInit ==
    /\ jvm = TRUE
    /\ sensor = "idle"
    /\ status = "NOT_STARTED"
    /\ nodeCommand = NoNode
    /\ channel = NoNode
    /\ ready = FALSE
    /\ leaseObserver = NoNode
    /\ leaseTerminated = FALSE
    /\ leaseCalls = [n \in Nodes |-> 0]
    /\ everOk = FALSE
    /\ proc = [n \in Nodes |-> "none"]
    /\ held = {}
    /\ incidents = 0

-----------------------------------------------------------------------------
(* The channel and the lease                                               *)

\* openChannel keeps a channel that was not shut down.
OpenChannel ==
    IF channel # NoNode
    THEN UNCHANGED <<channel, ready>>
    ELSE channel' = nodeCommand /\ ready' = FALSE

CloseChannel ==
    /\ channel' = NoNode
    /\ ready' = FALSE
    /\ IF channel = NoNode
       THEN UNCHANGED <<leaseObserver, leaseTerminated>>
       ELSE leaseObserver' = NoNode /\ leaseTerminated' = TRUE

ChannelConnects ==
    /\ jvm
    /\ channel # NoNode
    /\ proc[channel] = "listening"
    /\ ~ready
    /\ ready' = TRUE
    /\ UNCHANGED <<jvm, sensor, status, nodeCommand, channel, leaseVars, everOk, procVars>>

ChannelBreaks ==
    /\ jvm
    /\ channel # NoNode
    /\ ~Running(channel)
    /\ ready
    /\ ready' = FALSE
    /\ UNCHANGED <<jvm, sensor, status, nodeCommand, channel, leaseVars, everOk, procVars>>

\* startLease does nothing when an observer is set.
StartLease ==
    IF leaseObserver # NoNode
    THEN UNCHANGED leaseVars
    ELSE /\ leaseObserver' = channel
         /\ leaseTerminated' = FALSE
         /\ leaseCalls' = [leaseCalls EXCEPT ![channel] = @ + 1]

\* The call reaches the process, which takes the first and answers it.
LeaseArrives(n) ==
    /\ jvm
    /\ leaseCalls[n] > 0
    /\ channel = n
    /\ proc[n] = "listening"
    /\ n \notin held
    /\ held' = held \cup {n}
    /\ UNCHANGED <<jvm, sensor, status, nodeCommand, channel, ready, leaseVars, everOk,
                   proc, incidents>>

\* onLeaseTerminated does not look at which lease ended.
OnLeaseTerminated ==
    /\ leaseObserver' = NoNode
    /\ leaseTerminated' = TRUE

\* A Lease call is over: its process died, its channel was shut down, or the
\* process, which has a lease already, refused it.
LeaseOver(n) ==
    /\ leaseCalls[n] > 0
    /\ \/ ~Running(n)
       \/ channel # n
       \/ n \in held /\ leaseCalls[n] > 1

\* gRPC reports it.
LeaseEnds(n) ==
    /\ jvm
    /\ LeaseOver(n)
    /\ leaseCalls' = [leaseCalls EXCEPT ![n] = @ - 1]
    /\ OnLeaseTerminated
    /\ UNCHANGED <<jvm, sensor, status, nodeCommand, channel, ready, everOk, procVars>>

-----------------------------------------------------------------------------
(* startServerLazily                                                       *)

\* Mutant: a channel that is ready is enough.
IsAliveUnleased == status = "STARTED" /\ channel # NoNode /\ ready

IsAlive ==
    /\ status = "STARTED"
    /\ channel # NoNode
    /\ ready
    /\ leaseObserver # NoNode
    /\ ~leaseTerminated

\* The server is up: the analysis goes on.
AlreadyAlive ==
    /\ jvm
    /\ sensor = "idle"
    /\ IsAlive
    /\ sensor' = "analysing"
    /\ UNCHANGED <<jvm, status, nodeCommand, channel, ready, leaseVars, everOk, procVars>>

\* A started server that is not alive is only declared failed.
NoticeFailure ==
    /\ jvm
    /\ sensor = "idle"
    /\ status = "STARTED"
    /\ ~IsAlive
    /\ status' = "FAILED"
    /\ UNCHANGED <<jvm, sensor, nodeCommand, channel, ready, leaseVars, everOk, procVars>>

Unused(n) ==
    /\ ~Running(n)
    /\ n \notin {channel, leaseObserver}
    /\ leaseCalls[n] = 0

\* A failed server is started again 60 seconds after it was last seen alive, when
\* it ever was: whatever gRPC has to report of it was reported by then.
ShouldRestart ==
    /\ status = "FAILED"
    /\ everOk
    /\ \A n \in Nodes : ~LeaseOver(n)

\* Mutant: a failed server is never started again.
StartServerOnce(n) ==
    /\ jvm
    /\ sensor = "idle"
    /\ status = "NOT_STARTED"
    /\ Unused(n)
    /\ proc' = [proc EXCEPT ![n] = "booting"]
    /\ nodeCommand' = n
    /\ status' = "NOT_STARTED"
    /\ sensor' = "waitForBoundPort"
    /\ UNCHANGED <<jvm, channel, ready, leaseVars, everOk, held, incidents>>

\* startServer, up to its first wait.  Nothing is undone of what a failed server
\* left.
StartServer(n) ==
    /\ jvm
    /\ sensor = "idle"
    /\ status = "NOT_STARTED" \/ ShouldRestart
    /\ Unused(n)
    /\ proc' = [proc EXCEPT ![n] = "booting"]
    /\ nodeCommand' = n
    /\ status' = "NOT_STARTED"
    /\ sensor' = "waitForBoundPort"
    /\ UNCHANGED <<jvm, channel, ready, leaseVars, everOk, held, incidents>>

\* handleStartupFailure: the process is destroyed and waited for.
StartupFailure ==
    /\ status' = "FAILED"
    /\ CloseChannel
    /\ proc' = [proc EXCEPT ![nodeCommand] = IF Running(nodeCommand) THEN "exited" ELSE @]
    /\ held' = held \ {nodeCommand}
    /\ nodeCommand' = NoNode
    /\ sensor' = "idle"
    /\ UNCHANGED <<jvm, leaseCalls, everOk, incidents>>

\* waitForBoundPort gives up when the process has died silently; a process that
\* neither dies nor announces its port for five minutes is left out.
WaitForBoundPort ==
    /\ jvm
    /\ sensor = "waitForBoundPort"
    /\ \/ proc[nodeCommand] = "stillborn" /\ StartupFailure
       \/ /\ proc[nodeCommand] \in {"listening", "exited"}
          /\ OpenChannel
          /\ sensor' = "waitServerToStart"
          /\ UNCHANGED <<jvm, status, nodeCommand, leaseVars, everOk, procVars>>

\* waitServerToStart when the channel is ready: the lease is asked for, unless
\* the process died meanwhile.
TakeLease ==
    /\ jvm
    /\ sensor = "waitServerToStart"
    /\ ready
    /\ IF Running(nodeCommand)
       THEN /\ StartLease
            /\ everOk' = TRUE
            /\ sensor' = "leasing"
            /\ UNCHANGED <<jvm, status, nodeCommand, channel, ready, procVars>>
       ELSE /\ status' = "FAILED"
            /\ CloseChannel
            /\ nodeCommand' = NoNode
            /\ sensor' = "idle"
            /\ everOk' = TRUE
            /\ UNCHANGED <<jvm, leaseCalls, procVars>>

\* The end of the lease may have been reported by then: the start has failed.
ServerStarts ==
    /\ jvm
    /\ sensor = "leasing"
    /\ \/ leaseTerminated /\ StartupFailure
       \/ /\ ~leaseTerminated
          /\ status' = "STARTED"
          /\ sensor' = "analysing"
          /\ UNCHANGED <<jvm, nodeCommand, channel, ready, leaseVars, everOk, procVars>>

\* The channel is not ready when the time is over: its process is gone.
ServerUnreachable ==
    /\ jvm
    /\ sensor = "waitServerToStart"
    /\ ~ready
    /\ ~Running(channel)
    /\ StartupFailure

-----------------------------------------------------------------------------
(* clean, and the end of the JVM                                           *)

\* closeLease and closeChannel.
Clean ==
    /\ jvm
    /\ sensor = "idle"
    /\ status # "NOT_STARTED" \/ nodeCommand # NoNode
    /\ incidents < MaxIncidents
    /\ incidents' = incidents + 1
    /\ channel' = NoNode
    /\ ready' = FALSE
    /\ leaseObserver' = NoNode
    /\ leaseTerminated' = TRUE
    /\ sensor' = "cleaning"
    /\ UNCHANGED <<jvm, status, nodeCommand, leaseCalls, everOk, proc, held>>

\* stopNodeCommand waits a while for the process, then destroys it.
Cleaned ==
    /\ jvm
    /\ sensor = "cleaning"
    /\ IF nodeCommand = NoNode
       THEN UNCHANGED <<proc, held>>
       ELSE /\ proc' = [proc EXCEPT ![nodeCommand] = IF Running(nodeCommand) THEN "exited" ELSE @]
            /\ held' = held \ {nodeCommand}
    /\ nodeCommand' = NoNode
    /\ status' = "NOT_STARTED"
    /\ sensor' = "idle"
    /\ UNCHANGED <<jvm, channel, ready, leaseVars, everOk, incidents>>

\* The JVM ends without clean: its connections go with it.
JvmDies ==
    /\ jvm
    /\ jvm' = FALSE
    /\ UNCHANGED <<sensor, status, nodeCommand, channel, ready, leaseVars, everOk, procVars>>

-----------------------------------------------------------------------------
(* The Node processes                                                      *)

NodeListens(n) ==
    /\ proc[n] = "booting"
    /\ proc' = [proc EXCEPT ![n] = "listening"]
    /\ UNCHANGED <<jvm, sensor, status, nodeCommand, channel, ready, leaseVars, everOk, held,
                   incidents>>

Exit(n) ==
    /\ proc' = [proc EXCEPT ![n] = IF @ = "booting" THEN "stillborn" ELSE "exited"]
    /\ held' = held \ {n}

NodeCrashes(n) ==
    /\ Running(n)
    /\ incidents < MaxIncidents
    /\ incidents' = incidents + 1
    /\ Exit(n)
    /\ UNCHANGED <<jvm, sensor, status, nodeCommand, channel, ready, leaseVars, everOk>>

\* The lease is lost with the connection it came over, or completed by closeLease.
NodeLosesLease(n) ==
    /\ n \in held
    /\ ~jvm \/ channel # n
    /\ Exit(n)
    /\ UNCHANGED <<jvm, sensor, status, nodeCommand, channel, ready, leaseVars, everOk, incidents>>

\* Mutant: the startup timer is left out.
NeverTimesOut(n) ==
    /\ proc[n] = "listening"
    /\ n \in held
    /\ UNCHANGED bridgeVars

\* Nobody took the lease within the startup timeout.  It is far longer than a JVM
\* needs that is about to connect to this process; one that is slower than that
\* is a crash.
NodeTimesOut(n) ==
    /\ proc[n] = "listening"
    /\ n \notin held
    /\ ~jvm \/ channel # n
    /\ ~(jvm /\ sensor = "waitForBoundPort" /\ nodeCommand = n /\ channel = NoNode)
    /\ Exit(n)
    /\ UNCHANGED <<jvm, sensor, status, nodeCommand, channel, ready, leaseVars, everOk, incidents>>

=============================================================================
