-------------------------- MODULE ServerLifecycle ---------------------------
(* The life of the analyze-project server process: the lease that keeps it *)
(* alive, the startup timer that replaces a lease nobody takes, the worker *)
(* thread, and the one shutdown sequence they all lead to                  *)
(* (analyze-project-server-lifecycle.ts, and the Lease handler and         *)
(* startAnalyzeProjectServer of analyze-project-server.ts).                *)
(*                                                                         *)
(* One action is one callback of the main thread's event loop or one step  *)
(* of the worker thread.  server.mjs always starts a worker, so the        *)
(* in-process variant is left out.                                         *)
EXTENDS Naturals

CONSTANTS
    LeaseCalls,    \* the Lease calls clients make
    NoLease,       \* JavaScript's null
    HasTimeout,    \* the timeout argument is positive
    FragileStart   \* the worker may die before its handlers are attached

ASSUME NoLeaseAssumption == NoLease \notin LeaseCalls
ASSUME FlagsAssumption == HasTimeout \in BOOLEAN /\ FragileStart \in BOOLEAN

VARIABLES
    attached,      \* attachWorkerLifecycleHandlers has run
    listening,     \* the bindAsync callback has run
    leaseCall,     \* state.leaseCall
    lease,         \* what became of each Lease call
    startupTimer,  \* state.startupShutdownTimeout is armed
    immediates,    \* shutdowns scheduled with setImmediate
    shuttingDown,  \* state.shuttingDown
    serverClosed,  \* forceShutdown and resolveClosed have run
    worker         \* the worker thread, as far as its events were delivered

lifecycleVars == <<attached, listening, leaseCall, lease, startupTimer,
                   immediates, shuttingDown, serverClosed, worker>>

\* "crashed": it died of an error whose event is not delivered yet;
\* "stopped": its exit event is not delivered yet.
WorkerStates == {"up", "crashed", "stopped", "exited"}

LeaseStates == {"new", "held", "refused", "lost", "ended"}

LifecycleTypeOK ==
    /\ attached \in BOOLEAN
    /\ listening \in BOOLEAN
    /\ leaseCall \in LeaseCalls \cup {NoLease}
    /\ lease \in [LeaseCalls -> LeaseStates]
    /\ startupTimer \in BOOLEAN
    /\ immediates \in Nat
    /\ shuttingDown \in BOOLEAN
    /\ serverClosed \in BOOLEAN
    /\ worker \in WorkerStates

\* The worker reported 'online'; startAnalyzeProjectServer waits for
\* logMemoryConfiguration.
LifecycleInit ==
    /\ attached = FALSE
    /\ listening = FALSE
    /\ leaseCall = NoLease
    /\ lease = [c \in LeaseCalls |-> "new"]
    /\ startupTimer = FALSE
    /\ immediates = 0
    /\ shuttingDown = FALSE
    /\ serverClosed = FALSE
    /\ worker = "up"

-----------------------------------------------------------------------------
(* shutdown: everything up to `await worker.terminate()` runs at once; the *)
(* rest when the exit of the worker is known.  A second call returns.      *)

EndLease(states) ==
    [c \in LeaseCalls |-> IF states[c] = "held" THEN "ended" ELSE states[c]]

\* Mutant: worker.terminate() is not awaited.
ShutdownWithoutAwait(workerNow) ==
    /\ shuttingDown' = TRUE
    /\ IF shuttingDown
       THEN UNCHANGED <<leaseCall, lease, startupTimer, serverClosed>>
       ELSE /\ startupTimer' = FALSE
            /\ leaseCall' = NoLease
            /\ lease' = EndLease(lease)
            /\ serverClosed' = TRUE

ShutdownWith(workerNow) ==
    /\ shuttingDown' = TRUE
    /\ IF shuttingDown
       THEN UNCHANGED <<leaseCall, lease, startupTimer, serverClosed>>
       ELSE /\ startupTimer' = FALSE
            /\ leaseCall' = NoLease
            /\ lease' = EndLease(lease)
            /\ serverClosed' = (workerNow = "exited")

-----------------------------------------------------------------------------
(* Startup                                                                 *)

AttachHandlers ==
    /\ ~attached
    /\ attached' = TRUE
    /\ UNCHANGED <<listening, leaseCall, lease, startupTimer, immediates,
                   shuttingDown, serverClosed, worker>>

\* Mutant: the startup timeout is never scheduled.
ListenWithoutTimer ==
    /\ attached
    /\ ~listening
    /\ listening' = TRUE
    /\ UNCHANGED <<attached, leaseCall, lease, startupTimer, immediates, shuttingDown,
                   serverClosed, worker>>

\* The bindAsync callback: scheduleStartupShutdownTimeout.
Listen ==
    /\ attached
    /\ ~listening
    /\ listening' = TRUE
    /\ startupTimer' = HasTimeout
    /\ UNCHANGED <<attached, leaseCall, lease, immediates, shuttingDown,
                   serverClosed, worker>>

StartupTimerFires ==
    /\ startupTimer
    /\ IF shuttingDown
       THEN startupTimer' = FALSE /\ UNCHANGED <<leaseCall, lease, shuttingDown, serverClosed>>
       ELSE ShutdownWith(worker)
    /\ UNCHANGED <<attached, listening, immediates, worker>>

-----------------------------------------------------------------------------
(* The lease                                                               *)

\* Mutant: calls are served before the startup timeout is scheduled.
LeaseBeforeTimer(c) ==
    /\ attached
    /\ ~serverClosed
    /\ lease[c] = "new"
    /\ IF leaseCall # NoLease
       THEN /\ lease' = [lease EXCEPT ![c] = "refused"]
            /\ UNCHANGED <<leaseCall, startupTimer>>
       ELSE /\ lease' = [lease EXCEPT ![c] = "held"]
            /\ leaseCall' = c
            /\ startupTimer' = FALSE
    /\ UNCHANGED <<attached, listening, immediates, shuttingDown, serverClosed, worker>>

\* The handler does not look at shuttingDown: until forceShutdown a call is
\* still accepted.
Lease(c) ==
    /\ listening
    /\ ~serverClosed
    /\ lease[c] = "new"
    /\ IF leaseCall # NoLease
       THEN /\ lease' = [lease EXCEPT ![c] = "refused"]
            /\ UNCHANGED <<leaseCall, startupTimer>>
       ELSE /\ lease' = [lease EXCEPT ![c] = "held"]
            /\ leaseCall' = c
            /\ startupTimer' = FALSE
    /\ UNCHANGED <<attached, listening, immediates, shuttingDown, serverClosed,
                   worker>>

\* Mutant: the lost lease schedules nothing.
LeaseLostUnnoticed(c) ==
    /\ lease[c] = "held"
    /\ leaseCall = c
    /\ lease' = [lease EXCEPT ![c] = "lost"]
    /\ leaseCall' = NoLease
    /\ UNCHANGED <<attached, listening, startupTimer, immediates, shuttingDown,
                   serverClosed, worker>>

\* 'cancelled', 'end' or 'error' of an accepted call.  A call the server ended
\* itself is no longer state.leaseCall, its events change nothing.
LeaseLost(c) ==
    /\ lease[c] = "held"
    /\ leaseCall = c
    /\ lease' = [lease EXCEPT ![c] = "lost"]
    /\ leaseCall' = NoLease
    /\ immediates' = IF shuttingDown THEN immediates ELSE immediates + 1
    /\ UNCHANGED <<attached, listening, startupTimer, shuttingDown,
                   serverClosed, worker>>

\* The setImmediate callback, at least one turn of the event loop later.
ScheduledShutdown ==
    /\ immediates > 0
    /\ immediates' = immediates - 1
    /\ ShutdownWith(worker)
    /\ UNCHANGED <<attached, listening, worker>>

-----------------------------------------------------------------------------
(* The worker thread and its events                                        *)

WorkerDies ==
    /\ worker = "up"
    /\ attached \/ FragileStart
    /\ worker' \in {"crashed", "stopped"}
    /\ UNCHANGED <<attached, listening, leaseCall, lease, startupTimer,
                   immediates, shuttingDown, serverClosed>>

\* worker.terminate() takes effect.
WorkerTerminates ==
    /\ worker = "up"
    /\ shuttingDown
    /\ worker' = "stopped"
    /\ UNCHANGED <<attached, listening, leaseCall, lease, startupTimer,
                   immediates, shuttingDown, serverClosed>>

\* Before attachWorkerLifecycleHandlers only create-worker.ts listens, and its
\* handlers just log: the event is lost.
WorkerErrorEvent ==
    /\ worker = "crashed"
    /\ worker' = "stopped"
    /\ IF attached
       THEN ShutdownWith("stopped")
       ELSE UNCHANGED <<leaseCall, lease, startupTimer, shuttingDown, serverClosed>>
    /\ UNCHANGED <<attached, listening, immediates>>

\* Mutant: the exit handler does not shut the server down.
ExitIgnored ==
    /\ worker = "stopped"
    /\ worker' = "exited"
    /\ IF shuttingDown
       THEN serverClosed' = TRUE /\ leaseCall' = NoLease /\ lease' = EndLease(lease)
       ELSE UNCHANGED <<leaseCall, lease, serverClosed>>
    /\ UNCHANGED <<attached, listening, startupTimer, immediates, shuttingDown>>

\* The exit event ends the wait of a shutdown under way, which then forces the
\* server down (open lease calls are cancelled), or starts the shutdown.
WorkerExitEvent ==
    /\ worker = "stopped"
    /\ worker' = "exited"
    /\ IF shuttingDown
       THEN /\ serverClosed' = TRUE
            /\ leaseCall' = NoLease
            /\ lease' = EndLease(lease)
            /\ UNCHANGED <<startupTimer, shuttingDown>>
       ELSE IF attached
            THEN ShutdownWith("exited")
            ELSE UNCHANGED <<leaseCall, lease, startupTimer, shuttingDown, serverClosed>>
    /\ UNCHANGED <<attached, listening, immediates>>

-----------------------------------------------------------------------------
LifecycleNext ==
    \/ AttachHandlers
    \/ Listen
    \/ StartupTimerFires
    \/ \E c \in LeaseCalls : Lease(c) \/ LeaseLost(c)
    \/ ScheduledShutdown
    \/ WorkerDies
    \/ WorkerTerminates
    \/ WorkerErrorEvent
    \/ WorkerExitEvent

LifecycleSpec == LifecycleInit /\ [][LifecycleNext]_lifecycleVars

-----------------------------------------------------------------------------
(* Safety *)

\* At most one client believes it keeps the server alive, and it is the one the
\* server would react to losing (handler lines 326-347 against the shutdown's
\* closeLeaseCall).
OneLeaseHolder ==
    \A c \in LeaseCalls : lease[c] = "held" <=> leaseCall = c

\* The startup timer is never pending while somebody holds the lease: taking
\* the lease disarms it, and it is not armed again.
TimerNeverThreatensHolder == leaseCall # NoLease => ~startupTimer

\* serverClosed resolves only after the worker thread is gone and no client
\* holds a lease on a server that does not answer.
ClosedAfterWorker ==
    serverClosed => worker = "exited" /\ shuttingDown /\ leaseCall = NoLease

\* The shutdown that is due is never missed: a lost lease has scheduled it or it
\* is under way, although the next holder clears state.leaseCall; a listening
\* server that no client called yet has its timer; and a shutdown under way waits
\* for a worker whose exit is still to be reported.
ShutdownIsComing ==
    /\ (\E c \in LeaseCalls : lease[c] = "lost") => immediates > 0 \/ shuttingDown
    /\ HasTimeout /\ listening /\ (\A c \in LeaseCalls : lease[c] = "new")
         => startupTimer \/ shuttingDown
    /\ shuttingDown /\ ~serverClosed => worker # "exited"

\* A shutdown that is due comes, and in the order that serverClosed relies on.
ShutdownInOrder == ClosedAfterWorker /\ ShutdownIsComing

\* A server with a lease holder begins to shut down only because its worker
\* died or because an earlier holder was lost and its setImmediate was pending:
\* never because of the timer or of a call that was refused.
HolderKeepsServerUp ==
    [][leaseCall # NoLease /\ ~shuttingDown /\ shuttingDown'
         => \/ worker # "up"
            \/ immediates > 0 /\ \E c \in LeaseCalls : lease[c] = "lost"]_lifecycleVars

-----------------------------------------------------------------------------
(* Liveness *)

\* Losing the lease stops the process, also when another client takes the lease
\* before the scheduled shutdown runs.
LostLeaseStopsServer ==
    \A c \in LeaseCalls : lease[c] = "lost" ~> serverClosed

\* With a timeout, a server that nobody leases goes away.
UnleasedServerStops ==
    HasTimeout => <>(serverClosed \/ \E c \in LeaseCalls : lease[c] # "new")

=============================================================================
