--------------------- MODULE AnalyzeProjectServerProofs ---------------------
(* Proofs about AnalyzeProjectServer for every set of calls, every bound   *)
(* on the line and every number of files.  The inductive invariant is      *)
(* built in layers: types and the queue's own invariants, one analysis at  *)
(* a time, cancellation messages that are on time, the flags they set, and *)
(* the messages each stream call has been or will be sent.  Before it come *)
(* the proofs about ServerLifecycle alone.                                 *)
EXTENDS AnalyzeProjectServer, AnalysisQueueProofs, FiniteSetTheorems

-----------------------------------------------------------------------------
(* The lease, the startup timer and the shutdown, for every set of Lease   *)
(* calls, with and without a startup timeout, and for a worker that may    *)
(* die at any time.                                                        *)

\* A lease is only taken from a server that listens, so that the timer, armed
\* when the server begins to listen, is not armed under a holder.
HolderAfterListening == leaseCall # NoLease => listening

\* Only the loss of a lease schedules a shutdown, and a lost lease stays lost.
ImmediatesHaveCause == immediates > 0 => \E c \in LeaseCalls : lease[c] = "lost"

\* Inductive: TimerNeverThreatensHolder needs HolderAfterListening, the action
\* property needs ImmediatesHaveCause.
LifecycleInv ==
    /\ LifecycleTypeOK
    /\ OneLeaseHolder
    /\ TimerNeverThreatensHolder
    /\ ClosedAfterWorker
    /\ HolderAfterListening
    /\ ImmediatesHaveCause

LEMMA LifecycleInvInit == LifecycleInit => LifecycleInv
<1> SUFFICES ASSUME LifecycleInit PROVE LifecycleInv
  OBVIOUS
<1>1. LifecycleTypeOK
  BY DEF LifecycleInit, LifecycleTypeOK, LeaseStates, WorkerStates
<1>2. OneLeaseHolder
  BY NoLeaseAssumption DEF LifecycleInit, OneLeaseHolder
<1>3. TimerNeverThreatensHolder /\ ClosedAfterWorker /\ HolderAfterListening
  BY DEF LifecycleInit, TimerNeverThreatensHolder, ClosedAfterWorker, HolderAfterListening
<1>4. ImmediatesHaveCause
  <2>1. ~(0 > 0)
    OBVIOUS
  <2> QED
    BY <2>1 DEF LifecycleInit, ImmediatesHaveCause
<1> QED
  BY <1>1, <1>2, <1>3, <1>4 DEF LifecycleInv

\* A shutdown leaves a state without holder and timer.
LEMMA ShutdownKeeps ==
    ASSUME LifecycleInv, NEW w \in WorkerStates, ShutdownWith(w), worker' = w,
           worker = "exited" => w = "exited",
           UNCHANGED <<attached, listening>>,
           immediates' \in Nat, immediates' <= immediates
    PROVE  LifecycleInv'
<1> USE DEF LifecycleInv
<1>1. CASE shuttingDown
  <2>1. UNCHANGED <<leaseCall, lease, startupTimer, serverClosed>> /\ shuttingDown' = TRUE
    BY <1>1 DEF ShutdownWith
  <2>2. LifecycleTypeOK'
    BY <2>1 DEF LifecycleTypeOK
  <2>3. OneLeaseHolder' /\ TimerNeverThreatensHolder' /\ HolderAfterListening'
    BY <2>1 DEF OneLeaseHolder, TimerNeverThreatensHolder, HolderAfterListening
  <2>4. ClosedAfterWorker'
    BY <2>1 DEF ClosedAfterWorker
  <2>5. ImmediatesHaveCause'
    BY <2>1 DEF ImmediatesHaveCause, LifecycleTypeOK
  <2> QED
    BY <2>2, <2>3, <2>4, <2>5
<1>2. CASE ~shuttingDown
  <2>1. /\ startupTimer' = FALSE /\ leaseCall' = NoLease /\ lease' = EndLease(lease)
        /\ serverClosed' = (w = "exited") /\ shuttingDown' = TRUE
    BY <1>2 DEF ShutdownWith
  <2>2. /\ lease' \in [LeaseCalls -> LeaseStates]
        /\ \A c \in LeaseCalls : lease'[c] # "held" /\ (lease[c] = "lost" => lease'[c] = "lost")
    BY <2>1 DEF EndLease, LifecycleTypeOK, LeaseStates
  <2>3. LifecycleTypeOK'
    BY <2>1, <2>2 DEF LifecycleTypeOK
  <2>4. OneLeaseHolder' /\ TimerNeverThreatensHolder' /\ HolderAfterListening'
    BY <2>1, <2>2, NoLeaseAssumption
       DEF OneLeaseHolder, TimerNeverThreatensHolder, HolderAfterListening
  <2>5. ClosedAfterWorker'
    BY <2>1 DEF ClosedAfterWorker
  <2>6. ImmediatesHaveCause'
    BY <2>2 DEF ImmediatesHaveCause, LifecycleTypeOK
  <2> QED
    BY <2>3, <2>4, <2>5, <2>6
<1> QED
  BY <1>1, <1>2

LEMMA LifecycleInvStep == LifecycleInv /\ [LifecycleNext]_lifecycleVars => LifecycleInv'
<1> SUFFICES ASSUME LifecycleInv, [LifecycleNext]_lifecycleVars PROVE LifecycleInv'
  OBVIOUS
<1> USE DEF LifecycleInv
<1>1. CASE AttachHandlers
  BY <1>1 DEF AttachHandlers, LifecycleTypeOK, OneLeaseHolder, TimerNeverThreatensHolder,
              ClosedAfterWorker, HolderAfterListening, ImmediatesHaveCause
<1>2. CASE Listen
  BY <1>2, FlagsAssumption
     DEF Listen, LifecycleTypeOK, OneLeaseHolder, TimerNeverThreatensHolder,
         ClosedAfterWorker, HolderAfterListening, ImmediatesHaveCause
<1>3. CASE StartupTimerFires
  <2>1. CASE shuttingDown
    BY <1>3, <2>1
       DEF StartupTimerFires, LifecycleTypeOK, OneLeaseHolder, TimerNeverThreatensHolder,
           ClosedAfterWorker, HolderAfterListening, ImmediatesHaveCause
  <2>2. CASE ~shuttingDown
    BY <1>3, <2>2, ShutdownKeeps DEF StartupTimerFires, LifecycleTypeOK
  <2> QED
    BY <2>1, <2>2
<1>4. ASSUME NEW c \in LeaseCalls, Lease(c) PROVE LifecycleInv'
  <2>1. LifecycleTypeOK'
    BY <1>4 DEF Lease, LifecycleTypeOK, LeaseStates
  <2>2. OneLeaseHolder'
    BY <1>4, NoLeaseAssumption DEF Lease, OneLeaseHolder, LifecycleTypeOK
  <2>3. TimerNeverThreatensHolder' /\ ClosedAfterWorker' /\ HolderAfterListening'
    BY <1>4
       DEF Lease, TimerNeverThreatensHolder, ClosedAfterWorker, HolderAfterListening
  <2>4. ImmediatesHaveCause'
    BY <1>4 DEF Lease, ImmediatesHaveCause, LifecycleTypeOK
  <2> QED
    BY <2>1, <2>2, <2>3, <2>4
<1>5. ASSUME NEW c \in LeaseCalls, LeaseLost(c) PROVE LifecycleInv'
  <2>1. LifecycleTypeOK'
    BY <1>5 DEF LeaseLost, LifecycleTypeOK, LeaseStates
  <2>2. OneLeaseHolder'
    BY <1>5, NoLeaseAssumption DEF LeaseLost, OneLeaseHolder, LifecycleTypeOK
  <2>3. TimerNeverThreatensHolder' /\ ClosedAfterWorker' /\ HolderAfterListening'
    BY <1>5
       DEF LeaseLost, TimerNeverThreatensHolder, ClosedAfterWorker, HolderAfterListening
  <2>4. ImmediatesHaveCause'
    BY <1>5 DEF LeaseLost, ImmediatesHaveCause, LifecycleTypeOK
  <2> QED
    BY <2>1, <2>2, <2>3, <2>4
<1>6. CASE ScheduledShutdown
  BY <1>6, ShutdownKeeps DEF ScheduledShutdown, LifecycleTypeOK
<1>7. CASE WorkerDies \/ WorkerTerminates
  BY <1>7
     DEF WorkerDies, WorkerTerminates, LifecycleTypeOK, WorkerStates, OneLeaseHolder,
         TimerNeverThreatensHolder, ClosedAfterWorker, HolderAfterListening, ImmediatesHaveCause
<1>8. CASE WorkerErrorEvent
  <2>1. CASE attached
    BY <1>8, <2>1, ShutdownKeeps DEF WorkerErrorEvent, LifecycleTypeOK, WorkerStates
  <2>2. CASE ~attached
    BY <1>8, <2>2
       DEF WorkerErrorEvent, LifecycleTypeOK, WorkerStates, OneLeaseHolder,
           TimerNeverThreatensHolder, ClosedAfterWorker, HolderAfterListening, ImmediatesHaveCause
  <2> QED
    BY <2>1, <2>2
<1>9. CASE WorkerExitEvent
  <2>1. CASE shuttingDown
    <3>1. /\ worker' = "exited" /\ serverClosed' = TRUE /\ leaseCall' = NoLease
          /\ lease' = EndLease(lease)
          /\ UNCHANGED <<startupTimer, shuttingDown, attached, listening, immediates>>
      BY <1>9, <2>1 DEF WorkerExitEvent
    <3>2. /\ lease' \in [LeaseCalls -> LeaseStates]
          /\ \A c \in LeaseCalls : lease'[c] # "held" /\ (lease[c] = "lost" => lease'[c] = "lost")
      BY <3>1 DEF EndLease, LifecycleTypeOK, LeaseStates
    <3>3. LifecycleTypeOK'
      BY <3>1, <3>2 DEF LifecycleTypeOK, WorkerStates
    <3>4. /\ OneLeaseHolder' /\ TimerNeverThreatensHolder' /\ HolderAfterListening'
          /\ ClosedAfterWorker'
      BY <2>1, <3>1, <3>2, NoLeaseAssumption
         DEF OneLeaseHolder, TimerNeverThreatensHolder, HolderAfterListening, ClosedAfterWorker
    <3>5. ImmediatesHaveCause'
      BY <3>1, <3>2 DEF ImmediatesHaveCause
    <3> QED
      BY <3>3, <3>4, <3>5
  <2>2. CASE ~shuttingDown /\ attached
    BY <1>9, <2>2, ShutdownKeeps DEF WorkerExitEvent, LifecycleTypeOK, WorkerStates
  <2>3. CASE ~shuttingDown /\ ~attached
    BY <1>9, <2>3
       DEF WorkerExitEvent, LifecycleTypeOK, WorkerStates, OneLeaseHolder,
           TimerNeverThreatensHolder, ClosedAfterWorker, HolderAfterListening, ImmediatesHaveCause
  <2> QED
    BY <2>1, <2>2, <2>3
<1>10. CASE UNCHANGED lifecycleVars
  BY <1>10
     DEF lifecycleVars, LifecycleTypeOK, OneLeaseHolder, TimerNeverThreatensHolder,
         ClosedAfterWorker, HolderAfterListening, ImmediatesHaveCause
<1> QED
  BY <1>1, <1>2, <1>3, <1>4, <1>5, <1>6, <1>7, <1>8, <1>9, <1>10 DEF LifecycleNext

\* One holder at most, no timer under a holder, and the server closes last.
THEOREM LifecycleSafe ==
    LifecycleSpec => [](OneLeaseHolder /\ TimerNeverThreatensHolder /\ ClosedAfterWorker)
<1>1. LifecycleInv => OneLeaseHolder /\ TimerNeverThreatensHolder /\ ClosedAfterWorker
  BY DEF LifecycleInv
<1> QED
  BY <1>1, LifecycleInvInit, LifecycleInvStep, PTL DEF LifecycleSpec

\* A server that is leased begins to shut down only for its worker or for the
\* loss of an earlier lease.
THEOREM HolderKeepsServerUpCorrect == LifecycleSpec => HolderKeepsServerUp
<1> DEFINE Cause == leaseCall # NoLease /\ ~shuttingDown /\ shuttingDown'
                      => \/ worker # "up"
                         \/ immediates > 0 /\ \E c \in LeaseCalls : lease[c] = "lost"
<1>1. LifecycleInv /\ [LifecycleNext]_lifecycleVars => [Cause]_lifecycleVars
  <2> SUFFICES ASSUME LifecycleInv, LifecycleNext, leaseCall # NoLease, ~shuttingDown,
                      shuttingDown'
               PROVE  \/ worker # "up"
                      \/ immediates > 0 /\ \E c \in LeaseCalls : lease[c] = "lost"
    BY DEF Cause
  <2>1. CASE StartupTimerFires
    BY <2>1 DEF StartupTimerFires, LifecycleInv, TimerNeverThreatensHolder
  <2>2. CASE ScheduledShutdown
    BY <2>2 DEF ScheduledShutdown, LifecycleInv, ImmediatesHaveCause
  <2>3. CASE WorkerErrorEvent \/ WorkerExitEvent
    BY <2>3 DEF WorkerErrorEvent, WorkerExitEvent
  <2> QED
    BY <2>1, <2>2, <2>3
       DEF LifecycleNext, AttachHandlers, Listen, Lease, LeaseLost, WorkerDies, WorkerTerminates
<1> QED
  BY <1>1, LifecycleInvInit, LifecycleInvStep, PTL DEF LifecycleSpec, HolderKeepsServerUp

\* Each conjunct of ShutdownIsComing is restored by the step that could end it: a
\* shutdown, a schedule or the report of the worker's exit.
LEMMA ShutdownIsComingStep ==
    LifecycleInv /\ ShutdownIsComing /\ [LifecycleNext]_lifecycleVars => ShutdownIsComing'
<1> SUFFICES ASSUME LifecycleInv, ShutdownIsComing, [LifecycleNext]_lifecycleVars
             PROVE  ShutdownIsComing'
  OBVIOUS
<1> USE DEF ShutdownIsComing
<1>1. /\ lease \in [LeaseCalls -> LeaseStates] /\ worker \in WorkerStates
      /\ immediates \in Nat /\ shuttingDown \in BOOLEAN
  BY DEF LifecycleInv, LifecycleTypeOK
<1>2. ASSUME NEW w, ShutdownWith(w), worker' = w, shuttingDown => w \in {worker, "stopped"}
      PROVE  ShutdownIsComing'
  BY <1>2 DEF ShutdownWith
<1>3. CASE AttachHandlers \/ Listen
  BY <1>3 DEF AttachHandlers, Listen
<1>4. CASE StartupTimerFires
  BY <1>2, <1>4 DEF StartupTimerFires
<1>5. ASSUME NEW c \in LeaseCalls, Lease(c) PROVE ShutdownIsComing'
  <2>1. /\ \A d \in LeaseCalls : lease'[d] = "lost" => lease[d] = "lost"
        /\ lease'[c] # "new"
        /\ UNCHANGED <<listening, immediates, shuttingDown, serverClosed, worker>>
    BY <1>1, <1>5 DEF Lease
  <2> QED
    BY <2>1
<1>6. ASSUME NEW c \in LeaseCalls, LeaseLost(c) PROVE ShutdownIsComing'
  <2>1. immediates' > 0 \/ shuttingDown'
    BY <1>1, <1>6 DEF LeaseLost
  <2>2. lease'[c] # "new" /\ UNCHANGED <<shuttingDown, serverClosed, worker>>
    BY <1>1, <1>6 DEF LeaseLost
  <2> QED
    BY <2>1, <2>2
<1>7. CASE ScheduledShutdown
  BY <1>2, <1>7 DEF ScheduledShutdown
<1>8. CASE WorkerDies \/ WorkerTerminates
  BY <1>8 DEF WorkerDies, WorkerTerminates
<1>9. CASE WorkerErrorEvent
  BY <1>2, <1>9 DEF WorkerErrorEvent
<1>10. CASE WorkerExitEvent
  <2>1. CASE shuttingDown
    BY <1>10, <2>1 DEF WorkerExitEvent
  <2>2. CASE ~shuttingDown
    BY <1>2, <1>10, <2>2 DEF WorkerExitEvent
  <2> QED
    BY <2>1, <2>2
<1>11. CASE UNCHANGED lifecycleVars
  BY <1>11 DEF lifecycleVars
<1> QED
  BY <1>3, <1>4, <1>5, <1>6, <1>7, <1>8, <1>9, <1>10, <1>11 DEF LifecycleNext

\* The shutdown that a lost lease, an unused server or a dead worker calls for is
\* never missed: in every state something that will happen still leads to it.
THEOREM ShutdownIsComingCorrect == LifecycleSpec => []ShutdownIsComing
<1>1. LifecycleInit => ShutdownIsComing
  BY DEF LifecycleInit, ShutdownIsComing
<1> QED
  BY <1>1, LifecycleInvInit, LifecycleInvStep, ShutdownIsComingStep, PTL DEF LifecycleSpec

\* Between its first step and the end of the server's process a shutdown waits for
\* something that is still to come, and the process outlives its worker.
THEOREM ShutdownInOrderCorrect == LifecycleSpec => []ShutdownInOrder
BY LifecycleSafe, ShutdownIsComingCorrect, PTL DEF ShutdownInOrder

-----------------------------------------------------------------------------
(* Ports as sequences                                                      *)

\* Taking the first message of a port.
LEMMA TailFacts ==
    ASSUME NEW S, NEW s \in Seq(S), s # <<>>
    PROVE  /\ Len(s) \in Nat
           /\ DOMAIN s = 1..Len(s)
           /\ 1 \in DOMAIN s
           /\ Head(s) = s[1]
           /\ Head(s) \in S
           /\ Tail(s) \in Seq(S)
           /\ DOMAIN Tail(s) = 1..Len(s) - 1
           /\ \A i \in DOMAIN Tail(s) : i + 1 \in DOMAIN s /\ Tail(s)[i] = s[i + 1]
<1>1. Len(s) \in Nat /\ DOMAIN s = 1..Len(s) /\ Len(s) > 0
  BY LenProperties, EmptySeq
<1>2. /\ Head(s) \in S
      /\ Tail(s) \in Seq(S)
      /\ Len(Tail(s)) = Len(s) - 1
      /\ \A i \in 1..Len(Tail(s)) : Tail(s)[i] = s[i + 1]
  BY HeadTailProperties
<1>3. DOMAIN Tail(s) = 1..Len(s) - 1
  BY <1>2, LenProperties
<1>4. Head(s) = s[1]
  BY <1>1
<1> QED
  BY <1>1, <1>2, <1>3, <1>4

\* Adding messages to a port.
LEMMA PostFacts ==
    ASSUME NEW S, NEW s \in Seq(S), NEW t \in Seq(S)
    PROVE  /\ s \o t \in Seq(S)
           /\ Len(s) \in Nat /\ Len(t) \in Nat
           /\ DOMAIN s = 1..Len(s) /\ DOMAIN t = 1..Len(t)
           /\ DOMAIN (s \o t) = 1..Len(s) + Len(t)
           /\ \A i \in DOMAIN s : i \in DOMAIN (s \o t) /\ (s \o t)[i] = s[i]
           /\ \A i \in DOMAIN (s \o t) \ DOMAIN s :
                i - Len(s) \in DOMAIN t /\ (s \o t)[i] = t[i - Len(s)]
<1>1. /\ Len(s) \in Nat /\ Len(t) \in Nat
      /\ DOMAIN s = 1..Len(s) /\ DOMAIN t = 1..Len(t)
  BY LenProperties
<1>2. /\ s \o t \in Seq(S)
      /\ Len(s \o t) = Len(s) + Len(t)
      /\ \A i \in 1..Len(s) + Len(t) : (s \o t)[i] =
           IF i <= Len(s) THEN s[i] ELSE t[i - Len(s)]
  BY ConcatProperties
<1>3. DOMAIN (s \o t) = 1..Len(s) + Len(t)
  BY <1>2, LenProperties
<1>4. ASSUME NEW i \in DOMAIN s PROVE i \in DOMAIN (s \o t) /\ (s \o t)[i] = s[i]
  BY <1>1, <1>2, <1>3, <1>4
<1>5. ASSUME NEW i \in DOMAIN (s \o t) \ DOMAIN s
      PROVE  i - Len(s) \in DOMAIN t /\ (s \o t)[i] = t[i - Len(s)]
  BY <1>1, <1>2, <1>3, <1>5
<1> QED
  BY <1>1, <1>2, <1>3, <1>4, <1>5

\* SignalMessages sends what at most one canceller asks for.
LEMMA SetToSeqSmall ==
    ASSUME NEW m
    PROVE  SetToSeq({}) = <<>> /\ SetToSeq({m}) = <<m>>
<1>1. SetToSeq({}) = <<>>
  <2>1. Cardinality({}) = 0
    BY FS_EmptySet
  <2>2. SetToSeq({}) = CHOOSE f \in [1..0 -> {}] : IsInjective(f)
    BY <2>1 DEF SetToSeq
  <2>3. \A f \in [1..0 -> {}] : f = <<>>
    <3> SUFFICES ASSUME NEW f \in [1..0 -> {}] PROVE f = <<>>
      OBVIOUS
    <3>1. DOMAIN f = {} /\ f = [x \in {} |-> f[x]]
      BY Zenon
    <3>2. <<>> = [x \in {} |-> f[x]]
      OBVIOUS
    <3> QED
      BY <3>1, <3>2
  <2>4. <<>> \in [1..0 -> {}] /\ IsInjective(<<>>)
    BY DEF IsInjective
  <2> QED
    BY <2>2, <2>3, <2>4
<1>2. SetToSeq({m}) = <<m>>
  <2>1. Cardinality({m}) = 1
    BY FS_Singleton
  <2>2. SetToSeq({m}) = CHOOSE f \in [1..1 -> {m}] : IsInjective(f)
    BY <2>1 DEF SetToSeq
  <2>3. <<m>> \in [1..1 -> {m}] /\ IsInjective(<<m>>)
    BY DEF IsInjective
  <2>4. \A f \in [1..1 -> {m}] : f = <<m>>
    OBVIOUS
  <2> QED
    BY <2>2, <2>3, <2>4
<1> QED
  BY <1>1, <1>2

-----------------------------------------------------------------------------
(* Steps of the server are steps of its queue and of its lifecycle         *)

\* closed is set by the step that sets state.shuttingDown.
ClosedIsShutDown == closed = shuttingDown

LEMMA ServerStepIsLifecycleStep ==
    [ServerNext]_serverVars => [LifecycleNext]_lifecycleVars
BY DEF ServerNext, serverVars, Submit, SubmitCancelled, TransportCancelled, Analyse,
       FailAnalysis, CancelAnalysis, CancelTimesOut, Receive, ReceiveEvent, ReceiveComplete,
       ReceiveCancelComplete, LifecycleEvent, WorkerEvent, WorkerHandles, BeginAnalysis,
       RejectAnalysis, HandleCancel, HandleClose, BeginFile, EndFile, FinishAnalysis,
       EndAnalysis, LifecycleNext

LEMMA ClosedIsShutDownStep ==
    ASSUME ClosedIsShutDown, LifecycleTypeOK, [ServerNext]_serverVars
    PROVE  ClosedIsShutDown'
<1> USE DEF ClosedIsShutDown
<1>1. CASE LifecycleEvent \/ WorkerEvent
  <2>1. CASE shuttingDown' /\ ~shuttingDown
    BY <1>1, <2>1 DEF LifecycleEvent, WorkerEvent, ShutdownEffects, CloseEntries
  <2>2. CASE ~(shuttingDown' /\ ~shuttingDown)
    <3>1. closed' = closed
      BY <1>1, <2>2 DEF LifecycleEvent, WorkerEvent, ShutdownEffects
    <3>2. shuttingDown' = shuttingDown
      BY <1>1, <2>2
         DEF LifecycleEvent, WorkerEvent, AttachHandlers, Listen, StartupTimerFires,
             ShutdownWith, Lease, LeaseLost, ScheduledShutdown, WorkerDies, WorkerTerminates,
             WorkerErrorEvent, WorkerExitEvent, LifecycleTypeOK
    <3> QED
      BY <3>1, <3>2
  <2> QED
    BY <2>1, <2>2
<1>2. CASE \E r \in Requests : Submit(r) \/ SubmitCancelled(r) \/ TransportCancelled(r)
  BY <1>2
     DEF Submit, SubmitCancelled, TransportCancelled, Enqueue, Refuse, StartAtOnce, JoinLine,
         CancelTransportCall, CancelEntry, Withdraw, ShareSignal, SendSignal, AnswerInactive,
         lifecycleVars, queueVars
<1>3. CASE \E r \in Requests : Analyse(r) \/ FailAnalysis(r)
  BY <1>3
     DEF Analyse, BeginFile, EndFile, FinishAnalysis, FailAnalysis, EndAnalysis, lifecycleVars,
         queueVars
<1>4. CASE (\E c \in CancelCalls : CancelAnalysis(c)) \/ (\E c \in Cancellers : CancelTimesOut(c))
  BY <1>4
     DEF CancelAnalysis, CancelActiveAnalysis, CancelEntry, Withdraw, ShareSignal, SendSignal,
         AnswerInactive, CancelTimesOut, SignalSettles, lifecycleVars
<1>5. CASE Receive
  BY <1>5
     DEF Receive, ReceiveEvent, ReceiveComplete, ReceiveCancelComplete, Complete, SignalSettles,
         lifecycleVars, queueVars
<1>6. CASE WorkerHandles \/ UNCHANGED serverVars
  BY <1>6
     DEF WorkerHandles, BeginAnalysis, RejectAnalysis, HandleCancel, HandleClose, serverVars,
         lifecycleVars, queueVars
<1> QED
  BY <1>1, <1>2, <1>3, <1>4, <1>5, <1>6 DEF ServerNext

\* The step is one of the queue's, or the worker's end fails every signal.
LEMMA ServerStepIsQueueStep ==
    ASSUME ClosedIsShutDown, fromWorker \in Seq(FromWorker), [ServerNext]_serverVars
    PROVE  \/ [QueueNext]_queueVars
           \/ SignalsFail /\ (CloseEntries \/ UNCHANGED bookkeepingVars)
<1>1. CASE LifecycleEvent
  <2>1. CASE shuttingDown' /\ ~shuttingDown
    BY <1>1, <2>1
       DEF LifecycleEvent, ShutdownEffects, ClosedIsShutDown, QueueNext, Close
  <2>2. CASE ~(shuttingDown' /\ ~shuttingDown)
    BY <1>1, <2>2 DEF LifecycleEvent, ShutdownEffects, queueVars, signalVars
  <2> QED
    BY <2>1, <2>2
<1>2. CASE WorkerEvent
  BY <1>2 DEF WorkerEvent, ShutdownEffects, bookkeepingVars
<1>3. CASE \E r \in Requests : Submit(r) \/ SubmitCancelled(r) \/ TransportCancelled(r)
  BY <1>3, ServerAssumption
     DEF Submit, SubmitCancelled, TransportCancelled, QueueNext
<1>4. CASE \E r \in Requests : Analyse(r) \/ FailAnalysis(r)
  BY <1>4 DEF Analyse, BeginFile, EndFile, FinishAnalysis, FailAnalysis, EndAnalysis
<1>5. CASE (\E c \in CancelCalls : CancelAnalysis(c)) \/ (\E c \in Cancellers : CancelTimesOut(c))
  BY <1>5, ServerAssumption DEF CancelAnalysis, CancelTimesOut, QueueNext
<1>6. CASE Receive
  <2>1. CASE ReceiveComplete
    <3>1. fromWorker # <<>> /\ Head(fromWorker).type = "complete"
      BY <2>1 DEF ReceiveComplete, Deliver
    <3>2. Head(fromWorker).id \in Requests
      BY <3>1, TailFacts DEF FromWorker
    <3> QED
      BY <2>1, <3>2 DEF ReceiveComplete, QueueNext
  <2>2. CASE ReceiveEvent \/ ReceiveCancelComplete
    BY <2>2 DEF ReceiveEvent, ReceiveCancelComplete, QueueNext
  <2> QED
    BY <1>6, <2>1, <2>2 DEF Receive
<1>7. CASE WorkerHandles \/ UNCHANGED serverVars
  BY <1>7
     DEF WorkerHandles, BeginAnalysis, RejectAnalysis, HandleCancel, HandleClose, serverVars
<1> QED
  BY <1>1, <1>2, <1>3, <1>4, <1>5, <1>6, <1>7 DEF ServerNext

LEMMA SignalsFailKeepsOneSignal ==
    ASSUME TypeOK, OneSignal, SignalsFail
    PROVE  OneSignal'
<1>1. /\ answer' = answer /\ target' = target
      /\ \A c \in Cancellers :
           signal'[c] = IF signal[c] = "inFlight" THEN "failed" ELSE signal[c]
      /\ \A r \in Requests : cancellationResult'[r] =
           IF \E c \in Cancellers : cancellationResult[r] = c /\ signal[c] = "inFlight"
           THEN None ELSE cancellationResult[r]
  BY DEF SignalsFail
<1>2. ASSUME NEW r \in Requests, cancellationResult'[r] # None
      PROVE  /\ target'[cancellationResult'[r]] = r
             /\ signal'[cancellationResult'[r]] \in {"inFlight", "acknowledged"}
  <2>1. /\ cancellationResult'[r] = cancellationResult[r]
        /\ cancellationResult[r] \in Cancellers
        /\ signal[cancellationResult[r]] # "inFlight"
    BY <1>1, <1>2 DEF TypeOK
  <2> QED
    BY <1>1, <1>2, <2>1 DEF OneSignal
<1>3. ASSUME NEW c \in Cancellers, signal'[c] \in {"inFlight", "acknowledged"}
      PROVE  target'[c] # None /\ cancellationResult'[target'[c]] = c
  <2>1. signal[c] = "acknowledged"
    BY <1>1, <1>3
  <2>2. target[c] \in Requests /\ cancellationResult[target[c]] = c
    BY <2>1 DEF OneSignal, TypeOK
  <2> QED
    BY <1>1, <2>1, <2>2, NoneAssumption
<1> QED
  BY <1>1, <1>2, <1>3 DEF OneSignal, Idle

\* What the queue's own proofs give for each of its steps holds of the server's.
QueueInv == TypeOK /\ Bookkeeping /\ OneSignal

LEMMA QueueInvStep ==
    ASSUME QueueInv, ClosedIsShutDown, fromWorker \in Seq(FromWorker), [ServerNext]_serverVars
    PROVE  QueueInv'
<1>1. CASE [QueueNext]_queueVars
  BY <1>1, TypeStep, BookkeepingStep, OneSignalStep DEF QueueInv
<1>2. CASE SignalsFail /\ (CloseEntries \/ UNCHANGED bookkeepingVars)
  <2>1. /\ cancellationResult' \in [Requests -> Cancellers \cup {None}]
        /\ signal' \in [Cancellers -> SignalStates]
        /\ answer' = answer /\ target' = target
    BY <1>2 DEF SignalsFail, QueueInv, TypeOK, SignalStates
  <2>2. TypeOK'
    BY <1>2, <2>1, EmptySeq
       DEF CloseEntries, bookkeepingVars, QueueInv, TypeOK, EntryStates, Outcomes
  <2>3. Bookkeeping'
    BY <1>2, CloseKeepsBookkeeping, BookkeepingStutter DEF QueueInv
  <2> QED
    BY <1>2, <2>2, <2>3, SignalsFailKeepsOneSignal DEF QueueInv
<1> QED
  BY <1>1, <1>2, ServerStepIsQueueStep

-----------------------------------------------------------------------------
(* What each step of the main thread posts to the worker                   *)

AnalyzeMessage(r) == [type |-> "analyze", id |-> r]
CancelMessage(c) == [type |-> "cancel", id |-> c]

LEMMA NoSignalMessages ==
    ASSUME \A c \in Cancellers : signal[c] = "none" => signal'[c] # "inFlight"
    PROVE  SignalMessages = <<>>
<1>1. {[type |-> "cancel", id |-> c] :
          c \in {d \in Cancellers : signal[d] = "none" /\ signal'[d] = "inFlight"}} = {}
  OBVIOUS
<1> QED
  BY <1>1, SetToSeqSmall DEF SignalMessages

LEMMA OneSignalMessage ==
    ASSUME TypeOK, NEW c \in Cancellers, signal[c] = "none",
           signal' = [signal EXCEPT ![c] = "inFlight"]
    PROVE  SignalMessages = <<CancelMessage(c)>>
<1>1. {d \in Cancellers : signal[d] = "none" /\ signal'[d] = "inFlight"} = {c}
  BY DEF TypeOK
<1>2. {[type |-> "cancel", id |-> d] :
          d \in {d \in Cancellers : signal[d] = "none" /\ signal'[d] = "inFlight"}}
        = {CancelMessage(c)}
  BY <1>1 DEF CancelMessage
<1> QED
  BY <1>2, SetToSeqSmall DEF SignalMessages

LEMMA SubmitPosts ==
    ASSUME QueueInv, toWorker \in Seq(ToWorker), NEW r \in Requests, Submit(r)
    PROVE  \/ StartAtOnce(r) /\ toWorker' = toWorker \o <<AnalyzeMessage(r)>>
           \/ (Refuse(r) \/ JoinLine(r)) /\ toWorker' = toWorker
<1>1. SignalMessages = <<>>
  BY NoSignalMessages
     DEF Submit, Enqueue, Refuse, StartAtOnce, JoinLine, signalVars
<1>2. toWorker' = toWorker \o RunMessages \o <<>>
  BY <1>1 DEF Submit, MainEffects
<1>3. CASE StartAtOnce(r)
  <2>1. RunMessages = <<AnalyzeMessage(r)>>
    BY <1>3, NoneAssumption DEF StartAtOnce, RunMessages, AnalyzeMessage
  <2>2. AnalyzeMessage(r) \in ToWorker
    BY DEF AnalyzeMessage, ToWorker
  <2>3. <<AnalyzeMessage(r)>> \in Seq(ToWorker)
    BY <2>2
  <2>4. toWorker \o <<AnalyzeMessage(r)>> \in Seq(ToWorker)
    BY <2>3, PostFacts
  <2> QED
    BY <1>2, <1>3, <2>1, <2>4, ConcatEmptySeq
<1>4. CASE Refuse(r) \/ JoinLine(r)
  <2>1. RunMessages = <<>>
    BY <1>4 DEF Refuse, JoinLine, RunMessages
  <2> QED
    BY <1>2, <1>4, <2>1, ConcatEmptySeq
<1> QED
  BY <1>3, <1>4 DEF Submit, Enqueue

\* The run of the next entry in the line is posted with the completion.
LEMMA CompletePosts ==
    ASSUME QueueInv, toWorker \in Seq(ToWorker), NEW r \in Requests,
           NEW how \in {"resolved", "rejected"}, Complete(r, how), MainEffects
    PROVE  /\ ~closed /\ active = r /\ entryState[r] = "active"
           /\ \/ /\ active' = None
                 /\ entryState' = [entryState EXCEPT ![r] = "settled"]
                 /\ toWorker' = toWorker
              \/ \E h \in Requests :
                   /\ h # r
                   /\ entryState[h] = "pending"
                   /\ active' = h
                   /\ entryState' = [[entryState EXCEPT ![r] = "settled"] EXCEPT ![h] = "active"]
                   /\ toWorker' = toWorker \o <<AnalyzeMessage(h)>>
<1>1. active = r /\ entryState[r] = "active" /\ ~closed
  BY NoneAssumption DEF Complete, QueueInv, Bookkeeping, ClosedIsEmpty
<1>2. SignalMessages = <<>>
  BY NoSignalMessages DEF Complete, signalVars
<1>3. toWorker' = toWorker \o RunMessages \o <<>>
  BY <1>2 DEF MainEffects
<1>4. CASE pending = <<>>
  <2>1. active' = None /\ entryState' = [entryState EXCEPT ![r] = "settled"]
    BY <1>4 DEF Complete, StartNext
  <2>2. RunMessages = <<>>
    BY <2>1 DEF RunMessages
  <2> QED
    BY <1>1, <1>3, <2>1, <2>2, ConcatEmptySeq
<1>5. CASE pending # <<>>
  <2>1. PICK h \in Requests : h = Head(pending) /\ h = pending[1] /\ 1 \in DOMAIN pending
    BY <1>5, LineFacts DEF QueueInv
  <2>2. /\ active' = h
        /\ entryState' = [[entryState EXCEPT ![r] = "settled"] EXCEPT ![h] = "active"]
    BY <1>5, <2>1 DEF Complete, StartNext
  <2>3. entryState[h] = "pending" /\ h # r
    BY <1>1, <2>1 DEF QueueInv, Bookkeeping, EntryBookkeeping, PendingAgrees
  <2>4. RunMessages = <<AnalyzeMessage(h)>>
    BY <1>1, <2>2, <2>3, NoneAssumption DEF RunMessages, AnalyzeMessage
  <2>5. <<AnalyzeMessage(h)>> \in Seq(ToWorker)
    BY DEF AnalyzeMessage, ToWorker
  <2>6. toWorker \o <<AnalyzeMessage(h)>> \in Seq(ToWorker)
    BY <2>5, PostFacts
  <2> QED
    BY <1>1, <1>3, <2>2, <2>3, <2>4, <2>6, ConcatEmptySeq
<1> QED
  BY <1>4, <1>5

\* What the cancellation of a call and CancelAnalysis have in common.
CancelStep(c) ==
    /\ Idle(c)
    /\ AnswerInactive(c) \/ \E r \in Requests : CancelEntry(c, r)
    /\ MainEffects
    /\ UNCHANGED <<lifecycleVars, written, fromWorker, portOpen, analysisVars>>

LEMMA CancelSteps ==
    ASSUME QueueInv
    PROVE  /\ \A r \in Requests : TransportCancelled(r) => r \in Cancellers /\ CancelStep(r)
           /\ \A c \in CancelCalls : CancelAnalysis(c) =>
                c \in Cancellers /\ CancelStep(c) /\ UNCHANGED transportCancelled
<1>1. ASSUME NEW r \in Requests, TransportCancelled(r) PROVE r \in Cancellers /\ CancelStep(r)
  BY <1>1, ServerAssumption DEF TransportCancelled, CancelTransportCall, CancelStep
<1>2. ASSUME NEW c \in CancelCalls, CancelAnalysis(c)
      PROVE  c \in Cancellers /\ CancelStep(c) /\ UNCHANGED transportCancelled
  <2>1. CASE active = None
    BY <1>2, <2>1, ServerAssumption DEF CancelAnalysis, CancelActiveAnalysis, CancelStep
  <2>2. CASE active # None
    <3>1. active \in Requests
      BY <2>2 DEF QueueInv, TypeOK
    <3> QED
      BY <1>2, <2>2, <3>1, ServerAssumption DEF CancelAnalysis, CancelActiveAnalysis, CancelStep
  <2> QED
    BY <2>1, <2>2
<1> QED
  BY <1>1, <1>2

\* A message is posted exactly when the canceller starts a signal of its own.
LEMMA CancelPosts ==
    ASSUME QueueInv, toWorker \in Seq(ToWorker), NEW c \in Cancellers, CancelStep(c)
    PROVE  \/ \E r \in Requests :
                /\ SendSignal(c, r)
                /\ entryState[r] = "active" /\ active = r /\ ~closed
                /\ answer[c] = None /\ signal[c] = "none"
                /\ toWorker' = toWorker \o <<CancelMessage(c)>>
           \/ /\ AnswerInactive(c) \/ \E r \in Requests : Withdraw(c, r) \/ ShareSignal(c, r)
              /\ toWorker' = toWorker
<1>1. RunMessages = <<>>
  BY DEF CancelStep, CancelEntry, Withdraw, AnswerInactive, ShareSignal, SendSignal, RunMessages
<1>2. toWorker' = toWorker \o <<>> \o SignalMessages
  BY <1>1 DEF CancelStep, MainEffects
<1>3. toWorker' = toWorker \o SignalMessages
  BY <1>2, ConcatEmptySeq
<1>4. ASSUME NEW r \in Requests, SendSignal(c, r), entryState[r] = "active", active = r
      PROVE  /\ answer[c] = None /\ signal[c] = "none" /\ ~closed
             /\ toWorker' = toWorker \o <<CancelMessage(c)>>
  <2>1. answer[c] = None /\ signal[c] = "none"
    BY DEF CancelStep, Idle, QueueInv, OneSignal
  <2>2. ~closed
    BY <1>4, NoneAssumption DEF QueueInv, Bookkeeping, ClosedIsEmpty
  <2>3. SignalMessages = <<CancelMessage(c)>>
    BY <1>4, <2>1, OneSignalMessage DEF SendSignal, QueueInv
  <2> QED
    BY <1>3, <2>1, <2>2, <2>3
<1>5. ASSUME signal' = signal PROVE toWorker' = toWorker
  <2>1. SignalMessages = <<>>
    BY <1>5, NoSignalMessages
  <2> QED
    BY <1>3, <2>1, ConcatEmptySeq
<1>6. (AnswerInactive(c) \/ \E r \in Requests : Withdraw(c, r) \/ ShareSignal(c, r))
        => signal' = signal
  BY DEF AnswerInactive, Withdraw, ShareSignal
<1> QED
  BY <1>4, <1>5, <1>6 DEF CancelStep, CancelEntry

\* The first shutdown posts nothing that starts an analysis, and its
\* cancellation is in nobody's name.
LEMMA ShutdownPosts ==
    ASSUME toWorker \in Seq(ToWorker), shuttingDown', ~shuttingDown, ShutdownEffects
    PROVE  /\ CloseEntries
           /\ AnswerCalls
           /\ \E messages \in Seq(ToWorker) :
                /\ toWorker' = toWorker \o messages
                /\ \A i \in DOMAIN messages :
                     messages[i].type = "close" \/ messages[i] = CancelMessage("shutdown")
<1>1. CloseEntries /\ AnswerCalls /\ toWorker' = toWorker \o ShutdownMessages
  BY DEF ShutdownEffects
<1> DEFINE first == IF active # None THEN <<[type |-> "cancel", id |-> "shutdown"]>> ELSE <<>>
           last == <<[type |-> "close"]>>
<1>2. [type |-> "close"] \in ToWorker /\ [type |-> "cancel", id |-> "shutdown"] \in ToWorker
  BY DEF ToWorker
<1>3. first \in Seq(ToWorker) /\ last \in Seq(ToWorker)
  BY <1>2
<1>4. /\ \A i \in DOMAIN first : first[i] = CancelMessage("shutdown")
      /\ \A i \in DOMAIN last : last[i].type = "close"
  BY DEF CancelMessage
<1>5. ShutdownMessages = first \o last
  BY DEF ShutdownMessages
<1> HIDE DEF first, last
<1>6. /\ ShutdownMessages \in Seq(ToWorker)
      /\ \A i \in DOMAIN ShutdownMessages :
           \/ ShutdownMessages[i].type = "close"
           \/ ShutdownMessages[i] = CancelMessage("shutdown")
  BY <1>3, <1>4, <1>5, PostFacts
<1> QED
  BY <1>1, <1>6

-----------------------------------------------------------------------------
(* Types                                                                   *)

\* BeginFile checks that a file is left; nothing else takes one.
FileInHand == \A r \in Requests : step[r] = "inFile" => filesLeft[r] > 0

BaseInv == ServerTypeOK /\ FileInHand /\ QueueInv /\ LifecycleInv /\ ClosedIsShutDown

LEMMA BaseInvInit == ServerInit => BaseInv
<1> SUFFICES ASSUME ServerInit PROVE BaseInv
  OBVIOUS
<1>1. QueueInv
  BY TypeInit, BookkeepingInit, OneSignalInit DEF ServerInit, QueueInv
<1>2. LifecycleInv
  BY LifecycleInvInit DEF ServerInit
<1>3. ClosedIsShutDown
  BY DEF ServerInit, QueueInit, LifecycleInit, ClosedIsShutDown
<1>4. ServerTypeOK
  BY <1>1, <1>2, ServerAssumption, EmptySeq
     DEF ServerInit, QueueInv, LifecycleInv, ServerTypeOK, Replies, Steps
<1>5. FileInHand
  BY DEF ServerInit, FileInHand
<1> QED
  BY <1>1, <1>2, <1>3, <1>4, <1>5 DEF BaseInv

\* The first message of a port in the type of the port.
LEMMA HeadTypes ==
    ASSUME BaseInv
    PROVE  /\ toWorker # <<>> =>
                /\ Tail(toWorker) \in Seq(ToWorker)
                /\ Head(toWorker) \in ToWorker
                /\ Head(toWorker).type = "analyze" => Head(toWorker).id \in Requests
                /\ Head(toWorker).type = "cancel" =>
                     Head(toWorker).id \in Cancellers \cup {"shutdown"}
           /\ fromWorker # <<>> =>
                /\ Tail(fromWorker) \in Seq(FromWorker)
                /\ Head(fromWorker) \in FromWorker
                /\ Head(fromWorker).type = "event" =>
                     Head(fromWorker).id \in Requests /\ Head(fromWorker).body \in Events
                /\ Head(fromWorker).type = "complete" =>
                     Head(fromWorker).id \in Requests /\ Head(fromWorker).ok \in BOOLEAN
                /\ Head(fromWorker).type = "cancel-complete" =>
                     /\ Head(fromWorker).id \in Cancellers \cup {"shutdown"}
                     /\ Head(fromWorker).ok \in BOOLEAN
<1>1. toWorker \in Seq(ToWorker) /\ fromWorker \in Seq(FromWorker)
  BY DEF BaseInv, ServerTypeOK
<1>2. ASSUME toWorker # <<>>
      PROVE  Tail(toWorker) \in Seq(ToWorker) /\ Head(toWorker) \in ToWorker
  BY <1>1, <1>2, TailFacts
<1>3. ASSUME fromWorker # <<>>
      PROVE  Tail(fromWorker) \in Seq(FromWorker) /\ Head(fromWorker) \in FromWorker
  BY <1>1, <1>3, TailFacts
<1> QED
  BY <1>2, <1>3 DEF ToWorker, FromWorker

\* The messages that one step of the worker posts.
LEMMA PostTypes ==
    ASSUME NEW r \in Requests, NEW body \in Events, NEW ok \in BOOLEAN
    PROVE  /\ EventMessages(r, body) \in Seq(FromWorker)
           /\ <<Completion(r, ok)>> \in Seq(FromWorker)
           /\ Append(EventMessages(r, body), Completion(r, ok)) \in Seq(FromWorker)
<1>1. Completion(r, ok) \in FromWorker /\ [type |-> "event", id |-> r, body |-> body] \in FromWorker
  BY DEF Completion, FromWorker
<1>2. EventMessages(r, body) \in Seq(FromWorker)
  BY <1>1 DEF EventMessages
<1> QED
  BY <1>1, <1>2

LEMMA PortTypeStep ==
    ASSUME BaseInv, ServerNext
    PROVE  toWorker' \in Seq(ToWorker) /\ fromWorker' \in Seq(FromWorker) /\ portOpen' \in BOOLEAN
<1> USE DEF BaseInv
<1>1. toWorker \in Seq(ToWorker) /\ fromWorker \in Seq(FromWorker) /\ portOpen \in BOOLEAN
  BY DEF ServerTypeOK
<1>2. \A m \in ToWorker : toWorker \o <<m>> \in Seq(ToWorker)
  BY <1>1, PostFacts
<1>3. /\ \A r \in Requests : AnalyzeMessage(r) \in ToWorker
      /\ \A c \in Cancellers : CancelMessage(c) \in ToWorker
  BY DEF AnalyzeMessage, CancelMessage, ToWorker
<1>4. ASSUME NEW r \in Requests, Submit(r) \/ SubmitCancelled(r)
      PROVE  toWorker' \in Seq(ToWorker) /\ fromWorker' = fromWorker /\ portOpen' = portOpen
  <2>1. CASE Submit(r)
    BY <1>1, <1>2, <1>3, <2>1, SubmitPosts DEF Submit
  <2>2. CASE SubmitCancelled(r)
    BY <1>1, <2>2 DEF SubmitCancelled, portVars
  <2> QED
    BY <1>4, <2>1, <2>2
<1>5. ASSUME NEW c \in Cancellers, CancelStep(c)
      PROVE  toWorker' \in Seq(ToWorker) /\ fromWorker' = fromWorker /\ portOpen' = portOpen
  <2>1. toWorker' \in Seq(ToWorker)
    BY <1>1, <1>2, <1>3, <1>5, CancelPosts
  <2> QED
    BY <1>5, <2>1 DEF CancelStep
<1>6. ASSUME NEW c \in Cancellers, CancelTimesOut(c)
      PROVE  UNCHANGED portVars
  BY <1>6 DEF CancelTimesOut
<1>7. ASSUME Receive
      PROVE  toWorker' \in Seq(ToWorker) /\ fromWorker' \in Seq(FromWorker) /\ portOpen' = portOpen
  <2>1. fromWorker # <<>> /\ fromWorker' = Tail(fromWorker) /\ portOpen' = portOpen
    BY <1>7 DEF Receive, ReceiveEvent, ReceiveComplete, ReceiveCancelComplete, Deliver
  <2>2. CASE ReceiveComplete
    <3>1. Head(fromWorker).id \in Requests
      BY <2>1, <2>2, HeadTypes DEF ReceiveComplete, Deliver
    <3>2. CASE toWorker' = toWorker
      BY <1>1, <2>1, <3>2, HeadTypes
    <3>3. CASE toWorker' # toWorker
      <4>1. \E how \in {"resolved", "rejected"} :
              Complete(Head(fromWorker).id, how) /\ MainEffects
        BY <2>2, <3>3 DEF ReceiveComplete
      <4>2. toWorker' = toWorker \/ \E h \in Requests : toWorker' = toWorker \o <<AnalyzeMessage(h)>>
        BY <1>1, <3>1, <4>1, CompletePosts
      <4>3. toWorker' \in Seq(ToWorker)
        BY <1>2, <1>3, <3>3, <4>2
      <4> QED
        BY <2>1, <4>3, HeadTypes
    <3> QED
      BY <3>2, <3>3
  <2>3. CASE ReceiveEvent \/ ReceiveCancelComplete
    BY <1>1, <2>1, <2>3, HeadTypes DEF ReceiveEvent, ReceiveCancelComplete
  <2> QED
    BY <1>7, <2>2, <2>3 DEF Receive
<1>8. ASSUME LifecycleEvent \/ WorkerEvent
      PROVE  toWorker' \in Seq(ToWorker) /\ fromWorker' \in Seq(FromWorker) /\ portOpen' = portOpen
  <2>1. toWorker' \in Seq(ToWorker)
    <3>1. CASE shuttingDown' /\ ~shuttingDown
      <4>1. PICK messages \in Seq(ToWorker) : toWorker' = toWorker \o messages
        BY <1>1, <1>8, <3>1, ShutdownPosts DEF LifecycleEvent, WorkerEvent
      <4> QED
        BY <1>1, <4>1, PostFacts
    <3>2. CASE ~(shuttingDown' /\ ~shuttingDown)
      BY <1>1, <1>8, <3>2 DEF LifecycleEvent, WorkerEvent, ShutdownEffects
    <3> QED
      BY <3>1, <3>2
  <2> QED
    BY <1>1, <1>8, <2>1, EmptySeq DEF LifecycleEvent, WorkerEvent
<1>9. ASSUME NEW messages \in Seq(FromWorker), Post(messages) PROVE fromWorker' \in Seq(FromWorker)
  BY <1>1, <1>9, PostFacts DEF Post
<1>10. ASSUME WorkerHandles
       PROVE  toWorker' \in Seq(ToWorker) /\ fromWorker' \in Seq(FromWorker) /\ portOpen' \in BOOLEAN
  <2>1. toWorker # <<>> /\ toWorker' = Tail(toWorker)
    BY <1>10
       DEF WorkerHandles, BeginAnalysis, RejectAnalysis, HandleCancel, HandleClose, Take
  <2>2. toWorker' \in Seq(ToWorker)
    BY <2>1, HeadTypes
  <2>3. CASE BeginAnalysis \/ HandleClose
    BY <1>1, <2>2, <2>3 DEF BeginAnalysis, HandleClose
  <2>4. CASE RejectAnalysis
    <3>1. Head(toWorker).id \in Requests
      BY <2>1, <2>4, HeadTypes DEF RejectAnalysis, Take
    <3>2. <<Completion(Head(toWorker).id, FALSE)>> \in Seq(FromWorker)
      BY <3>1, PostTypes DEF Events
    <3>3. fromWorker' \in Seq(FromWorker)
      BY <1>9, <2>4, <3>2 DEF RejectAnalysis
    <3> QED
      BY <1>1, <2>2, <2>4, <3>3 DEF RejectAnalysis
  <2>5. CASE HandleCancel
    <3>1. Head(toWorker).id \in Cancellers \cup {"shutdown"}
      BY <2>1, <2>5, HeadTypes DEF HandleCancel, Take
    <3>2. <<[type |-> "cancel-complete", id |-> Head(toWorker).id,
             ok |-> analysisStatus # None]>> \in Seq(FromWorker)
      BY <3>1 DEF FromWorker
    <3>3. fromWorker' \in Seq(FromWorker)
      BY <1>9, <2>5, <3>2 DEF HandleCancel
    <3> QED
      BY <1>1, <2>2, <2>5, <3>3 DEF HandleCancel
  <2> QED
    BY <1>10, <2>3, <2>4, <2>5 DEF WorkerHandles
<1>11. ASSUME NEW r \in Requests, Analyse(r) \/ FailAnalysis(r)
       PROVE  toWorker' = toWorker /\ fromWorker' \in Seq(FromWorker) /\ portOpen' = portOpen
  <2>1. CASE BeginFile(r)
    BY <1>1, <2>1 DEF BeginFile, portVars
  <2>2. CASE EndFile(r)
    BY <1>9, <2>2, PostTypes DEF EndFile, Events
  <2>3. CASE FinishAnalysis(r)
    BY <1>9, <2>3, PostTypes DEF FinishAnalysis, EndAnalysis, Events
  <2>4. CASE FailAnalysis(r)
    BY <1>9, <2>4, PostTypes DEF FailAnalysis, EndAnalysis, Events
  <2> QED
    BY <1>11, <2>1, <2>2, <2>3, <2>4 DEF Analyse
<1> QED
  BY <1>1, <1>4, <1>5, <1>6, <1>7, <1>8, <1>10, <1>11, CancelSteps DEF ServerNext, portVars

\* An outcome that a call was told is never open again.
LEMMA ServerOutcomeKept ==
    ASSUME BaseInv, [ServerNext]_serverVars, NEW r \in Requests, outcome[r] # "open"
    PROVE  outcome'[r] = outcome[r]
<1>1. TypeOK /\ OutcomeAgrees /\ ClosedIsShutDown /\ fromWorker \in Seq(FromWorker)
  BY DEF BaseInv, QueueInv, Bookkeeping, EntryBookkeeping, ServerTypeOK
<1>2. [QueueNext]_queueVars \/ CloseEntries \/ UNCHANGED bookkeepingVars
  BY <1>1, ServerStepIsQueueStep
<1> QED
  BY <1>1, <1>2, OutcomeKept DEF bookkeepingVars

LEMMA AnswerCallsType ==
    ASSUME BaseInv, [ServerNext]_serverVars, QueueInv', AnswerCalls
    PROVE  reply' \in [Requests -> Replies]
<1>1. ASSUME NEW r \in Requests, outcome'[r] # outcome[r]
      PROVE  ReplyFor[outcome'[r]] \in Replies
  <2>1. outcome'[r] \in Outcomes \ {"open"}
    BY <1>1, ServerOutcomeKept DEF BaseInv, QueueInv, TypeOK
  <2> QED
    BY <2>1 DEF Outcomes, ReplyFor, Replies
<1> QED
  BY <1>1 DEF AnswerCalls, BaseInv, ServerTypeOK

LEMMA CallTypeStep ==
    ASSUME BaseInv, ServerNext, QueueInv'
    PROVE  /\ transportCancelled' \in [Requests -> BOOLEAN]
           /\ reply' \in [Requests -> Replies]
           /\ written' \in [Requests -> Seq(Events)]
<1>1. /\ transportCancelled \in [Requests -> BOOLEAN]
      /\ reply \in [Requests -> Replies]
      /\ written \in [Requests -> Seq(Events)]
  BY DEF BaseInv, ServerTypeOK
<1>2. transportCancelled' \in [Requests -> BOOLEAN]
  <2>1. UNCHANGED transportCancelled \/ \E r \in Requests :
          transportCancelled' = [transportCancelled EXCEPT ![r] = TRUE]
    BY DEF ServerNext, Submit, SubmitCancelled, TransportCancelled, Analyse, BeginFile, EndFile,
           FinishAnalysis, FailAnalysis, EndAnalysis, CancelAnalysis, CancelTimesOut, Receive,
           ReceiveEvent, ReceiveComplete, ReceiveCancelComplete, LifecycleEvent, WorkerEvent,
           WorkerHandles, BeginAnalysis, RejectAnalysis, HandleCancel, HandleClose, callVars
  <2> QED
    BY <1>1, <2>1
<1>3. reply' \in [Requests -> Replies]
  <2>1. UNCHANGED reply \/ AnswerCalls
    BY DEF ServerNext, Submit, SubmitCancelled, TransportCancelled, Analyse, BeginFile, EndFile,
           FinishAnalysis, FailAnalysis, EndAnalysis, CancelAnalysis, CancelTimesOut, Receive,
           ReceiveEvent, ReceiveComplete, ReceiveCancelComplete, LifecycleEvent, WorkerEvent,
           WorkerHandles, BeginAnalysis, RejectAnalysis, HandleCancel, HandleClose, callVars,
           MainEffects, ShutdownEffects
  <2> QED
    BY <1>1, <2>1, AnswerCallsType
<1>4. written' \in [Requests -> Seq(Events)]
  <2>1. CASE ReceiveEvent
    <3>1. Head(fromWorker).id \in Requests /\ Head(fromWorker).body \in Events
      BY <2>1, HeadTypes DEF ReceiveEvent, Deliver
    <3>2. written[Head(fromWorker).id] \in Seq(Events)
      BY <1>1, <3>1
    <3>3. Append(written[Head(fromWorker).id], Head(fromWorker).body) \in Seq(Events)
      BY <3>1, <3>2, AppendProperties
    <3> QED
      BY <1>1, <2>1, <3>1, <3>3 DEF ReceiveEvent
  <2>2. CASE ~ReceiveEvent
    <3>1. UNCHANGED written
      BY <2>2
         DEF ServerNext, Submit, SubmitCancelled, TransportCancelled, Analyse, BeginFile, EndFile,
             FinishAnalysis, FailAnalysis, EndAnalysis, CancelAnalysis, CancelTimesOut, Receive,
             ReceiveComplete, ReceiveCancelComplete, LifecycleEvent, WorkerEvent, WorkerHandles,
             BeginAnalysis, RejectAnalysis, HandleCancel, HandleClose, callVars
    <3> QED
      BY <1>1, <3>1
  <2> QED
    BY <2>1, <2>2
<1> QED
  BY <1>2, <1>3, <1>4

LEMMA AnalysisTypeStep ==
    ASSUME BaseInv, ServerNext
    PROVE  /\ analysisStatus' \in Requests \cup {None}
           /\ cancelled' \in [Requests -> BOOLEAN]
           /\ step' \in [Requests -> Steps]
           /\ filesLeft' \in [Requests -> 0..Files]
           /\ FileInHand'
<1>1. /\ analysisStatus \in Requests \cup {None}
      /\ cancelled \in [Requests -> BOOLEAN]
      /\ step \in [Requests -> Steps]
      /\ filesLeft \in [Requests -> 0..Files]
      /\ FileInHand
  BY DEF BaseInv, ServerTypeOK
<1>2. CASE BeginAnalysis \/ RejectAnalysis
  <2>1. Head(toWorker).id \in Requests
    BY <1>2, HeadTypes DEF BeginAnalysis, RejectAnalysis, Take
  <2> QED
    BY <1>1, <1>2, <2>1 DEF BeginAnalysis, RejectAnalysis, FileInHand, Steps
<1>3. CASE HandleCancel \/ HandleClose
  BY <1>1, <1>3 DEF HandleCancel, HandleClose, analysisVars, FileInHand
<1>4. ASSUME NEW r \in Requests, BeginFile(r)
      PROVE  step' \in [Requests -> Steps] /\ FileInHand'
  BY <1>1, <1>4 DEF BeginFile, FileInHand, Steps
<1>5. ASSUME NEW r \in Requests, EndFile(r)
      PROVE  step' \in [Requests -> Steps] /\ filesLeft' \in [Requests -> 0..Files] /\ FileInHand'
  <2>1. filesLeft[r] \in 0..Files /\ filesLeft[r] > 0
    BY <1>1, <1>5 DEF EndFile, FileInHand
  <2>2. filesLeft[r] - 1 \in 0..Files
    BY <2>1, ServerAssumption
  <2>3. step' = [step EXCEPT ![r] = "between"] /\ filesLeft' = [filesLeft EXCEPT ![r] = filesLeft[r] - 1]
    BY <1>5 DEF EndFile
  <2>4. FileInHand'
    BY <1>1, <2>3 DEF FileInHand
  <2> QED
    BY <1>1, <2>2, <2>3, <2>4 DEF Steps
<1>6. ASSUME NEW r \in Requests, FinishAnalysis(r) \/ FailAnalysis(r)
      PROVE  /\ analysisStatus' \in Requests \cup {None}
             /\ step' \in [Requests -> Steps]
             /\ UNCHANGED <<cancelled, filesLeft>>
             /\ FileInHand'
  BY <1>1, <1>6 DEF FinishAnalysis, FailAnalysis, EndAnalysis, FileInHand, Steps
<1>7. CASE UNCHANGED analysisVars
  BY <1>1, <1>7 DEF analysisVars, FileInHand
<1>8. \/ UNCHANGED analysisVars
      \/ WorkerHandles
      \/ \E r \in Requests : Analyse(r) \/ FailAnalysis(r)
  BY DEF ServerNext, Submit, SubmitCancelled, TransportCancelled, CancelAnalysis, CancelTimesOut,
         Receive, ReceiveEvent, ReceiveComplete, ReceiveCancelComplete, LifecycleEvent, WorkerEvent
<1>9. ASSUME NEW r \in Requests, Analyse(r) \/ FailAnalysis(r)
      PROVE  /\ analysisStatus' \in Requests \cup {None}
             /\ cancelled' \in [Requests -> BOOLEAN]
             /\ step' \in [Requests -> Steps]
             /\ filesLeft' \in [Requests -> 0..Files]
             /\ FileInHand'
  <2>1. CASE BeginFile(r)
    BY <1>1, <1>4, <2>1 DEF BeginFile
  <2>2. CASE EndFile(r)
    BY <1>1, <1>5, <2>2 DEF EndFile
  <2>3. CASE FinishAnalysis(r) \/ FailAnalysis(r)
    BY <1>1, <1>6, <2>3
  <2> QED
    BY <1>9, <2>1, <2>2, <2>3 DEF Analyse
<1> QED
  BY <1>2, <1>3, <1>7, <1>8, <1>9 DEF WorkerHandles

LEMMA BaseInvStep == BaseInv /\ [ServerNext]_serverVars => BaseInv'
<1> SUFFICES ASSUME BaseInv, [ServerNext]_serverVars PROVE BaseInv'
  OBVIOUS
<1>1. QueueInv'
  BY QueueInvStep DEF BaseInv, ServerTypeOK
<1>2. LifecycleInv'
  BY ServerStepIsLifecycleStep, LifecycleInvStep DEF BaseInv
<1>3. ClosedIsShutDown'
  BY ClosedIsShutDownStep DEF BaseInv, LifecycleInv
<1>4. TypeOK' /\ LifecycleTypeOK'
  BY <1>1, <1>2 DEF QueueInv, LifecycleInv
<1>5. ServerTypeOK' /\ FileInHand'
  <2>1. CASE ServerNext
    BY <1>1, <1>4, <2>1, PortTypeStep, CallTypeStep, AnalysisTypeStep DEF ServerTypeOK
  <2>2. CASE UNCHANGED serverVars
    BY <1>4, <2>2
       DEF BaseInv, serverVars, callVars, portVars, analysisVars, ServerTypeOK, FileInHand
  <2> QED
    BY <2>1, <2>2
<1> QED
  BY <1>1, <1>2, <1>3, <1>5 DEF BaseInv

\* All state of the server keeps its type, the messages on both ports included.
THEOREM ServerTypeCorrect == ServerSpec => []ServerTypeOK
<1>1. BaseInv => ServerTypeOK
  BY DEF BaseInv
<1> QED
  BY <1>1, BaseInvInit, BaseInvStep, PTL DEF ServerSpec

-----------------------------------------------------------------------------
(* Whom a signal was sent for                                              *)

\* An entry that has begun to execute stays active or settled.
Begun(r) == entryState[r] \in {"active", "settled"}

LEMMA BegunStays ==
    ASSUME BaseInv, [ServerNext]_serverVars, NEW r \in Requests, Begun(r)
    PROVE  Begun(r)'
<1>1. TypeOK /\ Bookkeeping /\ ClosedIsShutDown /\ fromWorker \in Seq(FromWorker)
  BY DEF BaseInv, QueueInv, ServerTypeOK
<1>2. CASE QueueNext
  <2>1. ASSUME NEW q \in Requests, Enqueue(q) PROVE Begun(r)'
    BY <1>1, <2>1 DEF Enqueue, New, Refuse, StartAtOnce, JoinLine, Begun, TypeOK
  <2>2. ASSUME NEW q \in Requests, NEW how \in {"resolved", "rejected"}, Complete(q, how)
        PROVE  Begun(r)'
    BY <1>1, <2>2, LineFacts DEF Complete, StartNext, Begun, TypeOK
  <2>3. ASSUME NEW c \in Cancellers, NEW q \in Requests, CancelEntry(c, q) PROVE Begun(r)'
    BY <1>1, <2>3
       DEF CancelEntry, Withdraw, AnswerInactive, ShareSignal, SendSignal, Begun, TypeOK
  <2>4. ASSUME NEW c \in Cancellers, CancelActiveAnalysis(c) PROVE Begun(r)'
    <3>1. CASE active = None
      BY <2>4, <3>1 DEF CancelActiveAnalysis, AnswerInactive, Begun
    <3>2. CASE active # None
      <4>1. active \in Requests
        BY <1>1, <3>2 DEF TypeOK
      <4> QED
        BY <2>3, <2>4, <3>2, <4>1 DEF CancelActiveAnalysis
    <3> QED
      BY <3>1, <3>2
  <2>5. ASSUME NEW c \in Cancellers, NEW how \in {"acknowledged", "declined", "failed"},
               SignalSettles(c, how)
        PROVE  Begun(r)'
    BY <2>5 DEF SignalSettles, Begun
  <2>6. CASE Close
    BY <1>1, <2>6 DEF Close, CloseEntries, Unsettled, Begun, TypeOK
  <2> QED
    BY <1>2, <2>1, <2>2, <2>3, <2>4, <2>5, <2>6 DEF QueueNext, CancelTransportCall
<1>3. CASE CloseEntries
  BY <1>1, <1>3 DEF CloseEntries, Unsettled, Begun, TypeOK
<1>4. CASE UNCHANGED queueVars \/ UNCHANGED bookkeepingVars
  BY <1>4 DEF queueVars, bookkeepingVars, Begun
<1> QED
  BY <1>1, <1>2, <1>3, <1>4, ServerStepIsQueueStep

\* A signal is sent for an entry that executes, by a caller that is told so, and
\* is never sent again.
Targets ==
    \A c \in Cancellers :
      /\ target[c] # None => Begun(target[c]) /\ answer[c] # None
      /\ signal[c] # "none" => target[c] # None

LEMMA TargetsInit == ServerInit => Targets
BY DEF ServerInit, QueueInit, Targets

\* The only step that changes a target gives one to a canceller without.
LEMMA TargetsAreGiven ==
    ASSUME BaseInv, Targets, [ServerNext]_serverVars, NEW c \in Cancellers,
           target'[c] # target[c] \/ (signal[c] = "none" /\ signal'[c] # "none")
    PROVE  \E r \in Requests :
             /\ CancelStep(c) /\ SendSignal(c, r)
             /\ Begun(r) /\ active = r /\ ~closed
             /\ target[c] = None /\ answer[c] = None /\ signal[c] = "none"
             /\ target' = [target EXCEPT ![c] = r]
             /\ answer' = [answer EXCEPT ![c] = c]
<1>1. QueueInv /\ toWorker \in Seq(ToWorker) /\ fromWorker \in Seq(FromWorker)
  BY DEF BaseInv, ServerTypeOK
<1>2. ASSUME NEW d \in Cancellers, CancelStep(d)
      PROVE  \E r \in Requests :
               /\ CancelStep(c) /\ SendSignal(c, r)
               /\ Begun(r) /\ active = r /\ ~closed
               /\ target[c] = None /\ answer[c] = None /\ signal[c] = "none"
               /\ target' = [target EXCEPT ![c] = r]
               /\ answer' = [answer EXCEPT ![c] = c]
  <2>1. CASE AnswerInactive(d) \/ \E r \in Requests : Withdraw(d, r) \/ ShareSignal(d, r)
    BY <2>1 DEF AnswerInactive, Withdraw, ShareSignal
  <2>2. ASSUME NEW r \in Requests, SendSignal(d, r), entryState[r] = "active", active = r,
               ~closed, answer[d] = None, signal[d] = "none"
        PROVE  d = c /\ Begun(r) /\ target[c] = None
    BY <1>1, <2>2 DEF SendSignal, QueueInv, TypeOK, Begun, Targets
  <2> QED
    BY <1>1, <1>2, <2>1, <2>2, CancelPosts DEF SendSignal
<1>3. CASE \E r \in Requests : Submit(r)
  BY <1>3 DEF Submit, Enqueue, Refuse, StartAtOnce, JoinLine, signalVars
<1>4. CASE Receive
  BY <1>1, <1>4
     DEF Receive, ReceiveEvent, ReceiveComplete, ReceiveCancelComplete, Complete, signalVars,
         queueVars, SignalSettles, QueueInv, TypeOK
<1>5. CASE LifecycleEvent \/ WorkerEvent
  BY <1>1, <1>5 DEF LifecycleEvent, WorkerEvent, SignalsFail, signalVars, QueueInv, TypeOK
<1>6. CASE \E d \in Cancellers : CancelTimesOut(d)
  BY <1>1, <1>6 DEF CancelTimesOut, SignalSettles, QueueInv, TypeOK
<1>7. CASE UNCHANGED queueVars
  BY <1>7 DEF queueVars
<1>8. CASE (\E r \in Requests : TransportCancelled(r)) \/ \E d \in CancelCalls : CancelAnalysis(d)
  BY <1>1, <1>2, <1>8, CancelSteps
<1> QED
  BY <1>3, <1>4, <1>5, <1>6, <1>7, <1>8
     DEF ServerNext, SubmitCancelled, Analyse, BeginFile, EndFile, FinishAnalysis, FailAnalysis,
         EndAnalysis, WorkerHandles, BeginAnalysis, RejectAnalysis, HandleCancel, HandleClose,
         serverVars

LEMMA AnswersStay ==
    ASSUME BaseInv, [ServerNext]_serverVars, NEW c \in Cancellers, answer[c] # None
    PROVE  answer'[c] # None
<1>1. TypeOK /\ ClosedIsShutDown /\ fromWorker \in Seq(FromWorker)
  BY DEF BaseInv, QueueInv, ServerTypeOK
<1>2. CASE QueueNext
  <2>1. ASSUME NEW d \in Cancellers, NEW r \in Requests, CancelEntry(d, r), Idle(d)
        PROVE  answer'[c] # None
    BY <1>1, <2>1
       DEF CancelEntry, Withdraw, AnswerInactive, ShareSignal, SendSignal, Idle, TypeOK
  <2>2. ASSUME NEW d \in Cancellers, CancelActiveAnalysis(d) PROVE answer'[c] # None
    <3>1. CASE active = None
      BY <1>1, <2>2, <3>1 DEF CancelActiveAnalysis, AnswerInactive, Idle, TypeOK
    <3>2. CASE active # None
      BY <1>1, <2>1, <2>2, <3>2 DEF CancelActiveAnalysis, TypeOK
    <3> QED
      BY <3>1, <3>2
  <2>3. ASSUME NEW r \in Requests, Enqueue(r) PROVE answer'[c] # None
    BY <2>3 DEF Enqueue, Refuse, StartAtOnce, JoinLine, signalVars
  <2>4. ASSUME NEW r \in Requests, NEW how \in {"resolved", "rejected"}, Complete(r, how)
        PROVE  answer'[c] # None
    BY <2>4 DEF Complete, signalVars
  <2>5. ASSUME NEW d \in Cancellers, NEW how \in {"acknowledged", "declined", "failed"},
               SignalSettles(d, how)
        PROVE  answer'[c] # None
    BY <2>5 DEF SignalSettles
  <2>6. CASE Close
    BY <2>6 DEF Close, signalVars
  <2> QED
    BY <1>2, <2>1, <2>2, <2>3, <2>4, <2>5, <2>6 DEF QueueNext, CancelTransportCall
<1>3. CASE SignalsFail \/ UNCHANGED queueVars
  BY <1>3 DEF SignalsFail, queueVars
<1> QED
  BY <1>1, <1>2, <1>3, ServerStepIsQueueStep

LEMMA TargetsStep == BaseInv /\ Targets /\ [ServerNext]_serverVars => Targets'
<1> SUFFICES ASSUME BaseInv, Targets, [ServerNext]_serverVars, NEW c \in Cancellers
             PROVE  /\ target'[c] # None => Begun(target[c])' /\ answer'[c] # None
                    /\ signal'[c] # "none" => target'[c] # None
  BY DEF Targets
<1>1. TypeOK
  BY DEF BaseInv, QueueInv
<1>2. CASE target'[c] # target[c] \/ (signal[c] = "none" /\ signal'[c] # "none")
  <2>1. PICK r \in Requests : /\ Begun(r)
                              /\ target' = [target EXCEPT ![c] = r]
                              /\ answer' = [answer EXCEPT ![c] = c]
    BY <1>2, TargetsAreGiven
  <2>2. target'[c] = r /\ answer'[c] = c /\ Begun(r)'
    BY <1>1, <2>1, BegunStays DEF TypeOK
  <2> QED
    BY <2>2, NoneAssumption DEF Begun
<1>3. CASE target'[c] = target[c] /\ (signal[c] = "none" => signal'[c] = "none")
  <2>1. signal'[c] # "none" => target'[c] # None
    BY <1>3 DEF Targets
  <2>2. ASSUME target[c] # None PROVE Begun(target[c])' /\ answer'[c] # None
    <3>1. target[c] \in Requests /\ Begun(target[c]) /\ answer[c] # None
      BY <1>1, <2>2 DEF TypeOK, Targets
    <3> QED
      BY <1>3, <3>1, BegunStays, AnswersStay DEF Begun
  <2> QED
    BY <1>3, <2>1, <2>2
<1> QED
  BY <1>2, <1>3

-----------------------------------------------------------------------------
(* One analysis at a time                                                  *)

Single(s, type) ==
    \A i, j \in DOMAIN s : s[i].type = type /\ s[j].type = type => i = j

LEMMA TailHas ==
    ASSUME NEW S, NEW s \in Seq(S), s # <<>>, NEW type
    PROVE  /\ \A r : Has(Tail(s), type, r) => Has(s, type, r)
           /\ \A r : Has(s, type, r) =>
                Has(Tail(s), type, r) \/ (Head(s).type = type /\ Head(s).id = r)
           /\ Single(s, type) => Single(Tail(s), type)
           /\ Single(s, type) /\ Head(s).type = type => \A r : ~Has(Tail(s), type, r)
<1>1. /\ Len(s) \in Nat
      /\ DOMAIN s = 1..Len(s) /\ 1 \in DOMAIN s /\ Head(s) = s[1]
      /\ DOMAIN Tail(s) = 1..Len(s) - 1
      /\ \A i \in DOMAIN Tail(s) : i + 1 \in DOMAIN s /\ Tail(s)[i] = s[i + 1]
  BY TailFacts
<1>2. \A r : Has(Tail(s), type, r) => Has(s, type, r)
  BY <1>1 DEF Has
<1>3. ASSUME NEW r, Has(s, type, r)
      PROVE  Has(Tail(s), type, r) \/ (Head(s).type = type /\ Head(s).id = r)
  <2>1. PICK i \in DOMAIN s : s[i].type = type /\ s[i].id = r
    BY <1>3 DEF Has
  <2>2. CASE i = 1
    BY <1>1, <2>1, <2>2
  <2>3. CASE i # 1
    <3>1. i - 1 \in DOMAIN Tail(s) /\ (i - 1) + 1 = i
      BY <1>1, <2>3
    <3> QED
      BY <1>1, <2>1, <3>1 DEF Has
  <2> QED
    BY <2>2, <2>3
<1>4. ASSUME Single(s, type) PROVE Single(Tail(s), type)
  <2> SUFFICES ASSUME NEW i \in DOMAIN Tail(s), NEW j \in DOMAIN Tail(s),
                      Tail(s)[i].type = type, Tail(s)[j].type = type
               PROVE  i = j
    BY DEF Single
  <2>1. i + 1 = j + 1
    BY <1>1, <1>4 DEF Single
  <2> QED
    BY <1>1, <2>1
<1>5. ASSUME Single(s, type), Head(s).type = type, NEW r, Has(Tail(s), type, r) PROVE FALSE
  <2>1. PICK i \in DOMAIN Tail(s) : Tail(s)[i].type = type
    BY <1>5 DEF Has
  <2>2. i + 1 = 1
    BY <1>1, <1>5, <2>1 DEF Single
  <2> QED
    BY <1>1, <2>2
<1> QED
  BY <1>2, <1>3, <1>4, <1>5

LEMMA PostHas ==
    ASSUME NEW S, NEW s \in Seq(S), NEW t \in Seq(S), NEW type
    PROVE  /\ \A r : Has(s \o t, type, r) <=> Has(s, type, r) \/ Has(t, type, r)
           /\ Single(s, type) /\ (\A i \in DOMAIN t : t[i].type # type) => Single(s \o t, type)
           /\ Single(t, type) /\ (\A i \in DOMAIN s : s[i].type # type) => Single(s \o t, type)
<1>1. /\ Len(s) \in Nat /\ Len(t) \in Nat
      /\ DOMAIN s = 1..Len(s) /\ DOMAIN t = 1..Len(t)
      /\ DOMAIN (s \o t) = 1..Len(s) + Len(t)
      /\ \A i \in DOMAIN s : i \in DOMAIN (s \o t) /\ (s \o t)[i] = s[i]
      /\ \A i \in DOMAIN (s \o t) \ DOMAIN s :
           i - Len(s) \in DOMAIN t /\ (s \o t)[i] = t[i - Len(s)]
  BY PostFacts
<1>2. \A i \in DOMAIN t : Len(s) + i \in DOMAIN (s \o t) /\ (s \o t)[Len(s) + i] = t[i]
  <2> SUFFICES ASSUME NEW i \in DOMAIN t
               PROVE  Len(s) + i \in DOMAIN (s \o t) /\ (s \o t)[Len(s) + i] = t[i]
    OBVIOUS
  <2>1. Len(s) + i \in DOMAIN (s \o t) \ DOMAIN s /\ (Len(s) + i) - Len(s) = i
    BY <1>1
  <2> QED
    BY <1>1, <2>1
<1> DEFINE u == s \o t
<1>3. /\ DOMAIN u = 1..Len(s) + Len(t)
      /\ \A i \in DOMAIN s : i \in DOMAIN u /\ u[i] = s[i]
      /\ \A i \in DOMAIN u \ DOMAIN s : i - Len(s) \in DOMAIN t /\ u[i] = t[i - Len(s)]
      /\ \A i \in DOMAIN t : Len(s) + i \in DOMAIN u /\ u[Len(s) + i] = t[i]
  BY <1>1, <1>2
<1> HIDE DEF u
<1>4. \A r : Has(u, type, r) <=> Has(s, type, r) \/ Has(t, type, r)
  BY <1>3 DEF Has
<1>5. Single(s, type) /\ (\A i \in DOMAIN t : t[i].type # type) => Single(u, type)
  BY <1>3 DEF Single
<1>6. ASSUME Single(t, type), \A i \in DOMAIN s : s[i].type # type PROVE Single(u, type)
  <2> SUFFICES ASSUME NEW i \in DOMAIN u, NEW j \in DOMAIN u, u[i].type = type, u[j].type = type
               PROVE  i = j
    BY DEF Single
  <2>1. /\ i - Len(s) \in DOMAIN t /\ t[i - Len(s)].type = type
        /\ j - Len(s) \in DOMAIN t /\ t[j - Len(s)].type = type
    BY <1>3, <1>6
  <2>2. i - Len(s) = j - Len(s)
    BY <1>6, <2>1 DEF Single
  <2> QED
    BY <1>1, <1>3, <2>2
<1> QED
  BY <1>4, <1>5, <1>6 DEF u

\* Until the queue closes, only the active entry's analysis is anywhere on the
\* way; after that, the one that was active then.
OneAnalysis ==
    /\ \A r \in Requests : UnderWay(r) => closed \/ active = r
    /\ \A r, q \in Requests : UnderWay(r) /\ UnderWay(q) => r = q
    /\ Single(toWorker, "analyze")
    /\ Single(fromWorker, "complete")

\* An analysis is asked for once, runs once and completes once.
Progress ==
    \A r \in Requests :
      /\ Asked(r) => step[r] = "none"
      /\ Ended(r) => step[r] = "done"
      /\ Asked(r) \/ step[r] # "none" => Begun(r)
      /\ analysisStatus = r <=> Running(r)

LEMMA OneAnalysisInit == ServerInit => OneAnalysis /\ Progress
BY NoneAssumption
   DEF ServerInit, QueueInit, OneAnalysis, Progress, UnderWay, Asked, Ended, Running, Has, Single

\* No analysis moves on, and the slot does not change while the queue is open.
LEMMA QuietKeepsOneAnalysis ==
    ASSUME BaseInv, OneAnalysis, Progress, [ServerNext]_serverVars,
           UNCHANGED <<step, analysisStatus>>,
           closed' \/ UNCHANGED <<active, closed>>,
           \A r \in Requests : (Asked(r)' => Asked(r)) /\ (Ended(r)' => Ended(r)),
           Single(toWorker, "analyze")', Single(fromWorker, "complete")'
    PROVE  OneAnalysis' /\ Progress'
<1>1. \A r \in Requests : UnderWay(r)' => UnderWay(r)
  BY DEF UnderWay, Running
<1>2. OneAnalysis'
  BY <1>1 DEF OneAnalysis
<1>3. Progress'
  BY BegunStays DEF Progress, Running, Begun
<1> QED
  BY <1>2, <1>3

\* A port whose type is known and where no request is found holds no such message.
LEMMA NoneAsked ==
    ASSUME BaseInv
    PROVE  /\ (\A r \in Requests : ~Asked(r)) => \A i \in DOMAIN toWorker : toWorker[i].type # "analyze"
           /\ (\A r \in Requests : ~Ended(r)) => \A i \in DOMAIN fromWorker : fromWorker[i].type # "complete"
<1>1. /\ \A i \in DOMAIN toWorker : toWorker[i] \in ToWorker
      /\ \A i \in DOMAIN fromWorker : fromWorker[i] \in FromWorker
  BY ElementOfSeq, LenProperties DEF BaseInv, ServerTypeOK
<1>2. /\ \A i \in DOMAIN toWorker : toWorker[i].type = "analyze" => toWorker[i].id \in Requests
      /\ \A i \in DOMAIN fromWorker : fromWorker[i].type = "complete" => fromWorker[i].id \in Requests
  BY <1>1 DEF ToWorker, FromWorker
<1> QED
  BY <1>2 DEF Asked, Ended, Has

\* The message that asks for the analysis of h is posted while nothing else is
\* under way.
LEMMA AskKeepsOneAnalysis ==
    ASSUME BaseInv, Progress, [ServerNext]_serverVars, NEW h \in Requests,
           toWorker' = toWorker \o <<AnalyzeMessage(h)>>,
           UNCHANGED <<step, analysisStatus>>,
           ~Begun(h), active' = h, Begun(h)',
           \A r \in Requests : ~Asked(r) /\ ~Running(r) /\ ~Ended(r)',
           Single(fromWorker, "complete")'
    PROVE  OneAnalysis' /\ Progress'
<1>1. step[h] = "none"
  BY DEF Progress
<1> DEFINE one == <<AnalyzeMessage(h)>>
<1>2. /\ one \in Seq(ToWorker) /\ DOMAIN one = {1} /\ one[1].type = "analyze" /\ one[1].id = h
  BY DEF AnalyzeMessage, ToWorker
<1> HIDE DEF one
<1>3. toWorker' = toWorker \o one /\ toWorker \in Seq(ToWorker)
  BY DEF one, BaseInv, ServerTypeOK
<1>4. \A i \in DOMAIN toWorker : toWorker[i].type # "analyze"
  BY NoneAsked
<1>5. Single(one, "analyze") /\ \A r : Has(one, "analyze", r) <=> r = h
  BY <1>2 DEF Single, Has
<1>6. /\ \A r : Has(toWorker', "analyze", r) <=> Has(toWorker, "analyze", r) \/ Has(one, "analyze", r)
      /\ Single(toWorker', "analyze")
  BY <1>2, <1>3, <1>4, <1>5, PostHas
<1>7. \A r \in Requests : UnderWay(r)' <=> r = h
  BY <1>5, <1>6 DEF UnderWay, Asked, Running
<1>8. OneAnalysis'
  BY <1>6, <1>7 DEF OneAnalysis
<1>9. Progress'
  <2>1. \A r \in Requests : Asked(r)' <=> r = h
    BY <1>5, <1>6 DEF Asked
  <2>2. \A r \in Requests : Begun(r) => Begun(r)'
    BY BegunStays
  <2> QED
    BY <1>1, <2>1, <2>2 DEF Progress, Running
<1> QED
  BY <1>8, <1>9

\* The main thread's steps.
LEMMA SubmitKeepsOneAnalysis ==
    ASSUME BaseInv, OneAnalysis, Progress, ServerNext, NEW r \in Requests, Submit(r)
    PROVE  OneAnalysis' /\ Progress'
<1>1. QueueInv /\ toWorker \in Seq(ToWorker)
  BY DEF BaseInv, ServerTypeOK
<1>2. UNCHANGED <<fromWorker, step, analysisStatus>>
  BY DEF Submit, analysisVars
<1>3. CASE StartAtOnce(r) /\ toWorker' = toWorker \o <<AnalyzeMessage(r)>>
  <2>1. ~closed /\ active = None /\ active' = r /\ entryState'[r] = "active"
    BY <1>1, <1>3 DEF StartAtOnce, QueueInv, TypeOK
  <2>2. ~Begun(r)
    BY DEF Submit, Enqueue, New, Begun
  <2>3. \A q \in Requests : ~UnderWay(q)
    BY <2>1, NoneAssumption DEF OneAnalysis
  <2>4. /\ \A q \in Requests : ~Asked(q) /\ ~Running(q) /\ ~Ended(q)'
        /\ Single(fromWorker, "complete")'
    BY <1>2, <2>3 DEF UnderWay, Ended, OneAnalysis
  <2> QED
    BY <1>2, <1>3, <2>1, <2>2, <2>4, AskKeepsOneAnalysis DEF Begun
<1>4. CASE (Refuse(r) \/ JoinLine(r)) /\ toWorker' = toWorker
  <2>1. UNCHANGED <<active, closed, toWorker, fromWorker>>
    BY <1>2, <1>4 DEF Refuse, JoinLine
  <2> QED
    BY <1>2, <2>1, QuietKeepsOneAnalysis DEF OneAnalysis, Asked, Ended
<1> QED
  BY <1>1, <1>3, <1>4, SubmitPosts

LEMMA CancelKeepsOneAnalysis ==
    ASSUME BaseInv, OneAnalysis, Progress, ServerNext, NEW c \in Cancellers, CancelStep(c)
    PROVE  OneAnalysis' /\ Progress'
<1>1. QueueInv /\ toWorker \in Seq(ToWorker)
  BY DEF BaseInv, ServerTypeOK
<1>2. UNCHANGED <<fromWorker, step, analysisStatus>>
  BY DEF CancelStep, analysisVars
<1>3. UNCHANGED <<active, closed>>
  BY DEF CancelStep, CancelEntry, Withdraw, AnswerInactive, ShareSignal, SendSignal
<1>4. (\A q \in Requests : Asked(q)' => Asked(q)) /\ Single(toWorker, "analyze")'
  <2>1. CASE toWorker' = toWorker
    BY <2>1 DEF Asked, OneAnalysis
  <2>2. CASE toWorker' = toWorker \o <<CancelMessage(c)>>
    <3> DEFINE one == <<CancelMessage(c)>>
    <3>1. one \in Seq(ToWorker) /\ \A i \in DOMAIN one : one[i].type # "analyze"
      BY DEF CancelMessage, ToWorker
    <3> HIDE DEF one
    <3>2. toWorker' = toWorker \o one
      BY <2>2 DEF one
    <3> QED
      BY <1>1, <3>1, <3>2, PostHas DEF Asked, OneAnalysis, Has
  <2> QED
    BY <1>1, <2>1, <2>2, CancelPosts
<1> QED
  BY <1>2, <1>3, <1>4, QuietKeepsOneAnalysis DEF OneAnalysis, Ended

LEMMA ShutdownKeepsOneAnalysis ==
    ASSUME BaseInv, OneAnalysis, Progress, ServerNext, LifecycleEvent \/ WorkerEvent
    PROVE  OneAnalysis' /\ Progress'
<1>1. toWorker \in Seq(ToWorker) /\ fromWorker \in Seq(FromWorker)
  BY DEF BaseInv, ServerTypeOK
<1>2. /\ UNCHANGED <<step, analysisStatus>>
      /\ fromWorker' = fromWorker \/ fromWorker' = <<>>
      /\ ShutdownEffects
  BY DEF LifecycleEvent, WorkerEvent, analysisVars
<1>3. (\A q \in Requests : Ended(q)' => Ended(q)) /\ Single(fromWorker, "complete")'
  BY <1>2, EmptySeq DEF Ended, OneAnalysis, Has, Single
<1>4. CASE shuttingDown' /\ ~shuttingDown
  <2>1. PICK messages \in Seq(ToWorker) :
          /\ CloseEntries
          /\ toWorker' = toWorker \o messages
          /\ \A i \in DOMAIN messages :
               messages[i].type = "close" \/ messages[i] = CancelMessage("shutdown")
    BY <1>1, <1>2, <1>4, ShutdownPosts
  <2>2. \A i \in DOMAIN messages : messages[i].type # "analyze"
    BY <2>1 DEF CancelMessage
  <2>3. (\A q \in Requests : Asked(q)' => Asked(q)) /\ Single(toWorker, "analyze")'
    BY <1>1, <2>1, <2>2, PostHas DEF Asked, OneAnalysis, Has
  <2> QED
    BY <1>2, <1>3, <2>1, <2>3, QuietKeepsOneAnalysis DEF CloseEntries
<1>5. CASE ~(shuttingDown' /\ ~shuttingDown)
  <2>1. UNCHANGED <<active, closed, toWorker>>
    BY <1>2, <1>5 DEF ShutdownEffects
  <2> QED
    BY <1>2, <1>3, <2>1, QuietKeepsOneAnalysis DEF OneAnalysis, Asked
<1> QED
  BY <1>4, <1>5

LEMMA ReceiveKeepsOneAnalysis ==
    ASSUME BaseInv, OneAnalysis, Progress, ServerNext, Receive
    PROVE  OneAnalysis' /\ Progress'
<1>1. QueueInv /\ toWorker \in Seq(ToWorker) /\ fromWorker \in Seq(FromWorker)
  BY DEF BaseInv, ServerTypeOK
<1>2. /\ fromWorker # <<>> /\ fromWorker' = Tail(fromWorker)
      /\ UNCHANGED <<step, analysisStatus>>
  BY DEF Receive, ReceiveEvent, ReceiveComplete, ReceiveCancelComplete, Deliver, analysisVars
<1>3. (\A q \in Requests : Ended(q)' => Ended(q)) /\ Single(fromWorker, "complete")'
  BY <1>1, <1>2, TailHas DEF Ended, OneAnalysis
<1>4. CASE UNCHANGED <<active, closed, toWorker>>
  BY <1>2, <1>3, <1>4, QuietKeepsOneAnalysis DEF OneAnalysis, Asked
<1>5. CASE ReceiveComplete /\ ~UNCHANGED <<active, closed, toWorker>>
  <2> DEFINE r == Head(fromWorker).id
  <2>1. r \in Requests /\ Head(fromWorker).type = "complete" /\ Head(fromWorker) = fromWorker[1]
          /\ 1 \in DOMAIN fromWorker
    BY <1>1, <1>2, <1>5, HeadTypes, TailFacts DEF ReceiveComplete, Deliver
  <2>2. PICK how \in {"resolved", "rejected"} : Complete(r, how) /\ MainEffects
    BY <1>5 DEF ReceiveComplete, queueVars
  <2>3. Ended(r)
    BY <2>1 DEF Ended, Has
  <2> HIDE DEF r
  <2>4. /\ ~closed /\ active = r /\ entryState[r] = "active"
        /\ \/ active' = None /\ toWorker' = toWorker
           \/ \E h \in Requests : /\ h # r
                                  /\ entryState[h] = "pending"
                                  /\ active' = h
                                  /\ entryState'[h] = "active"
                                  /\ toWorker' = toWorker \o <<AnalyzeMessage(h)>>
    BY <1>1, <2>1, <2>2, CompletePosts DEF QueueInv, TypeOK
  <2>5. \A q \in Requests : ~Asked(q) /\ ~Running(q) /\ ~Ended(q)'
    <3>1. \A q \in Requests : ~Ended(q)'
      BY <1>1, <1>2, <2>1, TailHas DEF Ended, OneAnalysis
    <3>2. \A q \in Requests : UnderWay(q) => q = r
      BY <2>1, <2>3 DEF OneAnalysis, UnderWay
    <3>3. ~Asked(r) /\ ~Running(r)
      BY <2>1, <2>3 DEF Progress, Running
    <3> QED
      BY <3>1, <3>2, <3>3 DEF UnderWay
  <2>6. CASE active' = None /\ toWorker' = toWorker
    <3>1. \A q \in Requests : ~UnderWay(q)'
      BY <1>2, <2>5, <2>6 DEF UnderWay, Asked, Running
    <3>2. OneAnalysis'
      BY <1>3, <2>6, <3>1 DEF OneAnalysis
    <3>3. Progress'
      BY <1>2, <1>3, <2>6, BegunStays DEF Progress, Running, Begun, Asked
    <3> QED
      BY <3>2, <3>3
  <2>7. ASSUME NEW h \in Requests, entryState[h] = "pending", active' = h, entryState'[h] = "active",
               toWorker' = toWorker \o <<AnalyzeMessage(h)>>
        PROVE  OneAnalysis' /\ Progress'
    BY <1>2, <1>3, <2>5, <2>7, AskKeepsOneAnalysis DEF Begun
  <2> QED
    BY <2>4, <2>6, <2>7
<1>6. CASE ~ReceiveComplete
  BY <1>4, <1>6
     DEF Receive, ReceiveEvent, ReceiveCancelComplete, queueVars, SignalSettles
<1> QED
  BY <1>4, <1>5, <1>6

\* The worker's steps: what is under way was under way.
LEMMA WorkerKeepsOneAnalysis ==
    ASSUME BaseInv, OneAnalysis, Progress, [ServerNext]_serverVars,
           UNCHANGED <<active, closed>>,
           \A r \in Requests : UnderWay(r)' => UnderWay(r),
           Single(toWorker, "analyze")', Single(fromWorker, "complete")'
    PROVE  OneAnalysis'
BY DEF OneAnalysis

LEMMA TakeKeepsOneAnalysis ==
    ASSUME BaseInv, OneAnalysis, Progress, ServerNext, WorkerHandles
    PROVE  OneAnalysis' /\ Progress'
<1> DEFINE m == Head(toWorker)
           r == Head(toWorker).id
<1>1. toWorker \in Seq(ToWorker) /\ fromWorker \in Seq(FromWorker) /\ step \in [Requests -> Steps]
  BY DEF BaseInv, ServerTypeOK
<1>2. toWorker # <<>> /\ toWorker' = Tail(toWorker) /\ UNCHANGED <<active, closed>>
  BY DEF WorkerHandles, BeginAnalysis, RejectAnalysis, HandleCancel, HandleClose, Take, queueVars
<1>3. /\ \A q \in Requests : Asked(q)' => Asked(q)
      /\ Single(toWorker, "analyze")'
      /\ m.type = "analyze" => \A q \in Requests : ~Asked(q)'
  BY <1>1, <1>2, TailHas DEF Asked, OneAnalysis
<1>4. ASSUME m.type = "analyze"
      PROVE  /\ r \in Requests /\ Asked(r) /\ step[r] = "none"
             /\ \A q \in Requests : UnderWay(q) => q = r
             /\ \A q \in Requests : ~Running(q) /\ ~Ended(q)
  <2>1. r \in Requests /\ m = toWorker[1] /\ 1 \in DOMAIN toWorker
    BY <1>1, <1>2, <1>4, HeadTypes, TailFacts
  <2>2. Asked(r)
    BY <1>4, <2>1 DEF Asked, Has
  <2>3. step[r] = "none" /\ ~Running(r) /\ ~Ended(r)
    BY <2>1, <2>2 DEF Progress, Running
  <2>4. \A q \in Requests : UnderWay(q) => q = r
    BY <2>1, <2>2 DEF OneAnalysis, UnderWay
  <2> QED
    BY <2>1, <2>2, <2>3, <2>4 DEF UnderWay
<1>5. CASE BeginAnalysis
  <2>1. m.type = "analyze" /\ step' = [step EXCEPT ![r] = "between"] /\ analysisStatus' = r
          /\ fromWorker' = fromWorker
    BY <1>5 DEF BeginAnalysis, Take
  <2>2. \A q \in Requests : Running(q)' <=> q = r
    BY <1>1, <1>4, <2>1 DEF Running
  <2>3. \A q \in Requests : UnderWay(q)' => UnderWay(q)
    BY <1>3, <1>4, <2>1, <2>2 DEF UnderWay, Ended
  <2>4. OneAnalysis'
    BY <1>2, <1>3, <2>1, <2>3, WorkerKeepsOneAnalysis DEF OneAnalysis
  <2>5. Progress'
    <3>1. \A q \in Requests : Begun(q) => Begun(q)'
      BY BegunStays
    <3> QED
      BY <1>1, <1>3, <1>4, <2>1, <2>2, <3>1, NoneAssumption DEF Progress, Ended
  <2> QED
    BY <2>4, <2>5
<1>6. CASE RejectAnalysis
  <2> DEFINE one == <<Completion(r, FALSE)>>
  <2>1. m.type = "analyze" /\ step' = [step EXCEPT ![r] = "done"] /\ analysisStatus' = analysisStatus
          /\ fromWorker' = fromWorker \o one
    BY <1>6 DEF RejectAnalysis, Take, Post
  <2>2. one \in Seq(FromWorker) /\ DOMAIN one = {1} /\ one[1].type = "complete" /\ one[1].id = r
    <3>1. one \in Seq(FromWorker)
      BY <1>4, <2>1, PostTypes DEF Events
    <3>2. DOMAIN one = {1} /\ one[1] = Completion(r, FALSE)
      OBVIOUS
    <3> QED
      BY <3>1, <3>2 DEF Completion
  <2> HIDE DEF one
  <2>3. \A i \in DOMAIN fromWorker : fromWorker[i].type # "complete"
    BY <1>4, <2>1, NoneAsked
  <2>4. /\ \A q \in Requests : Ended(q)' <=> q = r
        /\ Single(fromWorker, "complete")'
    <3>1. Single(one, "complete") /\ \A q : Has(one, "complete", q) <=> q = r
      BY <2>2 DEF Single, Has
    <3>2. /\ \A q : Has(fromWorker \o one, "complete", q)
                      <=> Has(fromWorker, "complete", q) \/ Has(one, "complete", q)
          /\ Single(fromWorker \o one, "complete")
      BY <1>1, <2>2, <2>3, <3>1, PostHas
    <3> QED
      BY <1>4, <2>1, <3>1, <3>2 DEF Ended
  <2>5. \A q \in Requests : ~Running(q)'
    BY <1>1, <1>4, <2>1 DEF Running
  <2>6. \A q \in Requests : UnderWay(q)' => UnderWay(q)
    BY <1>3, <1>4, <2>1, <2>4, <2>5 DEF UnderWay
  <2>7. OneAnalysis'
    BY <1>2, <1>3, <2>4, <2>6, WorkerKeepsOneAnalysis
  <2>8. Progress'
    <3>1. \A q \in Requests : Begun(q) => Begun(q)'
      BY BegunStays
    <3> QED
      BY <1>1, <1>3, <1>4, <2>1, <2>4, <2>5, <3>1 DEF Progress
  <2> QED
    BY <2>7, <2>8
<1>7. CASE HandleCancel
  <2> DEFINE one == <<[type |-> "cancel-complete", id |-> Head(toWorker).id,
                       ok |-> analysisStatus # None]>>
  <2>1. UNCHANGED <<step, analysisStatus>> /\ fromWorker' = fromWorker \o one
    BY <1>7 DEF HandleCancel, Post
  <2>2. one \in Seq(FromWorker)
    BY <1>2, <1>7, HeadTypes DEF HandleCancel, Take, FromWorker
  <2>3. \A i \in DOMAIN one : one[i].type # "complete"
    OBVIOUS
  <2> HIDE DEF one
  <2>4. (\A q \in Requests : Ended(q)' => Ended(q)) /\ Single(fromWorker, "complete")'
    BY <1>1, <2>1, <2>2, <2>3, PostHas DEF Ended, OneAnalysis, Has
  <2> QED
    BY <1>2, <1>3, <2>1, <2>4, QuietKeepsOneAnalysis
<1>8. CASE HandleClose
  <2>1. UNCHANGED <<step, analysisStatus, fromWorker>>
    BY <1>8 DEF HandleClose, analysisVars
  <2> QED
    BY <1>2, <1>3, <2>1, QuietKeepsOneAnalysis DEF OneAnalysis, Ended
<1> QED
  BY <1>5, <1>6, <1>7, <1>8 DEF WorkerHandles

\* The messages that an analysis posts at its end: its event, if it has a stream,
\* then its completion.
LEMMA EndPosts ==
    ASSUME NEW r \in Requests, NEW body \in Events
    PROVE  LET messages == Append(EventMessages(r, body), Completion(r, TRUE)) IN
           /\ r \in Streams => /\ Len(messages) = 2
                               /\ DOMAIN messages = {1, 2}
                               /\ messages[1] = [type |-> "event", id |-> r, body |-> body]
                               /\ messages[2] = Completion(r, TRUE)
           /\ r \notin Streams => /\ Len(messages) = 1
                                  /\ DOMAIN messages = {1}
                                  /\ messages[1] = Completion(r, TRUE)
<1> DEFINE event == [type |-> "event", id |-> r, body |-> body]
           end == Completion(r, TRUE)
<1>1. /\ r \in Streams => EventMessages(r, body) = <<event>>
      /\ r \notin Streams => EventMessages(r, body) = <<>>
  BY DEF EventMessages
<1> HIDE DEF event, end
<1>2. /\ Len(Append(<<event>>, end)) = 2 /\ DOMAIN Append(<<event>>, end) = {1, 2}
      /\ Append(<<event>>, end)[1] = event /\ Append(<<event>>, end)[2] = end
  <2>1. <<event>> \in Seq({event, end}) /\ Len(<<event>>) = 1 /\ <<event>>[1] = event
    OBVIOUS
  <2>2. DOMAIN Append(<<event>>, end) = 1..2
    BY <2>1, AppendProperties, LenProperties
  <2> QED
    BY <2>1, <2>2, AppendProperties
<1>3. /\ Len(Append(<<>>, end)) = 1 /\ DOMAIN Append(<<>>, end) = {1}
      /\ Append(<<>>, end)[1] = end
  OBVIOUS
<1>4. CASE r \in Streams
  BY <1>1, <1>2, <1>4 DEF event, end
<1>5. CASE r \notin Streams
  BY <1>1, <1>3, <1>5 DEF end
<1> QED
  BY <1>4, <1>5

LEMMA AnalyseKeepsOneAnalysis ==
    ASSUME BaseInv, OneAnalysis, Progress, ServerNext,
           NEW r \in Requests, Analyse(r) \/ FailAnalysis(r)
    PROVE  OneAnalysis' /\ Progress'
<1>1. toWorker \in Seq(ToWorker) /\ fromWorker \in Seq(FromWorker) /\ step \in [Requests -> Steps]
  BY DEF BaseInv, ServerTypeOK
<1>2. Running(r) /\ UNCHANGED <<active, closed, toWorker>>
  BY DEF Analyse, BeginFile, EndFile, FinishAnalysis, FailAnalysis, EndAnalysis, Running,
         queueVars, portVars
<1>3. /\ UnderWay(r) /\ ~Asked(r) /\ analysisStatus = r /\ Begun(r)
      /\ \A q \in Requests : UnderWay(q) => q = r
      /\ \A q \in Requests : ~Ended(q)
  BY <1>2 DEF Progress, OneAnalysis, UnderWay, Running
<1>4. \A i \in DOMAIN fromWorker : fromWorker[i].type # "complete"
  BY <1>3, NoneAsked
<1>5. \A q \in Requests : (Asked(q)' <=> Asked(q)) /\ (Begun(q) => Begun(q)')
  BY <1>2, BegunStays DEF Asked
<1>6. Single(toWorker, "analyze")'
  BY <1>2 DEF OneAnalysis
<1>7. CASE BeginFile(r) \/ EndFile(r)
  <2> DEFINE file == IF BeginFile(r) THEN <<>> ELSE EventMessages(r, "file")
  <2>1. /\ \A q \in Requests : Running(q)' <=> Running(q)
        /\ \A q \in Requests : step'[q] = "none" <=> step[q] = "none"
        /\ \A q \in Requests : step'[q] = "done" <=> step[q] = "done"
        /\ analysisStatus' = analysisStatus
    BY <1>1, <1>7 DEF BeginFile, EndFile, Running
  <2>2. \A i \in DOMAIN fromWorker' : fromWorker'[i].type # "complete"
    <3>1. CASE BeginFile(r)
      BY <1>4, <3>1 DEF BeginFile, portVars
    <3>2. CASE EndFile(r)
      <4> DEFINE t == EventMessages(r, "file")
      <4>1. t \in Seq(FromWorker) /\ \A i \in DOMAIN t : t[i].type # "complete"
        <5>1. t \in Seq(FromWorker)
          BY PostTypes DEF Events
        <5>2. \A i \in DOMAIN t : t[i].type # "complete"
          BY DEF EventMessages
        <5> QED
          BY <5>1, <5>2
      <4> HIDE DEF t
      <4>2. fromWorker' = fromWorker \o t
        BY <3>2 DEF EndFile, Post, t
      <4> QED
        BY <1>1, <1>4, <4>1, <4>2, PostFacts
    <3> QED
      BY <1>7, <3>1, <3>2
  <2>3. (\A q \in Requests : ~Ended(q)') /\ Single(fromWorker, "complete")'
    BY <2>2 DEF Ended, Has, Single
  <2>4. \A q \in Requests : UnderWay(q)' => UnderWay(q)
    BY <1>5, <2>1, <2>3 DEF UnderWay
  <2>5. OneAnalysis'
    BY <1>2, <1>6, <2>3, <2>4, WorkerKeepsOneAnalysis
  <2>6. Progress'
    BY <1>5, <2>1, <2>3 DEF Progress
  <2> QED
    BY <2>5, <2>6
<1>8. ASSUME NEW messages \in Seq(FromWorker), EndAnalysis(r, messages),
             \A i \in DOMAIN messages : messages[i].type = "complete" => messages[i].id = r,
             Has(messages, "complete", r), Single(messages, "complete")
      PROVE  OneAnalysis' /\ Progress'
  <2>1. /\ step' = [step EXCEPT ![r] = "done"]
        /\ analysisStatus' = None
        /\ fromWorker' = fromWorker \o messages
    BY <1>3, <1>8 DEF EndAnalysis, Post
  <2>2. /\ \A q \in Requests : Ended(q)' <=> q = r
        /\ Single(fromWorker, "complete")'
    <3>1. \A q \in Requests : Has(messages, "complete", q) <=> q = r
      BY <1>8 DEF Has
    <3>2. /\ \A q : Has(fromWorker \o messages, "complete", q)
                      <=> Has(fromWorker, "complete", q) \/ Has(messages, "complete", q)
          /\ Single(fromWorker \o messages, "complete")
      BY <1>1, <1>4, <1>8, PostHas
    <3> QED
      BY <1>3, <2>1, <3>1, <3>2 DEF Ended
  <2>3. \A q \in Requests : ~Running(q)'
    BY <1>1, <1>3, <2>1 DEF Running, UnderWay
  <2>4. \A q \in Requests : UnderWay(q)' => UnderWay(q)
    BY <1>3, <1>5, <2>2, <2>3 DEF UnderWay
  <2>5. OneAnalysis'
    BY <1>2, <1>6, <2>2, <2>4, WorkerKeepsOneAnalysis
  <2>6. Progress'
    BY <1>1, <1>3, <1>5, <2>1, <2>2, <2>3, NoneAssumption DEF Progress, UnderWay
  <2> QED
    BY <2>5, <2>6
<1>9. CASE FinishAnalysis(r)
  <2> DEFINE body == IF IsAnalysisCancelled THEN "cancelled" ELSE "meta"
             messages == Append(EventMessages(r, body), Completion(r, TRUE))
  <2>1. body \in Events /\ EndAnalysis(r, messages)
    BY <1>9 DEF FinishAnalysis, Events
  <2> HIDE DEF body
  <2>2. messages \in Seq(FromWorker)
    BY <2>1, PostTypes
  <2>3. /\ \A i \in DOMAIN messages : messages[i].type = "complete" => messages[i].id = r
        /\ Has(messages, "complete", r)
        /\ Single(messages, "complete")
    <3>1. CASE r \in Streams
      <4>1. /\ DOMAIN messages = {1, 2}
            /\ messages[1] = [type |-> "event", id |-> r, body |-> body]
            /\ messages[2] = Completion(r, TRUE)
        BY <2>1, <3>1, EndPosts
      <4>2. /\ messages[1].type = "event"
            /\ messages[2].type = "complete" /\ messages[2].id = r
        BY <4>1 DEF Completion
      <4> HIDE DEF messages
      <4> QED
        BY <4>1, <4>2 DEF Has, Single
    <3>2. CASE r \notin Streams
      <4>1. DOMAIN messages = {1} /\ messages[1] = Completion(r, TRUE)
        BY <2>1, <3>2, EndPosts
      <4>2. messages[1].type = "complete" /\ messages[1].id = r
        BY <4>1 DEF Completion
      <4> HIDE DEF messages
      <4> QED
        BY <4>1, <4>2 DEF Has, Single
    <3> QED
      BY <3>1, <3>2
  <2> QED
    BY <1>8, <2>1, <2>2, <2>3
<1>10. CASE FailAnalysis(r)
  <2> DEFINE messages == <<Completion(r, FALSE)>>
  <2>1. messages \in Seq(FromWorker) /\ EndAnalysis(r, messages)
    BY <1>10, PostTypes DEF FailAnalysis, Events
  <2>2. /\ \A i \in DOMAIN messages : messages[i].type = "complete" => messages[i].id = r
        /\ Has(messages, "complete", r)
        /\ Single(messages, "complete")
    BY DEF Completion, Has, Single
  <2> QED
    BY <1>8, <2>1, <2>2
<1> QED
  BY <1>7, <1>9, <1>10 DEF Analyse

LEMMA OneAnalysisStep ==
    BaseInv /\ OneAnalysis /\ Progress /\ [ServerNext]_serverVars => OneAnalysis' /\ Progress'
<1> SUFFICES ASSUME BaseInv, OneAnalysis, Progress, [ServerNext]_serverVars
             PROVE  OneAnalysis' /\ Progress'
  OBVIOUS
<1>1. CASE \/ UNCHANGED serverVars
           \/ \E r \in Requests : SubmitCancelled(r)
           \/ \E c \in Cancellers : CancelTimesOut(c)
  <2>1. UNCHANGED <<active, closed, toWorker, fromWorker, step, analysisStatus>>
    BY <1>1
       DEF SubmitCancelled, CancelTimesOut, SignalSettles, serverVars, queueVars, portVars,
           analysisVars
  <2> QED
    BY <2>1, QuietKeepsOneAnalysis DEF OneAnalysis, Asked, Ended
<1> QED
  BY <1>1, CancelSteps, SubmitKeepsOneAnalysis, CancelKeepsOneAnalysis, ShutdownKeepsOneAnalysis,
     ReceiveKeepsOneAnalysis, TakeKeepsOneAnalysis, AnalyseKeepsOneAnalysis
     DEF ServerNext, BaseInv

-----------------------------------------------------------------------------
(* Nothing that the main thread waits for is lost                          *)

\* Requests are only admitted by a server that listens, and by then it watches its
\* worker: the events that empty the port find it shutting down, or shut it down.
ServedWhenAttached == (listening => attached) /\ (active # None => listening)

LEMMA ServedWhenAttachedStep ==
    BaseInv /\ ServedWhenAttached /\ [ServerNext]_serverVars => ServedWhenAttached'
<1> SUFFICES ASSUME BaseInv, ServedWhenAttached, [ServerNext]_serverVars
             PROVE  ServedWhenAttached'
  OBVIOUS
<1>1. (attached => attached') /\ (listening => listening') /\ (listening' => attached')
  <2>1. [LifecycleNext]_lifecycleVars
    BY ServerStepIsLifecycleStep
  <2> QED
    BY <2>1
       DEF LifecycleNext, lifecycleVars, AttachHandlers, Listen, StartupTimerFires, Lease,
           LeaseLost, ScheduledShutdown, WorkerDies, WorkerTerminates, WorkerErrorEvent,
           WorkerExitEvent, ServedWhenAttached
<1>2. active' # None => active # None \/ listening
  <2>1. ASSUME NEW r \in Requests, Submit(r) PROVE listening
    BY <2>1 DEF Submit, Serving
  <2>2. ASSUME NEW r \in Requests, NEW how \in {"resolved", "rejected"}, Complete(r, how)
        PROVE  active # None
    BY <2>2, NoneAssumption DEF Complete
  <2>3. CASE ReceiveComplete
    BY <2>2, <2>3, HeadTypes DEF ReceiveComplete, Deliver, queueVars
  <2>4. CASE LifecycleEvent \/ WorkerEvent
    BY <2>4 DEF LifecycleEvent, WorkerEvent, ShutdownEffects, CloseEntries
  <2>5. ASSUME NEW c \in Cancellers, CancelStep(c) PROVE active' = active
    BY <2>5 DEF CancelStep, CancelEntry, Withdraw, AnswerInactive, ShareSignal, SendSignal
  <2>6. active' = active \/ (\E r \in Requests : Submit(r)) \/ ReceiveComplete
          \/ LifecycleEvent \/ WorkerEvent
    <3>1. ASSUME NEW r \in Requests, TransportCancelled(r) PROVE active' = active
      BY <2>5, <3>1, CancelSteps DEF BaseInv
    <3>2. ASSUME NEW c \in CancelCalls, CancelAnalysis(c) PROVE active' = active
      BY <2>5, <3>2, CancelSteps DEF BaseInv
    <3>3. CASE WorkerHandles \/ \E r \in Requests : Analyse(r) \/ FailAnalysis(r)
      BY <3>3
         DEF Analyse, BeginFile, EndFile, FinishAnalysis, FailAnalysis, EndAnalysis,
             WorkerHandles, BeginAnalysis, RejectAnalysis, HandleCancel, HandleClose, queueVars
    <3>4. CASE \/ \E r \in Requests : SubmitCancelled(r)
               \/ \E c \in Cancellers : CancelTimesOut(c)
               \/ ReceiveEvent \/ ReceiveCancelComplete \/ UNCHANGED serverVars
      BY <3>4
         DEF SubmitCancelled, CancelTimesOut, SignalSettles, ReceiveEvent, ReceiveCancelComplete,
             queueVars, serverVars
    <3> QED
      BY <3>1, <3>2, <3>3, <3>4 DEF ServerNext, Receive
  <2> QED
    BY <2>1, <2>3, <2>4, <2>6
<1> QED
  BY <1>1, <1>2 DEF ServedWhenAttached

\* A step that keeps the active entry keeps it under way.
LEMMA UnderWayStays ==
    ASSUME active' = active,
           \A r \in Requests : UnderWay(r) => UnderWay(r)',
           TypeOK, ActiveEntryUnderWay
    PROVE  ActiveEntryUnderWay'
BY DEF TypeOK, ActiveEntryUnderWay

\* What is posted does not hide what is on the port.
LEMMA PostKeepsHas ==
    ASSUME NEW S, NEW s \in Seq(S), NEW t \in Seq(S), NEW type, NEW id
    PROVE  Has(s, type, id) \/ Has(t, type, id) => Has(s \o t, type, id)
BY PostHas

LEMMA OneMessageHas ==
    ASSUME NEW m
    PROVE  Has(<<m>>, m.type, m.id)
<1>1. 1 \in DOMAIN <<m>> /\ <<m>>[1] = m
  OBVIOUS
<1> QED
  BY <1>1 DEF Has

LEMMA MainKeepsActiveUnderWay ==
    ASSUME BaseInv, ActiveEntryUnderWay,
           \/ \E r \in Requests : Submit(r) \/ TransportCancelled(r)
           \/ \E c \in CancelCalls : CancelAnalysis(c)
    PROVE  ActiveEntryUnderWay'
<1>1. QueueInv /\ TypeOK /\ toWorker \in Seq(ToWorker)
  BY DEF BaseInv, QueueInv, ServerTypeOK
<1>2. ASSUME UNCHANGED <<active, fromWorker, step>>, NEW t \in Seq(ToWorker),
             toWorker' = toWorker \o t
      PROVE  ActiveEntryUnderWay'
  <2>1. \A r \in Requests : UnderWay(r) => UnderWay(r)'
    BY <1>1, <1>2, PostKeepsHas DEF UnderWay, Asked, Ended, Running
  <2> QED
    BY <1>1, <1>2, <2>1, UnderWayStays
<1>3. ASSUME UNCHANGED <<active, fromWorker, step, toWorker>> PROVE ActiveEntryUnderWay'
  BY <1>1, <1>3, UnderWayStays DEF UnderWay, Asked, Ended, Running
<1>4. ASSUME NEW r \in Requests, Submit(r) PROVE ActiveEntryUnderWay'
  <2>1. CASE StartAtOnce(r) /\ toWorker' = toWorker \o <<AnalyzeMessage(r)>>
    <3>1. active' = r
      BY <2>1 DEF StartAtOnce
    <3>2. <<AnalyzeMessage(r)>> \in Seq(ToWorker) /\ Has(<<AnalyzeMessage(r)>>, "analyze", r)
      BY OneMessageHas DEF AnalyzeMessage, ToWorker
    <3>3. Asked(r)'
      BY <1>1, <2>1, <3>2, PostKeepsHas DEF Asked
    <3> QED
      BY <3>1, <3>3 DEF ActiveEntryUnderWay, UnderWay
  <2>2. CASE (Refuse(r) \/ JoinLine(r)) /\ toWorker' = toWorker
    BY <1>3, <1>4, <2>2 DEF Submit, Refuse, JoinLine, analysisVars
  <2> QED
    BY <1>1, <1>4, <2>1, <2>2, SubmitPosts
<1>5. ASSUME NEW c \in Cancellers, CancelStep(c) PROVE ActiveEntryUnderWay'
  <2>1. UNCHANGED <<active, fromWorker, step>>
    BY <1>5
       DEF CancelStep, CancelEntry, Withdraw, AnswerInactive, ShareSignal, SendSignal, analysisVars
  <2>2. <<CancelMessage(c)>> \in Seq(ToWorker)
    BY DEF CancelMessage, ToWorker
  <2> QED
    BY <1>1, <1>2, <1>3, <1>5, <2>1, <2>2, CancelPosts
<1> QED
  BY <1>1, <1>4, <1>5, CancelSteps

\* The delivered completion is the active entry's, or the queue is closed.
LEMMA ReceiveKeepsActiveUnderWay ==
    ASSUME BaseInv, OneAnalysis, ActiveEntryUnderWay, Receive
    PROVE  ActiveEntryUnderWay'
<1>1. QueueInv /\ TypeOK /\ toWorker \in Seq(ToWorker) /\ fromWorker \in Seq(FromWorker)
  BY DEF BaseInv, QueueInv, ServerTypeOK
<1>2. /\ fromWorker # <<>> /\ fromWorker' = Tail(fromWorker) /\ UNCHANGED step
      /\ Head(fromWorker) = fromWorker[1] /\ 1 \in DOMAIN fromWorker
  BY <1>1, TailFacts
     DEF Receive, ReceiveEvent, ReceiveComplete, ReceiveCancelComplete, Deliver, analysisVars
<1>3. ASSUME Head(fromWorker).type # "complete", UNCHANGED <<active, toWorker>>
      PROVE  ActiveEntryUnderWay'
  <2>1. \A r \in Requests : Ended(r) => Ended(r)'
    BY <1>1, <1>2, <1>3, TailHas DEF Ended
  <2> QED
    BY <1>1, <1>2, <1>3, <2>1, UnderWayStays DEF UnderWay, Asked, Running
<1>4. CASE ReceiveEvent \/ ReceiveCancelComplete
  BY <1>3, <1>4 DEF ReceiveEvent, ReceiveCancelComplete, Deliver, SignalSettles, queueVars
<1>5. CASE ReceiveComplete
  <2> DEFINE r == Head(fromWorker).id
  <2>1. r \in Requests /\ Ended(r)
    BY <1>2, <1>5, HeadTypes DEF ReceiveComplete, Deliver, Ended, Has
  <2>2. CASE UNCHANGED queueVars /\ entryState[r] # "active"
    <3>1. active # r
      BY <1>1, <2>1, <2>2 DEF QueueInv, Bookkeeping, EntryBookkeeping, ActiveAgrees
    <3>2. closed
      BY <2>1, <3>1 DEF OneAnalysis, UnderWay
    <3>3. active' = None
      BY <1>1, <2>2, <3>2 DEF QueueInv, Bookkeeping, ClosedIsEmpty, queueVars
    <3> QED
      BY <3>3 DEF ActiveEntryUnderWay
  <2>3. ASSUME NEW how \in {"resolved", "rejected"}, Complete(r, how), MainEffects
        PROVE  ActiveEntryUnderWay'
    <3>1. CASE active' = None
      BY <3>1 DEF ActiveEntryUnderWay
    <3>2. ASSUME NEW h \in Requests, active' = h, toWorker' = toWorker \o <<AnalyzeMessage(h)>>
          PROVE  ActiveEntryUnderWay'
      <4>1. <<AnalyzeMessage(h)>> \in Seq(ToWorker) /\ Has(<<AnalyzeMessage(h)>>, "analyze", h)
        BY OneMessageHas DEF AnalyzeMessage, ToWorker
      <4>2. Asked(h)'
        BY <1>1, <3>2, <4>1, PostKeepsHas DEF Asked
      <4> QED
        BY <3>2, <4>2 DEF ActiveEntryUnderWay, UnderWay
    <3> QED
      BY <1>1, <2>1, <2>3, <3>1, <3>2, CompletePosts
  <2> QED
    BY <1>5, <2>2, <2>3 DEF ReceiveComplete
<1> QED
  BY <1>4, <1>5 DEF Receive

LEMMA WorkerKeepsActiveUnderWay ==
    ASSUME BaseInv, ActiveEntryUnderWay,
           WorkerHandles \/ \E r \in Requests : Analyse(r) \/ FailAnalysis(r)
    PROVE  ActiveEntryUnderWay'
<1>1. /\ TypeOK /\ toWorker \in Seq(ToWorker) /\ fromWorker \in Seq(FromWorker)
      /\ step \in [Requests -> Steps]
  BY DEF BaseInv, ServerTypeOK
<1>2. active' = active
  BY DEF WorkerHandles, BeginAnalysis, RejectAnalysis, HandleCancel, HandleClose, Analyse,
         BeginFile, EndFile, FinishAnalysis, FailAnalysis, EndAnalysis, queueVars
<1>3. ASSUME NEW t \in Seq(FromWorker), fromWorker' = fromWorker \o t
      PROVE  \A r \in Requests : Ended(r) \/ Has(t, "complete", r) => Ended(r)'
  BY <1>1, <1>3, PostKeepsHas DEF Ended
<1>4. CASE WorkerHandles
  <2> DEFINE m == Head(toWorker)
  <2>1. toWorker # <<>> /\ toWorker' = Tail(toWorker)
    BY <1>4 DEF WorkerHandles, BeginAnalysis, RejectAnalysis, HandleCancel, HandleClose, Take
  <2>2. \A r \in Requests : Asked(r) => Asked(r)' \/ (m.type = "analyze" /\ m.id = r)
    BY <1>1, <2>1, TailHas DEF Asked
  <2>3. CASE BeginAnalysis
    <3>1. m.id \in Requests
      BY <1>1, <2>1, <2>3, HeadTypes DEF BeginAnalysis, Take
    <3>2. \A r \in Requests : Running(r) \/ r = m.id => Running(r)'
      BY <1>1, <2>3, <3>1 DEF BeginAnalysis, Running
    <3>3. \A r \in Requests : Ended(r) => Ended(r)'
      BY <2>3 DEF BeginAnalysis, Ended
    <3>4. \A r \in Requests : UnderWay(r) => UnderWay(r)'
      BY <2>2, <3>2, <3>3 DEF UnderWay
    <3> QED
      BY <1>1, <1>2, <3>4, UnderWayStays
  <2>4. CASE RejectAnalysis
    <3>1. m.id \in Requests
      BY <2>1, <2>4, HeadTypes DEF RejectAnalysis, Take
    <3> DEFINE t == <<Completion(m.id, FALSE)>>
    <3>2. t \in Seq(FromWorker) /\ Has(t, "complete", m.id)
      <4>1. t \in Seq(FromWorker)
        BY <3>1, PostTypes DEF Events
      <4> QED
        BY <4>1, OneMessageHas DEF Completion
    <3>3. fromWorker' = fromWorker \o t
      BY <2>4 DEF RejectAnalysis, Post
    <3> HIDE DEF t
    <3>4. \A r \in Requests : Ended(r) \/ r = m.id => Ended(r)'
      BY <1>3, <3>2, <3>3
    <3>5. \A r \in Requests : Running(r) => Running(r)' \/ r = m.id
      BY <1>1, <2>4, <3>1 DEF RejectAnalysis, Running
    <3>6. \A r \in Requests : UnderWay(r) => UnderWay(r)'
      BY <2>2, <3>4, <3>5 DEF UnderWay
    <3> QED
      BY <1>1, <1>2, <3>6, UnderWayStays
  <2>5. CASE HandleCancel \/ HandleClose
    <3>1. m.type # "analyze" /\ UNCHANGED step
      BY <2>5 DEF HandleCancel, HandleClose, Take, analysisVars
    <3>2. \A r \in Requests : Ended(r) => Ended(r)'
      <4>1. CASE HandleClose
        BY <4>1 DEF HandleClose, Ended
      <4>2. CASE HandleCancel
        <5> DEFINE t == <<[type |-> "cancel-complete", id |-> m.id, ok |-> analysisStatus # None]>>
        <5>1. fromWorker' = fromWorker \o t
          BY <4>2 DEF HandleCancel, Post
        <5>2. t \in Seq(FromWorker)
          BY <2>1, <4>2, HeadTypes DEF HandleCancel, Take, FromWorker
        <5> HIDE DEF t
        <5> QED
          BY <1>3, <5>1, <5>2
      <4> QED
        BY <2>5, <4>1, <4>2
    <3>3. \A r \in Requests : UnderWay(r) => UnderWay(r)'
      BY <2>2, <3>1, <3>2 DEF UnderWay, Running
    <3> QED
      BY <1>1, <1>2, <3>3, UnderWayStays
  <2> QED
    BY <1>4, <2>3, <2>4, <2>5 DEF WorkerHandles
<1>5. ASSUME NEW r \in Requests, BeginFile(r) \/ EndFile(r) PROVE ActiveEntryUnderWay'
  <2>1. \A q \in Requests : Running(q) => Running(q)'
    BY <1>1, <1>5 DEF BeginFile, EndFile, Running
  <2>2. \A q \in Requests : Ended(q) => Ended(q)'
    <3>1. CASE BeginFile(r)
      BY <3>1 DEF BeginFile, portVars, Ended
    <3>2. CASE EndFile(r)
      <4>1. EventMessages(r, "file") \in Seq(FromWorker)
        BY PostTypes DEF Events
      <4> QED
        BY <1>3, <3>2, <4>1 DEF EndFile, Post
    <3> QED
      BY <1>5, <3>1, <3>2
  <2>3. \A q \in Requests : UnderWay(q) => UnderWay(q)'
    BY <1>5, <2>1, <2>2 DEF UnderWay, Asked, BeginFile, EndFile, portVars
  <2> QED
    BY <1>1, <1>2, <2>3, UnderWayStays
<1>6. ASSUME NEW r \in Requests, NEW t \in Seq(FromWorker), EndAnalysis(r, t), Has(t, "complete", r)
      PROVE  ActiveEntryUnderWay'
  <2>1. \A q \in Requests : Ended(q) \/ q = r => Ended(q)'
    BY <1>3, <1>6 DEF EndAnalysis, Post
  <2>2. \A q \in Requests : Running(q) => Running(q)' \/ q = r
    BY <1>1, <1>6 DEF EndAnalysis, Running
  <2>3. \A q \in Requests : UnderWay(q) => UnderWay(q)'
    BY <1>6, <2>1, <2>2 DEF UnderWay, Asked, EndAnalysis
  <2> QED
    BY <1>1, <1>2, <2>3, UnderWayStays
<1>7. ASSUME NEW r \in Requests, FinishAnalysis(r) PROVE ActiveEntryUnderWay'
  <2> DEFINE body == IF IsAnalysisCancelled THEN "cancelled" ELSE "meta"
             t == Append(EventMessages(r, body), Completion(r, TRUE))
  <2>1. body \in Events /\ EndAnalysis(r, t)
    BY <1>7 DEF FinishAnalysis, Events
  <2> HIDE DEF body
  <2>2. t \in Seq(FromWorker)
    BY <2>1, PostTypes
  <2>3. \E i \in DOMAIN t : t[i] = Completion(r, TRUE)
    <3>1. CASE r \in Streams
      <4>1. DOMAIN t = {1, 2} /\ t[2] = Completion(r, TRUE)
        BY <2>1, <3>1, EndPosts
      <4> HIDE DEF t
      <4> QED
        BY <4>1
    <3>2. CASE r \notin Streams
      <4>1. DOMAIN t = {1} /\ t[1] = Completion(r, TRUE)
        BY <2>1, <3>2, EndPosts
      <4> HIDE DEF t
      <4> QED
        BY <4>1
    <3> QED
      BY <3>1, <3>2
  <2> HIDE DEF t
  <2>4. Has(t, "complete", r)
    BY <2>3 DEF Has, Completion
  <2> QED
    BY <1>6, <2>1, <2>2, <2>4
<1>8. ASSUME NEW r \in Requests, FailAnalysis(r) PROVE ActiveEntryUnderWay'
  <2>1. <<Completion(r, FALSE)>> \in Seq(FromWorker)
    BY PostTypes DEF Events
  <2>2. Has(<<Completion(r, FALSE)>>, "complete", r)
    BY OneMessageHas DEF Completion
  <2> QED
    BY <1>6, <1>8, <2>1, <2>2 DEF FailAnalysis
<1> QED
  BY <1>4, <1>5, <1>7, <1>8 DEF Analyse

LEMMA ActiveUnderWayStep ==
    BaseInv /\ OneAnalysis /\ ServedWhenAttached /\ ActiveEntryUnderWay /\ [ServerNext]_serverVars
      => ActiveEntryUnderWay'
<1> SUFFICES ASSUME BaseInv, OneAnalysis, ServedWhenAttached, ActiveEntryUnderWay,
                    [ServerNext]_serverVars
             PROVE  ActiveEntryUnderWay'
  OBVIOUS
<1>1. TypeOK
  BY DEF BaseInv, ServerTypeOK
<1>2. ASSUME UNCHANGED <<active, toWorker, fromWorker, step>> PROVE ActiveEntryUnderWay'
  BY <1>1, <1>2, UnderWayStays DEF UnderWay, Asked, Ended, Running
<1>3. CASE LifecycleEvent
  <2>1. CASE shuttingDown' /\ ~shuttingDown
    BY <1>3, <2>1 DEF LifecycleEvent, ShutdownEffects, CloseEntries, ActiveEntryUnderWay
  <2>2. CASE ~(shuttingDown' /\ ~shuttingDown)
    BY <1>2, <1>3, <2>2 DEF LifecycleEvent, ShutdownEffects, analysisVars
  <2> QED
    BY <2>1, <2>2
<1>4. CASE WorkerEvent
  <2>1. CASE closed
    <3>1. active' = None
      BY <1>4, <2>1
         DEF WorkerEvent, ShutdownEffects, CloseEntries, BaseInv, QueueInv, Bookkeeping,
             ClosedIsEmpty
    <3> QED
      BY <3>1 DEF ActiveEntryUnderWay
  <2>2. CASE ~closed /\ ~attached
    <3>1. active = None /\ active' = None
      BY <1>4, <2>2 DEF ServedWhenAttached, WorkerEvent, ShutdownEffects, CloseEntries
    <3> QED
      BY <3>1 DEF ActiveEntryUnderWay
  <2>3. CASE ~closed /\ attached
    <3>1. shuttingDown' /\ ~shuttingDown
      BY <1>4, <2>3
         DEF WorkerEvent, WorkerErrorEvent, WorkerExitEvent, ShutdownWith, BaseInv, ClosedIsShutDown
    <3> QED
      BY <1>4, <3>1 DEF WorkerEvent, ShutdownEffects, CloseEntries, ActiveEntryUnderWay
  <2> QED
    BY <2>1, <2>2, <2>3
<1>5. CASE \/ UNCHANGED serverVars
           \/ \E r \in Requests : SubmitCancelled(r)
           \/ \E c \in Cancellers : CancelTimesOut(c)
  BY <1>2, <1>5
     DEF SubmitCancelled, CancelTimesOut, SignalSettles, serverVars, queueVars, portVars,
         analysisVars
<1> QED
  BY <1>3, <1>4, <1>5, MainKeepsActiveUnderWay, ReceiveKeepsActiveUnderWay,
     WorkerKeepsActiveUnderWay DEF ServerNext

-----------------------------------------------------------------------------
(* A cancellation message is on time or the server is shutting down        *)

LEMMA ClosedStays ==
    ASSUME BaseInv, [ServerNext]_serverVars, closed
    PROVE  closed'
<1>1. ClosedIsShutDown /\ fromWorker \in Seq(FromWorker)
  BY DEF BaseInv, ServerTypeOK
<1>2. [QueueNext]_queueVars \/ CloseEntries \/ UNCHANGED bookkeepingVars
  BY <1>1, ServerStepIsQueueStep
<1> QED
  BY <1>2
     DEF QueueNext, Enqueue, Refuse, StartAtOnce, JoinLine, Complete, CancelTransportCall,
         CancelActiveAnalysis, CancelEntry, Withdraw, AnswerInactive, ShareSignal, SendSignal,
         SignalSettles, Close, CloseEntries, bookkeepingVars, queueVars

LEMMA TargetStays ==
    ASSUME BaseInv, Targets, [ServerNext]_serverVars, NEW c \in Cancellers, target[c] # None
    PROVE  target'[c] = target[c]
BY TargetsAreGiven

LEMMA MessageTypes ==
    ASSUME BaseInv
    PROVE  /\ \A i \in DOMAIN toWorker :
                /\ toWorker[i].type = "analyze" => toWorker[i].id \in Requests
                /\ toWorker[i].type = "cancel" => toWorker[i].id \in Cancellers \cup {"shutdown"}
           /\ \A i \in DOMAIN fromWorker :
                /\ fromWorker[i].type = "event" =>
                     fromWorker[i].id \in Requests /\ fromWorker[i].body \in Events
                /\ fromWorker[i].type = "complete" =>
                     fromWorker[i].id \in Requests /\ fromWorker[i].ok \in BOOLEAN
<1>1. /\ \A i \in DOMAIN toWorker : toWorker[i] \in ToWorker
      /\ \A i \in DOMAIN fromWorker : fromWorker[i] \in FromWorker
  BY ElementOfSeq, LenProperties DEF BaseInv, ServerTypeOK
<1> QED
  BY <1>1 DEF ToWorker, FromWorker

\* The cancellation at place i of the port finds the analysis it was sent for, or
\* none: what runs is that analysis, and of the requests on the port exactly that
\* analysis's is ahead of it.
OnTime(i) ==
    LET t == target[toWorker[i].id] IN
    /\ t # None
    /\ \A r \in Requests : Running(r) => r = t
    /\ \A j \in DOMAIN toWorker :
         toWorker[j].type = "analyze" => (j < i <=> toWorker[j].id = t)

CancelsInTime ==
    \A i \in DOMAIN toWorker : toWorker[i].type = "cancel" =>
      IF toWorker[i].id \in Cancellers THEN OnTime(i) ELSE closed

LEMMA CancelsInTimeInit == ServerInit => CancelsInTime
BY DEF ServerInit, CancelsInTime

LEMMA QuietKeepsCancels ==
    ASSUME BaseInv, Targets, CancelsInTime, [ServerNext]_serverVars, UNCHANGED toWorker,
           \A r \in Requests : Running(r)' => Running(r)
    PROVE  CancelsInTime'
<1>1. ASSUME NEW i \in DOMAIN toWorker, toWorker[i].type = "cancel", toWorker[i].id \in Cancellers
      PROVE  OnTime(i)'
  BY <1>1, TargetStays DEF CancelsInTime, OnTime
<1> QED
  BY <1>1, ClosedStays DEF CancelsInTime

LEMMA AskKeepsCancels ==
    ASSUME BaseInv, Targets, CancelsInTime, [ServerNext]_serverVars, NEW h \in Requests,
           toWorker' = toWorker \o <<AnalyzeMessage(h)>>, UNCHANGED step, ~Begun(h)
    PROVE  CancelsInTime'
<1> DEFINE one == <<AnalyzeMessage(h)>>
<1>1. /\ one \in Seq(ToWorker) /\ Len(one) = 1 /\ DOMAIN one = {1}
      /\ one[1].type = "analyze" /\ one[1].id = h
  BY DEF AnalyzeMessage, ToWorker
<1> HIDE DEF one
<1>2. toWorker' = toWorker \o one /\ toWorker \in Seq(ToWorker)
  BY DEF one, BaseInv, ServerTypeOK
<1>3. /\ Len(toWorker) \in Nat /\ DOMAIN toWorker = 1..Len(toWorker)
      /\ DOMAIN toWorker' = 1..Len(toWorker) + 1
      /\ \A i \in DOMAIN toWorker : i \in DOMAIN toWorker' /\ toWorker'[i] = toWorker[i]
      /\ \A i \in DOMAIN toWorker' \ DOMAIN toWorker :
           i = Len(toWorker) + 1 /\ toWorker'[i].type = "analyze" /\ toWorker'[i].id = h
  BY <1>1, <1>2, PostFacts
<1>4. ASSUME NEW i \in DOMAIN toWorker', toWorker'[i].type = "cancel"
      PROVE  IF toWorker'[i].id \in Cancellers THEN OnTime(i)' ELSE closed'
  <2>1. i \in DOMAIN toWorker /\ toWorker'[i] = toWorker[i]
    BY <1>3, <1>4
  <2>2. CASE toWorker[i].id \in Cancellers
    <3> DEFINE t == target[toWorker[i].id]
    <3>1. OnTime(i)
      BY <1>4, <2>1, <2>2 DEF CancelsInTime
    <3>2. t # None /\ target'[toWorker[i].id] = t /\ t # h
      BY <2>2, <3>1, TargetStays DEF OnTime, Targets
    <3>3. ASSUME NEW j \in DOMAIN toWorker', toWorker'[j].type = "analyze"
          PROVE  j < i <=> toWorker'[j].id = t
      <4>1. CASE j \in DOMAIN toWorker
        BY <1>3, <3>1, <3>3, <4>1 DEF OnTime
      <4>2. CASE j \notin DOMAIN toWorker
        BY <1>3, <2>1, <3>2, <4>2
      <4> QED
        BY <4>1, <4>2
    <3> QED
      BY <2>1, <2>2, <3>1, <3>2, <3>3 DEF OnTime, Running
  <2> QED
    BY <1>4, <2>1, <2>2, ClosedStays DEF CancelsInTime
<1> QED
  BY <1>4 DEF CancelsInTime

LEMMA SendKeepsCancels ==
    ASSUME BaseInv, Targets, OneAnalysis, CancelsInTime, [ServerNext]_serverVars,
           NEW c \in Cancellers, NEW r \in Requests, SendSignal(c, r), active = r, ~closed,
           answer[c] = None, toWorker' = toWorker \o <<CancelMessage(c)>>, UNCHANGED step
    PROVE  CancelsInTime'
<1> DEFINE one == <<CancelMessage(c)>>
<1>1. /\ one \in Seq(ToWorker) /\ Len(one) = 1 /\ DOMAIN one = {1}
      /\ one[1].type = "cancel" /\ one[1].id = c
  BY DEF CancelMessage, ToWorker
<1> HIDE DEF one
<1>2. toWorker' = toWorker \o one /\ toWorker \in Seq(ToWorker)
  BY DEF one, BaseInv, ServerTypeOK
<1>3. /\ Len(toWorker) \in Nat /\ DOMAIN toWorker = 1..Len(toWorker)
      /\ DOMAIN toWorker' = 1..Len(toWorker) + 1
      /\ \A i \in DOMAIN toWorker : i \in DOMAIN toWorker' /\ toWorker'[i] = toWorker[i]
      /\ \A i \in DOMAIN toWorker' \ DOMAIN toWorker :
           i = Len(toWorker) + 1 /\ toWorker'[i].type = "cancel" /\ toWorker'[i].id = c
  BY <1>1, <1>2, PostFacts
<1>4. target[c] = None /\ target'[c] = r /\ r # None
  BY NoneAssumption DEF SendSignal, Targets, BaseInv, QueueInv, TypeOK
<1>5. /\ \A q \in Requests : Running(q) => q = r
      /\ \A j \in DOMAIN toWorker : toWorker[j].type = "analyze" => toWorker[j].id = r
  BY MessageTypes DEF OneAnalysis, UnderWay, Asked, Has
<1>6. \A q \in Requests : Running(q)' <=> Running(q)
  BY DEF Running
<1>7. ASSUME NEW i \in DOMAIN toWorker', toWorker'[i].type = "cancel"
      PROVE  IF toWorker'[i].id \in Cancellers THEN OnTime(i)' ELSE closed'
  <2>1. CASE i \in DOMAIN toWorker /\ toWorker[i].id \in Cancellers
    <3>1. OnTime(i)
      BY <1>3, <1>7, <2>1 DEF CancelsInTime
    <3>2. target'[toWorker[i].id] = target[toWorker[i].id]
      BY <2>1, <3>1, TargetStays DEF OnTime
    <3> QED
      BY <1>3, <1>6, <2>1, <3>1, <3>2 DEF OnTime
  <2>2. CASE i \in DOMAIN toWorker /\ toWorker[i].id \notin Cancellers
    BY <1>3, <1>7, <2>2, ClosedStays DEF CancelsInTime
  <2>3. CASE i \notin DOMAIN toWorker
    <3>1. i = Len(toWorker) + 1 /\ toWorker'[i].id = c
      BY <1>3, <2>3
    <3>2. \A j \in DOMAIN toWorker' : toWorker'[j].type = "analyze" =>
             j < i /\ toWorker'[j].id = r
      BY <1>3, <1>5, <3>1
    <3> QED
      BY <1>4, <1>5, <1>6, <3>1, <3>2 DEF OnTime
  <2> QED
    BY <2>1, <2>2, <2>3
<1> QED
  BY <1>7 DEF CancelsInTime

LEMMA ShutdownKeepsCancels ==
    ASSUME BaseInv, Targets, CancelsInTime, [ServerNext]_serverVars, UNCHANGED step, closed',
           NEW messages \in Seq(ToWorker), toWorker' = toWorker \o messages,
           \A i \in DOMAIN messages :
             messages[i].type = "close" \/ messages[i] = CancelMessage("shutdown")
    PROVE  CancelsInTime'
<1>1. toWorker \in Seq(ToWorker)
  BY DEF BaseInv, ServerTypeOK
<1>2. \A i \in DOMAIN messages :
        /\ messages[i].type # "analyze"
        /\ messages[i].type = "cancel" => messages[i].id \notin Cancellers
  BY ServerAssumption DEF CancelMessage
<1>3. /\ Len(toWorker) \in Nat /\ DOMAIN toWorker = 1..Len(toWorker)
      /\ \A i \in DOMAIN toWorker : i \in DOMAIN toWorker' /\ toWorker'[i] = toWorker[i]
      /\ \A i \in DOMAIN toWorker' \ DOMAIN toWorker :
           /\ toWorker'[i].type # "analyze"
           /\ toWorker'[i].type = "cancel" => toWorker'[i].id \notin Cancellers
  BY <1>1, <1>2, PostFacts
<1>4. ASSUME NEW i \in DOMAIN toWorker', toWorker'[i].type = "cancel", toWorker'[i].id \in Cancellers
      PROVE  OnTime(i)'
  <2>1. i \in DOMAIN toWorker /\ toWorker'[i] = toWorker[i] /\ OnTime(i)
    BY <1>3, <1>4 DEF CancelsInTime
  <2>2. target'[toWorker[i].id] = target[toWorker[i].id]
    BY <1>4, <2>1, TargetStays DEF OnTime
  <2> QED
    BY <1>3, <2>1, <2>2 DEF OnTime, Running
<1> QED
  BY <1>4 DEF CancelsInTime

\* What the worker runs after taking a request is that request's analysis, or
\* nothing when it was rejected; every cancellation behind it was on time for it.
LEMMA TakeKeepsCancels ==
    ASSUME BaseInv, Targets, OneAnalysis, Progress, CancelsInTime, ServerNext,
           toWorker # <<>>, toWorker' = Tail(toWorker), UNCHANGED <<target, closed>>,
           \A r \in Requests : Running(r)' =>
             Running(r) \/ (Head(toWorker).type = "analyze" /\ Head(toWorker).id = r)
    PROVE  CancelsInTime'
<1>1. toWorker \in Seq(ToWorker)
  BY DEF BaseInv, ServerTypeOK
<1>2. /\ Len(toWorker) \in Nat
      /\ DOMAIN toWorker = 1..Len(toWorker) /\ 1 \in DOMAIN toWorker
      /\ Head(toWorker) = toWorker[1]
      /\ DOMAIN toWorker' = 1..Len(toWorker) - 1
      /\ \A i \in DOMAIN toWorker' : i + 1 \in DOMAIN toWorker /\ toWorker'[i] = toWorker[i + 1]
  BY <1>1, TailFacts
<1>3. ASSUME NEW i \in DOMAIN toWorker', toWorker'[i].type = "cancel", toWorker'[i].id \in Cancellers
      PROVE  OnTime(i)'
  <2> DEFINE t == target[toWorker'[i].id]
  <2>1. /\ t # None
        /\ \A r \in Requests : Running(r) => r = t
        /\ \A j \in DOMAIN toWorker :
             toWorker[j].type = "analyze" => (j < i + 1 <=> toWorker[j].id = t)
    BY <1>2, <1>3 DEF CancelsInTime, OnTime
  <2> HIDE DEF t
  <2>2. \A r \in Requests : Running(r)' => r = t
    BY <1>2, <2>1
  <2>3. \A j \in DOMAIN toWorker' : toWorker'[j].type = "analyze" => (j < i <=> toWorker'[j].id = t)
    <3> SUFFICES ASSUME NEW j \in DOMAIN toWorker', toWorker'[j].type = "analyze"
                 PROVE  j < i <=> toWorker'[j].id = t
      OBVIOUS
    <3>1. j + 1 < i + 1 <=> toWorker'[j].id = t
      BY <1>2, <2>1
    <3> QED
      BY <1>2, <3>1
  <2> QED
    BY <2>1, <2>2, <2>3 DEF OnTime, t
<1>4. ASSUME NEW i \in DOMAIN toWorker', toWorker'[i].type = "cancel", toWorker'[i].id \notin Cancellers
      PROVE  closed'
  BY <1>2, <1>4 DEF CancelsInTime
<1> QED
  BY <1>3, <1>4 DEF CancelsInTime

LEMMA CancelsInTimeStep ==
    BaseInv /\ Targets /\ OneAnalysis /\ Progress /\ CancelsInTime /\ [ServerNext]_serverVars
      => CancelsInTime'
<1> SUFFICES ASSUME BaseInv, Targets, OneAnalysis, Progress, CancelsInTime, [ServerNext]_serverVars
             PROVE  CancelsInTime'
  OBVIOUS
<1>1. /\ QueueInv /\ toWorker \in Seq(ToWorker) /\ fromWorker \in Seq(FromWorker)
      /\ step \in [Requests -> Steps]
  BY DEF BaseInv, ServerTypeOK
<1>2. CASE UNCHANGED <<toWorker, step>>
  BY <1>2, QuietKeepsCancels DEF Running
<1>3. ASSUME NEW r \in Requests, Submit(r) PROVE CancelsInTime'
  <2>1. CASE toWorker' = toWorker
    BY <1>2, <1>3, <2>1 DEF Submit, analysisVars
  <2>2. CASE toWorker' = toWorker \o <<AnalyzeMessage(r)>>
    <3>1. UNCHANGED step /\ ~Begun(r)
      BY <1>3 DEF Submit, analysisVars, Enqueue, New, Begun
    <3> QED
      BY <2>2, <3>1, AskKeepsCancels
  <2> QED
    BY <1>1, <1>3, <2>1, <2>2, SubmitPosts
<1>4. ASSUME NEW c \in Cancellers, CancelStep(c) PROVE CancelsInTime'
  <2>1. UNCHANGED step
    BY <1>4 DEF CancelStep, analysisVars
  <2>2. CASE toWorker' = toWorker
    BY <1>2, <2>1, <2>2
  <2>3. CASE toWorker' # toWorker
    <3>1. PICK r \in Requests : /\ SendSignal(c, r) /\ active = r /\ ~closed /\ answer[c] = None
                                /\ toWorker' = toWorker \o <<CancelMessage(c)>>
      BY <1>1, <1>4, <2>3, CancelPosts
    <3> QED
      BY <2>1, <3>1, SendKeepsCancels
  <2> QED
    BY <2>2, <2>3
<1>5. CASE ReceiveComplete
  <2>1. UNCHANGED step /\ Head(fromWorker).id \in Requests
    BY <1>5, HeadTypes DEF ReceiveComplete, Deliver, analysisVars
  <2>2. CASE toWorker' = toWorker
    BY <1>2, <2>1, <2>2
  <2>3. CASE toWorker' # toWorker
    <3>1. PICK how \in {"resolved", "rejected"} : Complete(Head(fromWorker).id, how) /\ MainEffects
      BY <1>5, <2>3 DEF ReceiveComplete
    <3>2. PICK h \in Requests : /\ entryState[h] = "pending"
                                /\ toWorker' = toWorker \o <<AnalyzeMessage(h)>>
      BY <1>1, <2>1, <2>3, <3>1, CompletePosts
    <3> QED
      BY <2>1, <3>2, AskKeepsCancels DEF Begun
  <2> QED
    BY <2>2, <2>3
<1>6. CASE LifecycleEvent \/ WorkerEvent
  <2>1. UNCHANGED step /\ ShutdownEffects
    BY <1>6 DEF LifecycleEvent, WorkerEvent, analysisVars
  <2>2. CASE shuttingDown' /\ ~shuttingDown
    <3>1. PICK messages \in Seq(ToWorker) :
            /\ CloseEntries
            /\ toWorker' = toWorker \o messages
            /\ \A i \in DOMAIN messages :
                 messages[i].type = "close" \/ messages[i] = CancelMessage("shutdown")
      BY <1>1, <2>1, <2>2, ShutdownPosts
    <3> QED
      BY <2>1, <3>1, ShutdownKeepsCancels DEF CloseEntries
  <2>3. CASE ~(shuttingDown' /\ ~shuttingDown)
    BY <1>2, <2>1, <2>3 DEF ShutdownEffects
  <2> QED
    BY <2>2, <2>3
<1>7. CASE WorkerHandles
  <2>1. toWorker # <<>> /\ toWorker' = Tail(toWorker) /\ UNCHANGED <<target, closed>>
    BY <1>7
       DEF WorkerHandles, BeginAnalysis, RejectAnalysis, HandleCancel, HandleClose, Take, queueVars
  <2>2. \A r \in Requests : Running(r)' =>
          Running(r) \/ (Head(toWorker).type = "analyze" /\ Head(toWorker).id = r)
    BY <1>1, <1>7
       DEF WorkerHandles, BeginAnalysis, RejectAnalysis, HandleCancel, HandleClose, Take, Running,
           analysisVars
  <2> QED
    BY <1>7, <2>1, <2>2, TakeKeepsCancels DEF ServerNext
<1>8. ASSUME NEW r \in Requests, Analyse(r) \/ FailAnalysis(r) PROVE CancelsInTime'
  <2>1. UNCHANGED toWorker
    BY <1>8 DEF Analyse, BeginFile, EndFile, FinishAnalysis, FailAnalysis, EndAnalysis, portVars
  <2>2. \A q \in Requests : Running(q)' => Running(q)
    BY <1>1, <1>8
       DEF Analyse, BeginFile, EndFile, FinishAnalysis, FailAnalysis, EndAnalysis, Running
  <2> QED
    BY <2>1, <2>2, QuietKeepsCancels
<1>9. CASE \/ UNCHANGED serverVars \/ ReceiveEvent \/ ReceiveCancelComplete
           \/ \E r \in Requests : SubmitCancelled(r)
           \/ \E c \in Cancellers : CancelTimesOut(c)
  BY <1>2, <1>9
     DEF ReceiveEvent, ReceiveCancelComplete, SubmitCancelled, CancelTimesOut, serverVars, portVars,
         analysisVars
<1> QED
  BY <1>1, <1>3, <1>4, <1>5, <1>6, <1>7, <1>8, <1>9, CancelSteps DEF ServerNext, Receive

-----------------------------------------------------------------------------
(* The flags that cancellations set                                        *)

Confirms(i, c) ==
    fromWorker[i].type = "cancel-complete" /\ fromWorker[i].id = c /\ fromWorker[i].ok

\* The acknowledgement of c's signal was delivered or is on the port.
Confirmed(c) == signal[c] = "acknowledged" \/ \E i \in DOMAIN fromWorker : Confirms(i, c)

\* What the worker confirmed, it did.
ConfirmedIsSet ==
    \A c \in Cancellers : Confirmed(c) => target[c] # None /\ cancelled[target[c]]

LEMMA FlagsInit == ServerInit => NoCrossCancellation /\ ConfirmedIsSet
BY DEF ServerInit, QueueInit, NoCrossCancellation, ConfirmedIsSet, Confirmed

\* A flag is set by a cancellation sent for the analysis, or by the shutdown's.
LEMMA FlagSteps ==
    ASSUME BaseInv, Targets, Progress, CancelsInTime, [ServerNext]_serverVars,
           NEW r \in Requests
    PROVE  /\ cancelled[r] => cancelled'[r]
           /\ cancelled'[r] /\ ~cancelled[r] => HandleCancel /\ analysisStatus = r
<1>1. cancelled \in [Requests -> BOOLEAN]
  BY DEF BaseInv, ServerTypeOK
<1>2. HandleCancel \/ UNCHANGED cancelled
  BY DEF ServerNext, Submit, SubmitCancelled, TransportCancelled, Analyse, BeginFile, EndFile,
         FinishAnalysis, FailAnalysis, EndAnalysis, CancelAnalysis, CancelTimesOut, Receive,
         ReceiveEvent, ReceiveComplete, ReceiveCancelComplete, LifecycleEvent, WorkerEvent,
         WorkerHandles, BeginAnalysis, RejectAnalysis, HandleClose, analysisVars, serverVars
<1> QED
  BY <1>1, <1>2 DEF HandleCancel

LEMMA NoCrossCancellationStep ==
    BaseInv /\ Targets /\ Progress /\ CancelsInTime /\ NoCrossCancellation /\ [ServerNext]_serverVars
      => NoCrossCancellation'
<1> SUFFICES ASSUME BaseInv, Targets, Progress, CancelsInTime, NoCrossCancellation,
                    [ServerNext]_serverVars, NEW r \in Requests, cancelled'[r]
             PROVE  closed' \/ \E c \in Cancellers : target'[c] = r
  BY DEF NoCrossCancellation
<1>1. CASE cancelled[r]
  <2>1. closed \/ \E c \in Cancellers : target[c] = r
    BY <1>1 DEF NoCrossCancellation
  <2> QED
    BY <2>1, ClosedStays, TargetStays, NoneAssumption
<1>2. CASE ~cancelled[r]
  <2>1. HandleCancel /\ analysisStatus = r
    BY <1>2, FlagSteps
  <2>2. /\ toWorker # <<>> /\ Head(toWorker).type = "cancel"
        /\ Head(toWorker) = toWorker[1] /\ 1 \in DOMAIN toWorker
        /\ UNCHANGED <<closed, target>>
    BY <2>1, TailFacts DEF HandleCancel, Take, queueVars, BaseInv, ServerTypeOK
  <2>3. Running(r)
    BY <2>1 DEF Progress
  <2> QED
    BY <2>2, <2>3 DEF CancelsInTime, OnTime
<1> QED
  BY <1>1, <1>2

\* How the messages for the main thread change: one is taken, the worker's end
\* loses them, or the worker posts an acknowledgement, the result of a file, or
\* what ends an analysis.
LEMMA ServerPostsFrom ==
    ASSUME BaseInv, [ServerNext]_serverVars
    PROVE  \/ HandleCancel
           \/ fromWorker' = fromWorker
           \/ WorkerEvent /\ fromWorker' = <<>>
           \/ Receive /\ fromWorker # <<>> /\ fromWorker' = Tail(fromWorker)
           \/ \E t \in Seq(FromWorker) :
                /\ fromWorker' = fromWorker \o t
                /\ \A i \in DOMAIN t : t[i].type # "cancel-complete"
<1>1. CASE RejectAnalysis
  <2>1. Head(toWorker).id \in Requests
    BY <1>1, HeadTypes DEF RejectAnalysis, Take
  <2> DEFINE t == <<Completion(Head(toWorker).id, FALSE)>>
  <2>2. t \in Seq(FromWorker)
    BY <2>1, PostTypes DEF Events
  <2>3. \A i \in DOMAIN t : t[i].type # "cancel-complete"
    BY DEF Completion
  <2>4. fromWorker' = fromWorker \o t
    BY <1>1 DEF RejectAnalysis, Post
  <2> HIDE DEF t
  <2> QED
    BY <2>2, <2>3, <2>4
<1>2. ASSUME NEW r \in Requests, EndFile(r)
      PROVE  \E t \in Seq(FromWorker) :
               /\ fromWorker' = fromWorker \o t
               /\ \A i \in DOMAIN t : t[i].type # "cancel-complete"
  <2> DEFINE t == EventMessages(r, "file")
  <2>1. t \in Seq(FromWorker)
    BY PostTypes DEF Events
  <2>2. \A i \in DOMAIN t : t[i].type # "cancel-complete"
    BY DEF EventMessages
  <2>3. fromWorker' = fromWorker \o t
    BY <1>2 DEF EndFile, Post
  <2> HIDE DEF t
  <2> QED
    BY <2>1, <2>2, <2>3
<1>3. ASSUME NEW r \in Requests, FinishAnalysis(r)
      PROVE  \E t \in Seq(FromWorker) :
               /\ fromWorker' = fromWorker \o t
               /\ \A i \in DOMAIN t : t[i].type # "cancel-complete"
  <2> DEFINE body == IF IsAnalysisCancelled THEN "cancelled" ELSE "meta"
             t == Append(EventMessages(r, body), Completion(r, TRUE))
  <2>1. body \in Events /\ fromWorker' = fromWorker \o t
    BY <1>3 DEF FinishAnalysis, EndAnalysis, Post, Events
  <2> HIDE DEF body
  <2>2. t \in Seq(FromWorker)
    BY <2>1, PostTypes
  <2>3. \A i \in DOMAIN t : \/ t[i] = Completion(r, TRUE)
                            \/ t[i] = [type |-> "event", id |-> r, body |-> body]
    <3>1. CASE r \in Streams
      <4>1. /\ DOMAIN t = {1, 2}
            /\ t[1] = [type |-> "event", id |-> r, body |-> body]
            /\ t[2] = Completion(r, TRUE)
        BY <2>1, <3>1, EndPosts
      <4> QED
        BY <4>1
    <3>2. CASE r \notin Streams
      <4>1. DOMAIN t = {1} /\ t[1] = Completion(r, TRUE)
        BY <2>1, <3>2, EndPosts
      <4> QED
        BY <4>1
    <3> QED
      BY <3>1, <3>2
  <2> HIDE DEF t
  <2>4. \A i \in DOMAIN t : t[i].type # "cancel-complete"
    BY <2>3 DEF Completion
  <2> QED
    BY <2>1, <2>2, <2>4
<1>4. ASSUME NEW r \in Requests, FailAnalysis(r)
      PROVE  \E t \in Seq(FromWorker) :
               /\ fromWorker' = fromWorker \o t
               /\ \A i \in DOMAIN t : t[i].type # "cancel-complete"
  <2> DEFINE t == <<Completion(r, FALSE)>>
  <2>1. t \in Seq(FromWorker)
    BY PostTypes DEF Events
  <2>2. \A i \in DOMAIN t : t[i].type # "cancel-complete"
    BY DEF Completion
  <2>3. fromWorker' = fromWorker \o t
    BY <1>4 DEF FailAnalysis, EndAnalysis, Post
  <2> HIDE DEF t
  <2> QED
    BY <2>1, <2>2, <2>3
<1>5. \/ HandleCancel \/ RejectAnalysis
      \/ fromWorker' = fromWorker
      \/ WorkerEvent /\ fromWorker' = <<>>
      \/ Receive /\ fromWorker # <<>> /\ fromWorker' = Tail(fromWorker)
      \/ \E r \in Requests : EndFile(r) \/ FinishAnalysis(r) \/ FailAnalysis(r)
  <2>1. CASE Receive
    BY <2>1 DEF Receive, ReceiveEvent, ReceiveComplete, ReceiveCancelComplete, Deliver
  <2>2. CASE LifecycleEvent \/ WorkerEvent
    BY <2>2 DEF LifecycleEvent, WorkerEvent
  <2>3. CASE WorkerHandles \/ \E r \in Requests : Analyse(r) \/ FailAnalysis(r)
    BY <2>3
       DEF WorkerHandles, BeginAnalysis, RejectAnalysis, HandleClose, Analyse, BeginFile, portVars
  <2>4. CASE ~(Receive \/ LifecycleEvent \/ WorkerEvent \/ WorkerHandles)
               /\ ~\E r \in Requests : Analyse(r) \/ FailAnalysis(r)
    BY <2>4
       DEF ServerNext, Submit, SubmitCancelled, TransportCancelled, CancelAnalysis,
           CancelTimesOut, portVars, serverVars
  <2> QED
    BY <2>1, <2>2, <2>3, <2>4
<1> QED
  BY <1>1, <1>2, <1>3, <1>4, <1>5

\* How the messages for the worker change: the worker takes the first, or the main
\* thread adds some.
LEMMA ServerPostsTo ==
    ASSUME BaseInv, [ServerNext]_serverVars
    PROVE  \/ WorkerHandles /\ toWorker # <<>> /\ toWorker' = Tail(toWorker)
           \/ toWorker' = toWorker
           \/ \E t \in Seq(ToWorker) : toWorker' = toWorker \o t
<1>1. QueueInv /\ toWorker \in Seq(ToWorker)
  BY DEF BaseInv, ServerTypeOK
<1>2. /\ \A r \in Requests : <<AnalyzeMessage(r)>> \in Seq(ToWorker)
      /\ \A c \in Cancellers : <<CancelMessage(c)>> \in Seq(ToWorker)
  BY DEF AnalyzeMessage, CancelMessage, ToWorker
<1>3. ASSUME NEW r \in Requests, Submit(r)
      PROVE  toWorker' = toWorker \/ \E t \in Seq(ToWorker) : toWorker' = toWorker \o t
  BY <1>1, <1>2, <1>3, SubmitPosts
<1>4. ASSUME NEW c \in Cancellers, CancelStep(c)
      PROVE  toWorker' = toWorker \/ \E t \in Seq(ToWorker) : toWorker' = toWorker \o t
  BY <1>1, <1>2, <1>4, CancelPosts
<1>5. CASE ReceiveComplete
  <2>1. Head(fromWorker).id \in Requests
    BY <1>5, HeadTypes DEF ReceiveComplete, Deliver
  <2>2. CASE toWorker' # toWorker
    <3>1. PICK how \in {"resolved", "rejected"} : Complete(Head(fromWorker).id, how) /\ MainEffects
      BY <1>5, <2>2 DEF ReceiveComplete
    <3> QED
      BY <1>1, <1>2, <2>1, <3>1, CompletePosts
  <2> QED
    BY <2>2
<1>6. CASE LifecycleEvent \/ WorkerEvent
  <2>1. ShutdownEffects
    BY <1>6 DEF LifecycleEvent, WorkerEvent
  <2>2. CASE shuttingDown' /\ ~shuttingDown
    BY <1>1, <2>1, <2>2, ShutdownPosts
  <2>3. CASE ~(shuttingDown' /\ ~shuttingDown)
    BY <2>1, <2>3 DEF ShutdownEffects
  <2> QED
    BY <2>2, <2>3
<1>7. CASE WorkerHandles
  BY <1>7 DEF WorkerHandles, BeginAnalysis, RejectAnalysis, HandleCancel, HandleClose, Take
<1>8. CASE \E r \in Requests : Analyse(r) \/ FailAnalysis(r)
  BY <1>8 DEF Analyse, BeginFile, EndFile, FinishAnalysis, FailAnalysis, EndAnalysis, portVars
<1>9. CASE \/ UNCHANGED serverVars \/ ReceiveEvent \/ ReceiveCancelComplete
           \/ \E r \in Requests : SubmitCancelled(r)
           \/ \E c \in Cancellers : CancelTimesOut(c)
  BY <1>9
     DEF ReceiveEvent, ReceiveCancelComplete, SubmitCancelled, CancelTimesOut, serverVars, portVars
<1>10. ASSUME NEW r \in Requests, TransportCancelled(r)
       PROVE  toWorker' = toWorker \/ \E t \in Seq(ToWorker) : toWorker' = toWorker \o t
  BY <1>1, <1>4, <1>10, CancelSteps
<1>11. ASSUME NEW c \in CancelCalls, CancelAnalysis(c)
       PROVE  toWorker' = toWorker \/ \E t \in Seq(ToWorker) : toWorker' = toWorker \o t
  BY <1>1, <1>4, <1>11, CancelSteps
<1> QED
  BY <1>3, <1>5, <1>6, <1>7, <1>8, <1>9, <1>10, <1>11 DEF ServerNext, Receive

\* A signal that begins to be in flight is posted in the same step.
LEMMA NewSignalIsPosted ==
    ASSUME BaseInv, [ServerNext]_serverVars, NEW c \in Cancellers,
           signal[c] # "inFlight", signal'[c] = "inFlight"
    PROVE  Has(toWorker, "cancel", c)'
<1>1. QueueInv /\ TypeOK /\ toWorker \in Seq(ToWorker) /\ fromWorker \in Seq(FromWorker)
  BY DEF BaseInv, QueueInv, ServerTypeOK
<1>2. ASSUME NEW d \in Cancellers, CancelStep(d) PROVE Has(toWorker, "cancel", c)'
  <2>1. CASE AnswerInactive(d) \/ \E r \in Requests : Withdraw(d, r) \/ ShareSignal(d, r)
    BY <2>1 DEF AnswerInactive, Withdraw, ShareSignal
  <2>2. ASSUME NEW r \in Requests, SendSignal(d, r), toWorker' = toWorker \o <<CancelMessage(d)>>
        PROVE  Has(toWorker, "cancel", c)'
    <3>1. d = c
      BY <1>1, <2>2 DEF SendSignal, TypeOK
    <3>2. <<CancelMessage(d)>> \in Seq(ToWorker) /\ Has(<<CancelMessage(d)>>, "cancel", d)
      BY OneMessageHas DEF CancelMessage, ToWorker
    <3> QED
      BY <1>1, <2>2, <3>1, <3>2, PostKeepsHas
  <2> QED
    BY <1>1, <1>2, <2>1, <2>2, CancelPosts
<1>3. ASSUME NEW r \in Requests, Submit(r) PROVE FALSE
  BY <1>3 DEF Submit, Enqueue, Refuse, StartAtOnce, JoinLine, signalVars
<1>4. CASE LifecycleEvent \/ WorkerEvent
  BY <1>4 DEF LifecycleEvent, WorkerEvent, SignalsFail, signalVars
<1>5. CASE Receive
  BY <1>1, <1>5
     DEF Receive, ReceiveEvent, ReceiveComplete, ReceiveCancelComplete, Complete, signalVars,
         queueVars, SignalSettles, TypeOK
<1>6. ASSUME NEW d \in Cancellers, CancelTimesOut(d) PROVE FALSE
  BY <1>1, <1>6 DEF CancelTimesOut, SignalSettles, TypeOK
<1>7. ~UNCHANGED queueVars
  BY DEF queueVars
<1>8. ASSUME NEW r \in Requests, TransportCancelled(r) PROVE Has(toWorker, "cancel", c)'
  BY <1>1, <1>2, <1>8, CancelSteps
<1>9. ASSUME NEW d \in CancelCalls, CancelAnalysis(d) PROVE Has(toWorker, "cancel", c)'
  BY <1>1, <1>2, <1>9, CancelSteps
<1> QED
  BY <1>3, <1>4, <1>5, <1>6, <1>7, <1>8, <1>9
     DEF ServerNext, SubmitCancelled, Analyse, BeginFile, EndFile, FinishAnalysis, FailAnalysis,
         EndAnalysis, WorkerHandles, BeginAnalysis, RejectAnalysis, HandleCancel, HandleClose,
         serverVars

LEMMA SignalUnderWayStep == BaseInv /\ SignalUnderWay /\ [ServerNext]_serverVars => SignalUnderWay'
<1> SUFFICES ASSUME BaseInv, SignalUnderWay, [ServerNext]_serverVars, NEW c \in Cancellers,
                    signal'[c] = "inFlight"
             PROVE  Has(toWorker, "cancel", c)' \/ Has(fromWorker, "cancel-complete", c)'
  BY DEF SignalUnderWay
<1>1. toWorker \in Seq(ToWorker) /\ fromWorker \in Seq(FromWorker) /\ TypeOK
  BY DEF BaseInv, ServerTypeOK
<1>2. ~WorkerEvent
  BY DEF WorkerEvent, SignalsFail
<1>3. CASE signal[c] # "inFlight"
  BY <1>3, NewSignalIsPosted
<1>4. ASSUME HandleCancel
      PROVE  /\ Has(fromWorker', "cancel-complete", Head(toWorker).id)
             /\ Has(fromWorker, "cancel-complete", c) => Has(fromWorker, "cancel-complete", c)'
  <2> DEFINE t == <<[type |-> "cancel-complete", id |-> Head(toWorker).id,
                     ok |-> analysisStatus # None]>>
  <2>1. fromWorker' = fromWorker \o t
    BY <1>4 DEF HandleCancel, Post
  <2>2. t \in Seq(FromWorker)
    BY <1>4, HeadTypes DEF HandleCancel, Take, FromWorker
  <2>3. Has(t, "cancel-complete", Head(toWorker).id)
    BY OneMessageHas
  <2> HIDE DEF t
  <2> QED
    BY <1>1, <2>1, <2>2, <2>3, PostKeepsHas
<1>5. ASSUME signal[c] = "inFlight", Has(toWorker, "cancel", c)
      PROVE  Has(toWorker, "cancel", c)' \/ Has(fromWorker, "cancel-complete", c)'
  <2>1. CASE WorkerHandles /\ toWorker # <<>> /\ toWorker' = Tail(toWorker)
    <3>1. CASE Head(toWorker).type = "cancel" /\ Head(toWorker).id = c
      <4>1. HandleCancel
        BY <2>1, <3>1
           DEF WorkerHandles, BeginAnalysis, RejectAnalysis, HandleClose, Take
      <4> QED
        BY <1>4, <3>1, <4>1
    <3> QED
      BY <1>1, <1>5, <2>1, <3>1, TailHas
  <2>2. CASE \E t \in Seq(ToWorker) : toWorker' = toWorker \o t
    BY <1>1, <1>5, <2>2, PostKeepsHas
  <2> QED
    BY <1>5, <2>1, <2>2, ServerPostsTo
<1>6. ASSUME signal[c] = "inFlight", Has(fromWorker, "cancel-complete", c)
      PROVE  Has(fromWorker, "cancel-complete", c)'
  <2>1. CASE Receive /\ fromWorker # <<>> /\ fromWorker' = Tail(fromWorker)
    <3>1. CASE Head(fromWorker).type = "cancel-complete" /\ Head(fromWorker).id = c
      <4>1. ReceiveCancelComplete
        BY <2>1, <3>1 DEF Receive, ReceiveEvent, ReceiveComplete, Deliver
      <4>2. PICK how \in {"acknowledged", "declined"} : SignalSettles(c, how)
        BY <1>6, <3>1, <4>1 DEF ReceiveCancelComplete
      <4>3. signal'[c] = how
        BY <1>1, <4>2 DEF SignalSettles, TypeOK
      <4> QED
        BY <4>3
    <3> QED
      BY <1>1, <1>6, <2>1, <3>1, TailHas
  <2>2. CASE \E t \in Seq(FromWorker) : fromWorker' = fromWorker \o t
    BY <1>1, <1>6, <2>2, PostKeepsHas
  <2> QED
    BY <1>2, <1>4, <1>6, <2>1, <2>2, ServerPostsFrom
<1> QED
  BY <1>3, <1>5, <1>6 DEF SignalUnderWay

LEMMA ConfirmedIsSetStep ==
    BaseInv /\ Targets /\ Progress /\ CancelsInTime /\ ConfirmedIsSet /\ [ServerNext]_serverVars
      => ConfirmedIsSet'
<1> SUFFICES ASSUME BaseInv, Targets, Progress, CancelsInTime, ConfirmedIsSet,
                    [ServerNext]_serverVars, NEW c \in Cancellers, Confirmed(c)'
             PROVE  target'[c] # None /\ cancelled'[target'[c]]
  BY DEF ConfirmedIsSet
<1>1. TypeOK /\ toWorker \in Seq(ToWorker) /\ fromWorker \in Seq(FromWorker)
  BY DEF BaseInv, QueueInv, ServerTypeOK
<1>2. CASE Confirmed(c)
  <2>1. target[c] \in Requests /\ target[c] # None /\ cancelled[target[c]]
    BY <1>1, <1>2 DEF ConfirmedIsSet, TypeOK
  <2> QED
    BY <2>1, TargetStays, FlagSteps
<1>3. CASE ~Confirmed(c)
  <2>1. CASE HandleCancel
    <3> DEFINE one == <<[type |-> "cancel-complete", id |-> Head(toWorker).id,
                         ok |-> analysisStatus # None]>>
    <3>1. /\ toWorker # <<>> /\ Head(toWorker).type = "cancel"
          /\ Head(toWorker) = toWorker[1] /\ 1 \in DOMAIN toWorker
          /\ UNCHANGED <<signal, target>>
          /\ fromWorker' = fromWorker \o one
      BY <1>1, <2>1, TailFacts DEF HandleCancel, Take, Post, queueVars
    <3>2. one \in Seq(FromWorker) /\ DOMAIN one = {1}
            /\ one[1].id = Head(toWorker).id /\ (one[1].ok <=> analysisStatus # None)
      <4>1. [type |-> "cancel-complete", id |-> Head(toWorker).id,
             ok |-> analysisStatus # None] \in FromWorker
        BY <3>1, HeadTypes DEF FromWorker
      <4>2. DOMAIN one = {1} /\ one[1] = [type |-> "cancel-complete", id |-> Head(toWorker).id,
                                          ok |-> analysisStatus # None]
        OBVIOUS
      <4>3. one \in Seq(FromWorker)
        BY <4>1
      <4> QED
        BY <4>2, <4>3
    <3> HIDE DEF one
    <3>3. Head(toWorker).id = c /\ analysisStatus # None
      <4>1. \E i \in DOMAIN fromWorker' \ DOMAIN fromWorker : Confirms(i, c)'
        BY <1>1, <1>3, <3>1, <3>2, PostFacts DEF Confirmed, Confirms
      <4> QED
        BY <1>1, <3>1, <3>2, <4>1, PostFacts DEF Confirms
    <3>4. analysisStatus \in Requests /\ Running(analysisStatus)
      BY <3>3 DEF Progress, BaseInv, ServerTypeOK
    <3>5. target[c] = analysisStatus
      BY <3>1, <3>3, <3>4 DEF CancelsInTime, OnTime
    <3> QED
      BY <2>1, <3>1, <3>3, <3>4, <3>5 DEF HandleCancel
  <2>2. CASE ReceiveCancelComplete
    <3>1. /\ fromWorker # <<>> /\ fromWorker' = Tail(fromWorker)
          /\ Head(fromWorker).type = "cancel-complete"
          /\ Head(fromWorker) = fromWorker[1] /\ 1 \in DOMAIN fromWorker
      BY <1>1, <2>2, TailFacts DEF ReceiveCancelComplete, Deliver
    <3>2. \A i \in DOMAIN fromWorker' : ~Confirms(i, c)'
      BY <1>1, <1>3, <3>1, TailFacts DEF Confirmed, Confirms
    <3>3. signal'[c] = "acknowledged" /\ signal[c] # "acknowledged"
      BY <1>3, <3>2 DEF Confirmed
    <3>4. Head(fromWorker).id = c /\ Head(fromWorker).ok
      BY <1>1, <2>2, <3>3 DEF ReceiveCancelComplete, SignalSettles, TypeOK, queueVars
    <3> QED
      BY <1>3, <3>1, <3>4 DEF Confirmed, Confirms
  <2>3. CASE ~HandleCancel /\ ~ReceiveCancelComplete
    <3>1. signal'[c] = "acknowledged" => signal[c] = "acknowledged"
      <4>1. CASE LifecycleEvent \/ UNCHANGED serverVars
        BY <4>1 DEF LifecycleEvent, serverVars, queueVars, signalVars
      <4>2. CASE WorkerEvent
        BY <1>1, <4>2 DEF WorkerEvent, SignalsFail, TypeOK
      <4>3. ASSUME NEW r \in Requests, Submit(r) \/ SubmitCancelled(r) PROVE UNCHANGED signal
        BY <4>3 DEF Submit, SubmitCancelled, Enqueue, Refuse, StartAtOnce, JoinLine, queueVars,
                    signalVars
      <4>4. ASSUME NEW d \in Cancellers, CancelStep(d)
            PROVE  signal'[c] = "acknowledged" => signal[c] = "acknowledged"
        <5>1. UNCHANGED signal \/ signal' = [signal EXCEPT ![d] = "inFlight"]
          BY <4>4 DEF CancelStep, CancelEntry, Withdraw, ShareSignal, SendSignal, AnswerInactive
        <5> QED
          BY <1>1, <5>1 DEF TypeOK
      <4>5. ASSUME NEW d \in Cancellers, CancelTimesOut(d)
            PROVE  signal'[c] = "acknowledged" => signal[c] = "acknowledged"
        BY <1>1, <4>5 DEF CancelTimesOut, SignalSettles, TypeOK
      <4>6. ASSUME NEW r \in Requests, Analyse(r) \/ FailAnalysis(r) PROVE UNCHANGED signal
        BY <4>6 DEF Analyse, BeginFile, EndFile, FinishAnalysis, FailAnalysis, EndAnalysis,
                    queueVars, signalVars
      <4>7. CASE Receive
        BY <2>3, <4>7 DEF Receive, ReceiveEvent, ReceiveComplete, Complete, queueVars, signalVars
      <4>8. CASE WorkerHandles
        BY <2>3, <4>8 DEF WorkerHandles, BeginAnalysis, RejectAnalysis, HandleClose, queueVars,
                          signalVars
      <4>9. QueueInv
        BY DEF BaseInv
      <4> QED
        BY <4>1, <4>2, <4>3, <4>4, <4>5, <4>6, <4>7, <4>8, <4>9, CancelSteps DEF ServerNext
    <3>2. (\E i \in DOMAIN fromWorker' : Confirms(i, c)') => \E i \in DOMAIN fromWorker : Confirms(i, c)
      <4>1. CASE fromWorker' = fromWorker \/ fromWorker' = <<>>
        BY <4>1 DEF Confirms
      <4>2. CASE fromWorker # <<>> /\ fromWorker' = Tail(fromWorker)
        BY <1>1, <4>2, TailFacts DEF Confirms
      <4>3. ASSUME NEW t \in Seq(FromWorker), fromWorker' = fromWorker \o t,
                   \A i \in DOMAIN t : t[i].type # "cancel-complete"
            PROVE  (\E i \in DOMAIN fromWorker' : Confirms(i, c)')
                     => \E i \in DOMAIN fromWorker : Confirms(i, c)
        BY <1>1, <4>3, PostFacts DEF Confirms
      <4>4. \/ fromWorker' = fromWorker \/ fromWorker' = <<>>
            \/ fromWorker # <<>> /\ fromWorker' = Tail(fromWorker)
            \/ \E t \in Seq(FromWorker) :
                 /\ fromWorker' = fromWorker \o t
                 /\ \A i \in DOMAIN t : t[i].type # "cancel-complete"
        BY <2>3, ServerPostsFrom
      <4> QED
        BY <4>1, <4>2, <4>3, <4>4
    <3> QED
      BY <1>3, <3>1, <3>2 DEF Confirmed
  <2> QED
    BY <2>1, <2>2, <2>3
<1> QED
  BY <1>2, <1>3

-----------------------------------------------------------------------------
(* What is on its way to a call                                            *)

IsEvent(s, i, r) == s[i].type = "event" /\ s[i].id = r
Ends(i, r) == fromWorker[i].type = "complete" /\ fromWorker[i].id = r

\* An event on the port is a stream's, of the analysis that runs or before the
\* completion of its analysis.
EventsBeforeEnd ==
    \A r \in Requests, i \in DOMAIN fromWorker : IsEvent(fromWorker, i, r) =>
      /\ r \in Streams
      /\ Running(r) \/ \E j \in DOMAIN fromWorker : j > i /\ Ends(j, r)

LEMMA EventsInit == ServerInit => EventsBeforeEnd
BY DEF ServerInit, EventsBeforeEnd

\* The worker posts only for the analysis it works on.
LEMMA PostKeepsEvents ==
    ASSUME BaseInv, EventsBeforeEnd, NEW r \in Requests, NEW t \in Seq(FromWorker),
           fromWorker' = fromWorker \o t,
           \A q \in Requests \ {r} : Running(q) => Running(q)',
           Running(r) => Running(r)' \/ \E j \in DOMAIN t : t[j].type = "complete" /\ t[j].id = r,
           \A i \in DOMAIN t : t[i].type = "event" =>
             /\ t[i].id = r /\ r \in Streams
             /\ \/ Running(r)'
                \/ \E j \in DOMAIN t : j > i /\ t[j].type = "complete" /\ t[j].id = r
    PROVE  EventsBeforeEnd'
<1>1. /\ Len(fromWorker) \in Nat /\ Len(t) \in Nat
      /\ DOMAIN fromWorker = 1..Len(fromWorker) /\ DOMAIN t = 1..Len(t)
      /\ DOMAIN fromWorker' = 1..Len(fromWorker) + Len(t)
      /\ \A i \in DOMAIN fromWorker : i \in DOMAIN fromWorker' /\ fromWorker'[i] = fromWorker[i]
      /\ \A i \in DOMAIN fromWorker' \ DOMAIN fromWorker :
           i - Len(fromWorker) \in DOMAIN t /\ fromWorker'[i] = t[i - Len(fromWorker)]
  BY PostFacts DEF BaseInv, ServerTypeOK
<1>2. ASSUME NEW j \in DOMAIN t
      PROVE  /\ Len(fromWorker) + j \in DOMAIN fromWorker' \ DOMAIN fromWorker
             /\ fromWorker'[Len(fromWorker) + j] = t[j]
  <2>1. Len(fromWorker) + j \in DOMAIN fromWorker' \ DOMAIN fromWorker
          /\ (Len(fromWorker) + j) - Len(fromWorker) = j
    BY <1>1
  <2> QED
    BY <1>1, <2>1
<1>3. ASSUME NEW q \in Requests, NEW i \in DOMAIN fromWorker', IsEvent(fromWorker', i, q)
      PROVE  q \in Streams /\ (Running(q)' \/ \E j \in DOMAIN fromWorker' : j > i /\ Ends(j, q)')
  <2>1. CASE i \in DOMAIN fromWorker
    <3>1. q \in Streams /\ (Running(q) \/ \E j \in DOMAIN fromWorker : j > i /\ Ends(j, q))
      BY <1>1, <1>3, <2>1 DEF EventsBeforeEnd, IsEvent
    <3>2. CASE \E j \in DOMAIN fromWorker : j > i /\ Ends(j, q)
      BY <1>1, <3>1, <3>2 DEF Ends
    <3>3. CASE Running(q)
      <4>1. CASE Running(q)'
        BY <3>1, <4>1
      <4>2. CASE ~Running(q)'
        <5>1. PICK j \in DOMAIN t : t[j].type = "complete" /\ t[j].id = q
          BY <3>3, <4>2
        <5>2. Len(fromWorker) + j > i
          BY <1>1, <2>1
        <5> QED
          BY <1>2, <3>1, <5>1, <5>2 DEF Ends
      <4> QED
        BY <4>1, <4>2
    <3> QED
      BY <3>1, <3>2, <3>3
  <2>2. CASE i \notin DOMAIN fromWorker
    <3> DEFINE k == i - Len(fromWorker)
    <3>1. k \in DOMAIN t /\ t[k].type = "event" /\ t[k].id = q
      BY <1>1, <1>3, <2>2 DEF IsEvent
    <3>2. q = r /\ r \in Streams
      BY <3>1
    <3>3. CASE Running(r)'
      BY <3>2, <3>3
    <3>4. CASE ~Running(r)'
      <4>1. PICK j \in DOMAIN t : j > k /\ t[j].type = "complete" /\ t[j].id = r
        BY <3>1, <3>4
      <4>2. Len(fromWorker) + j > i
        BY <1>1, <3>1, <4>1
      <4> QED
        BY <1>2, <3>2, <4>1, <4>2 DEF Ends
    <3> QED
      BY <3>3, <3>4
  <2> QED
    BY <2>1, <2>2
<1> QED
  BY <1>3 DEF EventsBeforeEnd, IsEvent, Ends

LEMMA TakeKeepsEvents ==
    ASSUME BaseInv, EventsBeforeEnd, fromWorker # <<>>, fromWorker' = Tail(fromWorker),
           \A q \in Requests : Running(q) => Running(q)'
    PROVE  EventsBeforeEnd'
<1>1. /\ Len(fromWorker) \in Nat /\ DOMAIN fromWorker = 1..Len(fromWorker)
      /\ DOMAIN fromWorker' = 1..Len(fromWorker) - 1
      /\ \A i \in DOMAIN fromWorker' :
           i + 1 \in DOMAIN fromWorker /\ fromWorker'[i] = fromWorker[i + 1]
  BY TailFacts DEF BaseInv, ServerTypeOK
<1>2. ASSUME NEW q \in Requests, NEW i \in DOMAIN fromWorker', IsEvent(fromWorker', i, q)
      PROVE  q \in Streams /\ (Running(q)' \/ \E j \in DOMAIN fromWorker' : j > i /\ Ends(j, q)')
  <2>1. q \in Streams /\ (Running(q) \/ \E j \in DOMAIN fromWorker : j > i + 1 /\ Ends(j, q))
    BY <1>1, <1>2 DEF EventsBeforeEnd, IsEvent
  <2>2. ASSUME NEW j \in DOMAIN fromWorker, j > i + 1, Ends(j, q)
        PROVE  j - 1 \in DOMAIN fromWorker' /\ j - 1 > i /\ Ends(j - 1, q)'
    <3>1. j - 1 \in DOMAIN fromWorker' /\ j - 1 > i /\ (j - 1) + 1 = j
      BY <1>1, <2>2
    <3> QED
      BY <1>1, <2>2, <3>1 DEF Ends
  <2> QED
    BY <2>1, <2>2
<1> QED
  BY <1>2 DEF EventsBeforeEnd, IsEvent, Ends

LEMMA EventsStep == BaseInv /\ Progress /\ EventsBeforeEnd /\ [ServerNext]_serverVars => EventsBeforeEnd'
<1> SUFFICES ASSUME BaseInv, Progress, EventsBeforeEnd, [ServerNext]_serverVars
             PROVE  EventsBeforeEnd'
  OBVIOUS
<1>1. step \in [Requests -> Steps]
  BY DEF BaseInv, ServerTypeOK
<1>2. CASE WorkerEvent
  BY <1>2 DEF WorkerEvent, EventsBeforeEnd
<1>3. CASE Receive
  <2>1. fromWorker # <<>> /\ fromWorker' = Tail(fromWorker) /\ step' = step
    BY <1>3 DEF Receive, ReceiveEvent, ReceiveComplete, ReceiveCancelComplete, Deliver, analysisVars
  <2> QED
    BY <2>1, TakeKeepsEvents DEF Running
<1>4. CASE HandleCancel
  <2> DEFINE t == <<[type |-> "cancel-complete", id |-> Head(toWorker).id,
                     ok |-> analysisStatus # None]>>
  <2>1. fromWorker' = fromWorker \o t /\ step' = step
    BY <1>4 DEF HandleCancel, Post
  <2>2. [type |-> "cancel-complete", id |-> Head(toWorker).id,
         ok |-> analysisStatus # None] \in FromWorker
    BY <1>4, HeadTypes DEF HandleCancel, Take, FromWorker
  <2>3. t \in Seq(FromWorker) /\ \A i \in DOMAIN t : t[i].type # "event"
    BY <2>2
  <2> HIDE DEF t
  <2> QED
    <3>1. CASE Requests = {}
      BY <3>1 DEF EventsBeforeEnd
    <3>2. CASE Requests # {}
      <4>1. PICK r : r \in Requests
        BY <3>2
      <4> QED
        BY <2>1, <2>3, <4>1, PostKeepsEvents DEF Running
    <3> QED
      BY <3>1, <3>2
<1>5. CASE RejectAnalysis
  <2> DEFINE r == Head(toWorker).id
             t == <<Completion(r, FALSE)>>
  <2>1. r \in Requests /\ Asked(r)
    BY <1>5, HeadTypes, TailFacts DEF RejectAnalysis, Take, Asked, Has, BaseInv, ServerTypeOK
  <2>2. fromWorker' = fromWorker \o t /\ step' = [step EXCEPT ![r] = "done"]
    BY <1>5 DEF RejectAnalysis, Post
  <2>3. t \in Seq(FromWorker) /\ \A i \in DOMAIN t : t[i].type # "event"
    <3>1. t \in Seq(FromWorker)
      BY <2>1, PostTypes DEF Events
    <3> QED
      BY <3>1 DEF Completion
  <2>4. ~Running(r)
    BY <2>1 DEF Progress, Running
  <2> HIDE DEF r, t
  <2> QED
    BY <1>1, <2>1, <2>2, <2>3, <2>4, PostKeepsEvents DEF Running
<1>6. ASSUME NEW r \in Requests, EndFile(r) PROVE EventsBeforeEnd'
  <2> DEFINE t == EventMessages(r, "file")
  <2>1. fromWorker' = fromWorker \o t /\ step' = [step EXCEPT ![r] = "between"]
    BY <1>6 DEF EndFile, Post
  <2>2. t \in Seq(FromWorker)
    BY PostTypes DEF Events
  <2>3. \A i \in DOMAIN t : t[i].id = r /\ r \in Streams
    BY DEF EventMessages
  <2> HIDE DEF t
  <2> QED
    BY <1>1, <2>1, <2>2, <2>3, PostKeepsEvents DEF Running
<1>7. ASSUME NEW r \in Requests, FinishAnalysis(r) PROVE EventsBeforeEnd'
  <2> DEFINE body == IF IsAnalysisCancelled THEN "cancelled" ELSE "meta"
             t == Append(EventMessages(r, body), Completion(r, TRUE))
  <2>1. /\ body \in Events
        /\ fromWorker' = fromWorker \o t /\ step' = [step EXCEPT ![r] = "done"]
    BY <1>7 DEF FinishAnalysis, EndAnalysis, Post, Events
  <2> HIDE DEF body
  <2>2. t \in Seq(FromWorker)
    BY <2>1, PostTypes
  <2>3. /\ \E j \in DOMAIN t : t[j].type = "complete" /\ t[j].id = r
        /\ \A i \in DOMAIN t : t[i].type = "event" =>
             /\ t[i].id = r /\ r \in Streams
             /\ \E j \in DOMAIN t : j > i /\ t[j].type = "complete" /\ t[j].id = r
    <3>1. CASE r \in Streams
      <4>1. /\ DOMAIN t = {1, 2}
            /\ t[1] = [type |-> "event", id |-> r, body |-> body]
            /\ t[2] = Completion(r, TRUE)
        BY <2>1, <3>1, EndPosts
      <4>2. /\ t[1].type = "event" /\ t[1].id = r
            /\ t[2].type = "complete" /\ t[2].id = r
        BY <4>1 DEF Completion
      <4> HIDE DEF t
      <4>3. 1 \in DOMAIN t /\ 2 \in DOMAIN t /\ 2 > 1
        BY <4>1
      <4>4. \A i \in DOMAIN t : t[i].type = "event" => i = 1
        BY <4>1, <4>2
      <4> QED
        BY <3>1, <4>2, <4>3, <4>4
    <3>2. CASE r \notin Streams
      <4>1. DOMAIN t = {1} /\ t[1] = Completion(r, TRUE)
        BY <2>1, <3>2, EndPosts
      <4>2. t[1].type = "complete" /\ t[1].id = r
        BY <4>1 DEF Completion
      <4> HIDE DEF t
      <4> QED
        BY <4>1, <4>2
    <3> QED
      BY <3>1, <3>2
  <2> HIDE DEF t
  <2> QED
    BY <1>1, <2>1, <2>2, <2>3, PostKeepsEvents DEF Running
<1>8. ASSUME NEW r \in Requests, FailAnalysis(r) PROVE EventsBeforeEnd'
  <2> DEFINE t == <<Completion(r, FALSE)>>
  <2>1. fromWorker' = fromWorker \o t /\ step' = [step EXCEPT ![r] = "done"]
    BY <1>8 DEF FailAnalysis, EndAnalysis, Post
  <2>2. t \in Seq(FromWorker)
    BY PostTypes DEF Events
  <2>3. DOMAIN t = {1} /\ t[1].type = "complete" /\ t[1].id = r
    BY DEF Completion
  <2> HIDE DEF t
  <2>4. /\ \E j \in DOMAIN t : t[j].type = "complete" /\ t[j].id = r
        /\ \A i \in DOMAIN t : t[i].type # "event"
    BY <2>3
  <2>5. \A q \in Requests \ {r} : Running(q) => Running(q)'
    BY <1>1, <2>1 DEF Running
  <2> QED
    BY <2>1, <2>2, <2>4, <2>5, PostKeepsEvents
<1>9. CASE /\ fromWorker' = fromWorker
           /\ \A q \in Requests : Running(q) => Running(q)'
  BY <1>9 DEF EventsBeforeEnd, Ends
<1>10. CASE BeginAnalysis
  <2>1. Head(toWorker).id \in Requests
    BY <1>10, HeadTypes DEF BeginAnalysis, Take
  <2> QED
    BY <1>1, <1>9, <1>10, <2>1 DEF BeginAnalysis, Running
<1>11. CASE \E r \in Requests : BeginFile(r)
  BY <1>1, <1>9, <1>11 DEF BeginFile, Running, portVars
<1>12. CASE UNCHANGED <<fromWorker, step>>
  BY <1>9, <1>12 DEF Running
<1> QED
  BY <1>2, <1>3, <1>4, <1>5, <1>6, <1>7, <1>8, <1>10, <1>11, <1>12
     DEF ServerNext, Submit, SubmitCancelled, TransportCancelled, Analyse, CancelAnalysis,
         CancelTimesOut, LifecycleEvent, WorkerHandles, HandleClose, analysisVars, portVars,
         serverVars

\* Everything the server keeps, up to what each stream call receives.
ServerInv ==
    /\ BaseInv
    /\ Targets
    /\ OneAnalysis
    /\ Progress
    /\ CancelsInTime
    /\ NoCrossCancellation
    /\ ConfirmedIsSet
    /\ EventsBeforeEnd

LEMMA ServerInvInit == ServerInit => ServerInv
BY BaseInvInit, TargetsInit, OneAnalysisInit, CancelsInTimeInit, FlagsInit, EventsInit DEF ServerInv

LEMMA ServerInvStep == ServerInv /\ [ServerNext]_serverVars => ServerInv'
BY BaseInvStep, TargetsStep, OneAnalysisStep, CancelsInTimeStep, NoCrossCancellationStep,
   ConfirmedIsSetStep, EventsStep DEF ServerInv

\* No cancellation reaches the analysis of another request: the flag of an
\* analysis is set by a signal that was sent for it, or by the shutdown, although
\* the message names no analysis and the worker sets the flag of whatever runs.
THEOREM ServerCancelsOnlyItsTarget == ServerSpec => []NoCrossCancellation
<1>1. ServerInv => NoCrossCancellation
  BY DEF ServerInv
<1> QED
  BY <1>1, ServerInvInit, ServerInvStep, PTL DEF ServerSpec

\* The owner of the active slot is always asked for, executed or about to be
\* completed: a request that the worker rejects, a failure, a cancellation or a lost
\* worker never leaves the slot to an entry that nobody works for.
THEOREM ServerKeepsActiveEntryUnderWay == ServerSpec => []ActiveEntryUnderWay
<1>1. ServerInit => ServedWhenAttached /\ ActiveEntryUnderWay
  BY DEF ServerInit, QueueInit, LifecycleInit, ServedWhenAttached, ActiveEntryUnderWay
<1>2. ServerInv /\ ServedWhenAttached /\ ActiveEntryUnderWay /\ [ServerNext]_serverVars
        => ServedWhenAttached' /\ ActiveEntryUnderWay'
  BY ServedWhenAttachedStep, ActiveUnderWayStep DEF ServerInv
<1> QED
  BY <1>1, <1>2, ServerInvInit, ServerInvStep, PTL DEF ServerSpec

\* A signal in flight is on the way to the worker or its acknowledgement is on the
\* way back: the main thread waits for nothing that is lost.
THEOREM ServerKeepsSignalsUnderWay == ServerSpec => []SignalUnderWay
<1>1. ServerInit => SignalUnderWay
  BY DEF ServerInit, QueueInit, SignalUnderWay
<1>2. ServerInv /\ SignalUnderWay /\ [ServerNext]_serverVars => SignalUnderWay'
  BY SignalUnderWayStep DEF ServerInv
<1> QED
  BY <1>1, <1>2, ServerInvInit, ServerInvStep, PTL DEF ServerSpec

\* The main thread waits for no analysis and no acknowledgement that was lost.
THEOREM ServerLosesNothing == ServerSpec => []NothingIsLost
BY ServerKeepsActiveEntryUnderWay, ServerKeepsSignalsUnderWay, PTL DEF NothingIsLost

-----------------------------------------------------------------------------
(* Counting the events on the port                                         *)

EventsOf(s, r) == {i \in DOMAIN s : IsEvent(s, i, r)}

LEMMA EventsFinite ==
    ASSUME NEW S, NEW s \in Seq(S), NEW r
    PROVE  IsFiniteSet(EventsOf(s, r)) /\ Cardinality(EventsOf(s, r)) \in Nat
<1>1. Len(s) \in Nat /\ DOMAIN s = 1..Len(s)
  BY LenProperties
<1>2. IsFiniteSet(1..Len(s))
  BY <1>1, FS_Interval
<1>3. IsFiniteSet(EventsOf(s, r))
  BY <1>1, <1>2, FS_Subset DEF EventsOf
<1> QED
  BY <1>3, FS_CardinalityType

\* Taking a message takes one event if that is what it is.
LEMMA TailCount ==
    ASSUME NEW S, NEW s \in Seq(S), s # <<>>, NEW r
    PROVE  Cardinality(EventsOf(Tail(s), r)) =
             IF IsEvent(s, 1, r) THEN Cardinality(EventsOf(s, r)) - 1
             ELSE Cardinality(EventsOf(s, r))
<1>1. /\ Len(s) \in Nat /\ DOMAIN s = 1..Len(s) /\ 1 \in DOMAIN s
      /\ Tail(s) \in Seq(S)
      /\ DOMAIN Tail(s) = 1..Len(s) - 1
      /\ \A i \in DOMAIN Tail(s) : i + 1 \in DOMAIN s /\ Tail(s)[i] = s[i + 1]
  BY TailFacts
<1> DEFINE A == EventsOf(s, r) \ {1}
           B == EventsOf(Tail(s), r)
           f == [i \in B |-> i + 1]
<1>2. \A i \in B : i \in Nat /\ i + 1 \in A
  BY <1>1 DEF EventsOf, IsEvent
<1>3. ASSUME NEW j \in A PROVE j \in Nat /\ j - 1 \in B
  <2>1. j \in DOMAIN s /\ j - 1 \in DOMAIN Tail(s) /\ (j - 1) + 1 = j /\ IsEvent(s, j, r)
    BY <1>1 DEF EventsOf
  <2> QED
    BY <1>1, <2>1 DEF EventsOf, IsEvent
<1> HIDE DEF A, B
<1>4. f \in Bijection(B, A)
  <2>1. f \in [B -> A]
    BY <1>2
  <2>2. \A i, j \in B : f[i] = f[j] => i = j
    BY <1>2
  <2>3. \A j \in A : \E i \in B : f[i] = j
    <3> SUFFICES ASSUME NEW j \in A PROVE \E i \in B : f[i] = j
      OBVIOUS
    <3>1. j - 1 \in B /\ f[j - 1] = j
      BY <1>3
    <3> QED
      BY <3>1
  <2> HIDE DEF f
  <2> QED
    BY <2>1, <2>2, <2>3 DEF Bijection, Injection, Surjection, IsInjective
<1>5. IsFiniteSet(B)
  BY <1>1, EventsFinite DEF B
<1>6. Cardinality(A) = Cardinality(B)
  BY <1>4, <1>5, FS_Bijection DEF ExistsBijection
<1>7. 1 \in EventsOf(s, r) <=> IsEvent(s, 1, r)
  BY <1>1 DEF EventsOf
<1>8. Cardinality(A) = IF 1 \in EventsOf(s, r) THEN Cardinality(EventsOf(s, r)) - 1
                       ELSE Cardinality(EventsOf(s, r))
  BY EventsFinite, FS_RemoveElement DEF A
<1> QED
  BY <1>6, <1>7, <1>8 DEF B

\* Posting messages adds the events among them.
LEMMA PostCount ==
    ASSUME NEW S, NEW s \in Seq(S), NEW t \in Seq(S), NEW r
    PROVE  /\ (\A i \in DOMAIN t : ~IsEvent(t, i, r)) => EventsOf(s \o t, r) = EventsOf(s, r)
           /\ t # <<>> /\ (\A i \in DOMAIN t : IsEvent(t, i, r) <=> i = 1) =>
                /\ EventsOf(s \o t, r) = EventsOf(s, r) \cup {Len(s) + 1}
                /\ Cardinality(EventsOf(s \o t, r)) = Cardinality(EventsOf(s, r)) + 1
<1> DEFINE u == s \o t
<1>1. /\ Len(s) \in Nat /\ Len(t) \in Nat
      /\ DOMAIN s = 1..Len(s) /\ DOMAIN t = 1..Len(t)
      /\ DOMAIN u = 1..Len(s) + Len(t)
      /\ \A i \in DOMAIN s : i \in DOMAIN u /\ u[i] = s[i]
      /\ \A i \in DOMAIN u \ DOMAIN s : i - Len(s) \in DOMAIN t /\ u[i] = t[i - Len(s)]
  BY PostFacts
<1> HIDE DEF u
<1>2. /\ \A i \in DOMAIN s : IsEvent(u, i, r) <=> IsEvent(s, i, r)
      /\ \A i \in DOMAIN u \ DOMAIN s : IsEvent(u, i, r) <=> IsEvent(t, i - Len(s), r)
  BY <1>1 DEF IsEvent
<1>3. ASSUME \A i \in DOMAIN t : ~IsEvent(t, i, r) PROVE EventsOf(u, r) = EventsOf(s, r)
  BY <1>1, <1>2, <1>3 DEF EventsOf
<1>4. ASSUME t # <<>>, \A i \in DOMAIN t : IsEvent(t, i, r) <=> i = 1
      PROVE  /\ EventsOf(u, r) = EventsOf(s, r) \cup {Len(s) + 1}
             /\ Cardinality(EventsOf(u, r)) = Cardinality(EventsOf(s, r)) + 1
  <2>1. 1 \in DOMAIN t
    BY <1>4, TailFacts
  <2>2. Len(s) + 1 \in DOMAIN u /\ Len(s) + 1 \notin DOMAIN s /\ (Len(s) + 1) - Len(s) = 1
    BY <1>1, <2>1
  <2>3. IsEvent(u, Len(s) + 1, r)
    BY <1>2, <1>4, <2>1, <2>2
  <2>4. \A i \in DOMAIN u \ DOMAIN s : IsEvent(u, i, r) => i = Len(s) + 1
    <3> SUFFICES ASSUME NEW i \in DOMAIN u \ DOMAIN s, IsEvent(u, i, r) PROVE i = Len(s) + 1
      OBVIOUS
    <3>1. i - Len(s) = 1
      BY <1>1, <1>2, <1>4
    <3> QED
      BY <1>1, <3>1
  <2>5. EventsOf(u, r) = EventsOf(s, r) \cup {Len(s) + 1} /\ Len(s) + 1 \notin EventsOf(s, r)
    BY <1>1, <1>2, <2>2, <2>3, <2>4 DEF EventsOf
  <2>6. Cardinality(EventsOf(s, r) \cup {Len(s) + 1}) = Cardinality(EventsOf(s, r)) + 1
    BY <2>5, EventsFinite, FS_AddElement
  <2> QED
    BY <2>5, <2>6
<1> QED
  BY <1>3, <1>4 DEF u

-----------------------------------------------------------------------------
(* What a stream call receives                                             *)

AllFiles(r) == \A k \in 1..Len(written[r]) : written[r][k] = "file"

\* The message that ends r's stream.
Terminal(r) == IF cancelled[r] THEN "cancelled" ELSE "meta"

EndsWell(r) ==
    /\ written[r] # <<>>
    /\ \A k \in 1..Len(written[r]) - 1 : written[r][k] = "file"
    /\ written[r][Len(written[r])] = Terminal(r)

\* The messages written to r and those that are on the port for it.
Messages(r) == Len(written[r]) + Cardinality(EventsOf(fromWorker, r))

Fresh(r) == step[r] = "none" => filesLeft[r] = Files /\ written[r] = <<>>

\* While r's analysis runs its call has or will get one message per finished file.
Sending(r) ==
    Running(r) /\ r \in Streams /\ worker = "up" /\ ~transportCancelled[r] =>
      /\ AllFiles(r)
      /\ \A i \in EventsOf(fromWorker, r) : fromWorker[i].body = "file"
      /\ Messages(r) = Files - filesLeft[r]

\* Until its successful completion is delivered, the terminal message is the one
\* right ahead of it.
Sent(r) ==
    \A j \in DOMAIN fromWorker : Ends(j, r) /\ fromWorker[j].ok =>
      /\ filesLeft[r] = 0 \/ cancelled[r]
      /\ r \in Streams /\ ~transportCancelled[r] =>
           /\ Messages(r) = Files - filesLeft[r] + 1
           /\ j = 1 => EndsWell(r)
           /\ j > 1 => /\ AllFiles(r)
                       /\ IsEvent(fromWorker, j - 1, r)
                       /\ fromWorker[j - 1].body = Terminal(r)
                       /\ \A i \in EventsOf(fromWorker, r) \ {j - 1} : fromWorker[i].body = "file"

Flow(r) == Fresh(r) /\ Sending(r) /\ Sent(r)

LEMMA FlowInit == ServerInit => \A r \in Requests : Flow(r)
BY DEF ServerInit, Flow, Fresh, Sending, Sent, Running

LEMMA FlowTypes ==
    ASSUME ServerInv, NEW r \in Requests
    PROVE  /\ fromWorker \in Seq(FromWorker)
           /\ written[r] \in Seq(Events) /\ Len(written[r]) \in Nat
           /\ step \in [Requests -> Steps]
           /\ filesLeft[r] \in Int /\ Files \in Int
           /\ transportCancelled \in [Requests -> BOOLEAN]
           /\ cancelled \in [Requests -> BOOLEAN]
           /\ Cardinality(EventsOf(fromWorker, r)) \in Nat
<1>1. /\ fromWorker \in Seq(FromWorker)
      /\ written[r] \in Seq(Events)
      /\ step \in [Requests -> Steps]
      /\ filesLeft[r] \in 0..Files
      /\ transportCancelled \in [Requests -> BOOLEAN]
      /\ cancelled \in [Requests -> BOOLEAN]
  BY DEF ServerInv, BaseInv, ServerTypeOK
<1>2. Len(written[r]) \in Nat
  BY <1>1, LenProperties
<1> QED
  BY <1>1, <1>2, EventsFinite, ServerAssumption

\* Messages that are neither r's results nor its success do not disturb its flow.
LEMMA PostKeepsFlow ==
    ASSUME ServerInv, NEW r \in Requests, Flow(r),
           NEW t \in Seq(FromWorker), fromWorker' = fromWorker \o t,
           \A i \in DOMAIN t : ~IsEvent(t, i, r)
                               /\ ~(t[i].type = "complete" /\ t[i].id = r /\ t[i].ok),
           written'[r] = written[r], filesLeft'[r] = filesLeft[r],
           Ended(r) => cancelled'[r] = cancelled[r],
           Running(r)' => Running(r), step'[r] = "none" => step[r] = "none",
           worker' = "up" => worker = "up", transportCancelled[r] => transportCancelled'[r]
    PROVE  Flow(r)'
<1>1. fromWorker \in Seq(FromWorker)
  BY FlowTypes
<1>2. /\ Len(fromWorker) \in Nat
      /\ DOMAIN fromWorker = 1..Len(fromWorker)
      /\ \A i \in DOMAIN fromWorker : i \in DOMAIN fromWorker' /\ fromWorker'[i] = fromWorker[i]
      /\ \A i \in DOMAIN fromWorker' \ DOMAIN fromWorker :
           i - Len(fromWorker) \in DOMAIN t /\ fromWorker'[i] = t[i - Len(fromWorker)]
  BY <1>1, PostFacts
<1>3. EventsOf(fromWorker', r) = EventsOf(fromWorker, r)
  BY <1>1, PostCount
<1>4. Messages(r)' = Messages(r)
  BY <1>3 DEF Messages
<1>5. Fresh(r)'
  BY DEF Flow, Fresh
<1>6. Sending(r)'
  <2> SUFFICES ASSUME Running(r)', r \in Streams, worker' = "up", ~transportCancelled'[r]
               PROVE  /\ AllFiles(r)'
                      /\ \A i \in EventsOf(fromWorker', r) : fromWorker'[i].body = "file"
                      /\ Messages(r)' = Files - filesLeft'[r]
    BY DEF Sending
  <2>1. /\ AllFiles(r)
        /\ \A i \in EventsOf(fromWorker, r) : fromWorker[i].body = "file"
        /\ Messages(r) = Files - filesLeft[r]
    BY DEF Flow, Sending
  <2>2. \A i \in EventsOf(fromWorker, r) : i \in DOMAIN fromWorker
    BY DEF EventsOf
  <2> QED
    BY <1>2, <1>3, <1>4, <2>1, <2>2 DEF AllFiles
<1>7. Sent(r)'
  <2> SUFFICES ASSUME NEW j \in DOMAIN fromWorker', Ends(j, r)', fromWorker'[j].ok
               PROVE  /\ filesLeft'[r] = 0 \/ cancelled'[r]
                      /\ r \in Streams /\ ~transportCancelled'[r] =>
                           /\ Messages(r)' = Files - filesLeft'[r] + 1
                           /\ j = 1 => EndsWell(r)'
                           /\ j > 1 => /\ AllFiles(r)'
                                       /\ IsEvent(fromWorker', j - 1, r)
                                       /\ fromWorker'[j - 1].body = Terminal(r)'
                                       /\ \A i \in EventsOf(fromWorker', r) \ {j - 1} :
                                            fromWorker'[i].body = "file"
    BY DEF Sent
  <2>1. j \in DOMAIN fromWorker /\ Ends(j, r) /\ fromWorker[j].ok
    BY <1>2 DEF Ends
  <2>2. cancelled'[r] = cancelled[r]
    BY <2>1 DEF Ended, Has, Ends
  <2>3. filesLeft[r] = 0 \/ cancelled[r]
    BY <2>1 DEF Flow, Sent
  <2>4. ASSUME r \in Streams, ~transportCancelled'[r]
        PROVE  /\ Messages(r)' = Files - filesLeft'[r] + 1
               /\ j = 1 => EndsWell(r)'
    BY <1>4, <2>1, <2>2, <2>4 DEF Flow, Sent, EndsWell, Terminal
  <2>5. ASSUME r \in Streams, ~transportCancelled'[r], j > 1
        PROVE  /\ AllFiles(r)'
               /\ IsEvent(fromWorker', j - 1, r)
               /\ fromWorker'[j - 1].body = Terminal(r)'
               /\ \A i \in EventsOf(fromWorker', r) \ {j - 1} : fromWorker'[i].body = "file"
    <3>1. /\ AllFiles(r)
          /\ IsEvent(fromWorker, j - 1, r)
          /\ fromWorker[j - 1].body = Terminal(r)
          /\ \A i \in EventsOf(fromWorker, r) \ {j - 1} : fromWorker[i].body = "file"
      BY <2>1, <2>5 DEF Flow, Sent
    <3>2. j - 1 \in DOMAIN fromWorker /\ \A i \in EventsOf(fromWorker, r) : i \in DOMAIN fromWorker
      BY <1>2, <2>1, <2>5 DEF EventsOf
    <3> QED
      BY <1>2, <1>3, <2>2, <3>1, <3>2 DEF AllFiles, IsEvent, Terminal
  <2> QED
    BY <2>2, <2>3, <2>4, <2>5
<1> QED
  BY <1>5, <1>6, <1>7 DEF Flow

\* A delivered message moves from the port to the call; the files stay files.
LEMMA TailMessages ==
    ASSUME ServerInv, NEW r \in Requests,
           fromWorker # <<>>, fromWorker' = Tail(fromWorker), ~transportCancelled[r],
           written'[r] = IF IsEvent(fromWorker, 1, r) THEN Append(written[r], fromWorker[1].body)
                                                      ELSE written[r]
    PROVE  /\ Messages(r)' = Messages(r)
           /\ IsEvent(fromWorker, 1, r) =>
                /\ fromWorker[1].body \in Events
                /\ Len(written'[r]) = Len(written[r]) + 1
                /\ \A k \in 1..Len(written[r]) : written'[r][k] = written[r][k]
                /\ written'[r][Len(written[r]) + 1] = fromWorker[1].body
                /\ written'[r] # <<>>
           /\ AllFiles(r) /\ (IsEvent(fromWorker, 1, r) => fromWorker[1].body = "file")
                => AllFiles(r)'
<1>1. /\ fromWorker \in Seq(FromWorker) /\ written[r] \in Seq(Events) /\ Len(written[r]) \in Nat
      /\ Cardinality(EventsOf(fromWorker, r)) \in Nat
  BY FlowTypes
<1>2. ASSUME IsEvent(fromWorker, 1, r)
      PROVE  /\ fromWorker[1].body \in Events
             /\ Len(written'[r]) = Len(written[r]) + 1
             /\ \A k \in 1..Len(written[r]) : written'[r][k] = written[r][k]
             /\ written'[r][Len(written[r]) + 1] = fromWorker[1].body
             /\ written'[r] # <<>>
  <2>1. 1 \in DOMAIN fromWorker
    BY <1>1, TailFacts
  <2>2. fromWorker[1].body \in Events
    BY <1>2, <2>1, MessageTypes DEF ServerInv, IsEvent
  <2>3. written'[r] = Append(written[r], fromWorker[1].body)
    BY <1>2
  <2>4. /\ written'[r] \in Seq(Events) /\ Len(written'[r]) = Len(written[r]) + 1
        /\ \A k \in 1..Len(written[r]) : written'[r][k] = written[r][k]
        /\ written'[r][Len(written[r]) + 1] = fromWorker[1].body
    BY <1>1, <2>2, <2>3, AppendProperties
  <2>5. written'[r] # <<>>
    BY <1>1, <2>4, EmptySeq
  <2> QED
    BY <2>2, <2>4, <2>5
<1>3. Messages(r)' = Messages(r)
  <2>1. Cardinality(EventsOf(fromWorker', r)) =
          IF IsEvent(fromWorker, 1, r) THEN Cardinality(EventsOf(fromWorker, r)) - 1
          ELSE Cardinality(EventsOf(fromWorker, r))
    BY <1>1, TailCount
  <2>2. CASE IsEvent(fromWorker, 1, r)
    BY <1>1, <1>2, <2>1, <2>2 DEF Messages
  <2>3. CASE ~IsEvent(fromWorker, 1, r)
    BY <2>1, <2>3 DEF Messages
  <2> QED
    BY <2>2, <2>3
<1>4. ASSUME AllFiles(r), IsEvent(fromWorker, 1, r) => fromWorker[1].body = "file"
      PROVE  AllFiles(r)'
  <2>1. CASE IsEvent(fromWorker, 1, r)
    BY <1>1, <1>2, <1>4, <2>1 DEF AllFiles
  <2>2. CASE ~IsEvent(fromWorker, 1, r)
    BY <1>4, <2>2 DEF AllFiles
  <2> QED
    BY <2>1, <2>2
<1> QED
  BY <1>2, <1>3, <1>4

\* A message is delivered: r's own event is written, unless its client is gone.
LEMMA TailKeepsFlow ==
    ASSUME ServerInv, NEW r \in Requests, Flow(r),
           fromWorker # <<>>, fromWorker' = Tail(fromWorker),
           written'[r] = IF IsEvent(fromWorker, 1, r) /\ ~transportCancelled[r]
                         THEN Append(written[r], fromWorker[1].body) ELSE written[r],
           UNCHANGED <<step, filesLeft, cancelled, worker, transportCancelled>>
    PROVE  Flow(r)'
<1>1. /\ fromWorker \in Seq(FromWorker) /\ written[r] \in Seq(Events) /\ Len(written[r]) \in Nat
      /\ filesLeft[r] \in Int /\ Files \in Int
      /\ Cardinality(EventsOf(fromWorker, r)) \in Nat
  BY FlowTypes
<1>2. /\ Len(fromWorker) \in Nat /\ DOMAIN fromWorker = 1..Len(fromWorker)
      /\ 1 \in DOMAIN fromWorker
      /\ DOMAIN fromWorker' = 1..Len(fromWorker) - 1
      /\ \A i \in DOMAIN fromWorker' :
           i + 1 \in DOMAIN fromWorker /\ fromWorker'[i] = fromWorker[i + 1]
  BY <1>1, TailFacts
<1>3. \A i \in EventsOf(fromWorker', r) :
        i \in DOMAIN fromWorker' /\ i + 1 \in EventsOf(fromWorker, r)
  BY <1>2 DEF EventsOf, IsEvent
<1>4. ~transportCancelled[r] => /\ written'[r] = IF IsEvent(fromWorker, 1, r)
                                                 THEN Append(written[r], fromWorker[1].body)
                                                 ELSE written[r]
                                /\ Messages(r)' = Messages(r)
  <2> SUFFICES ASSUME ~transportCancelled[r]
               PROVE  /\ written'[r] = IF IsEvent(fromWorker, 1, r)
                                       THEN Append(written[r], fromWorker[1].body)
                                       ELSE written[r]
                      /\ Messages(r)' = Messages(r)
    OBVIOUS
  <2>1. written'[r] = IF IsEvent(fromWorker, 1, r) THEN Append(written[r], fromWorker[1].body)
                                                   ELSE written[r]
    OBVIOUS
  <2> QED
    BY <2>1, TailMessages
<1>5. ASSUME ~transportCancelled[r], IsEvent(fromWorker, 1, r)
      PROVE  /\ Len(written'[r]) = Len(written[r]) + 1
             /\ \A k \in 1..Len(written[r]) : written'[r][k] = written[r][k]
             /\ written'[r][Len(written[r]) + 1] = fromWorker[1].body
             /\ written'[r] # <<>>
  BY <1>4, <1>5, TailMessages
<1>6. ASSUME ~transportCancelled[r], AllFiles(r),
             IsEvent(fromWorker, 1, r) => fromWorker[1].body = "file"
      PROVE  AllFiles(r)'
  BY <1>4, <1>6, TailMessages
<1>7. 1 \in EventsOf(fromWorker, r) <=> IsEvent(fromWorker, 1, r)
  BY <1>2 DEF EventsOf
<1>8. Fresh(r)'
  <2> SUFFICES ASSUME step[r] = "none" PROVE filesLeft[r] = Files /\ written'[r] = <<>>
    BY DEF Fresh
  <2>1. ~Running(r) /\ ~Ended(r)
    BY DEF Running, ServerInv, Progress
  <2>2. ~IsEvent(fromWorker, 1, r)
    BY <1>2, <2>1 DEF ServerInv, EventsBeforeEnd, Ends, Ended, Has
  <2> QED
    BY <2>2 DEF Flow, Fresh
<1>9. Sending(r)'
  <2> SUFFICES ASSUME Running(r), r \in Streams, worker = "up", ~transportCancelled[r]
               PROVE  /\ AllFiles(r)'
                      /\ \A i \in EventsOf(fromWorker', r) : fromWorker'[i].body = "file"
                      /\ Messages(r)' = Files - filesLeft[r]
    BY DEF Sending, Running
  <2>1. /\ AllFiles(r)
        /\ \A i \in EventsOf(fromWorker, r) : fromWorker[i].body = "file"
        /\ Messages(r) = Files - filesLeft[r]
    BY DEF Flow, Sending
  <2> QED
    BY <1>2, <1>3, <1>4, <1>6, <1>7, <2>1
<1>10. Sent(r)'
  <2> SUFFICES ASSUME NEW j \in DOMAIN fromWorker', Ends(j, r)', fromWorker'[j].ok
               PROVE  /\ filesLeft[r] = 0 \/ cancelled[r]
                      /\ r \in Streams /\ ~transportCancelled[r] =>
                           /\ Messages(r)' = Files - filesLeft[r] + 1
                           /\ j = 1 => EndsWell(r)'
                           /\ j > 1 => /\ AllFiles(r)'
                                       /\ IsEvent(fromWorker', j - 1, r)
                                       /\ fromWorker'[j - 1].body = Terminal(r)'
                                       /\ \A i \in EventsOf(fromWorker', r) \ {j - 1} :
                                            fromWorker'[i].body = "file"
    BY DEF Sent
  <2>1. /\ j + 1 \in DOMAIN fromWorker /\ Ends(j + 1, r) /\ fromWorker[j + 1].ok
        /\ j \in Nat /\ j + 1 > 1 /\ (j + 1) - 1 = j /\ j \in DOMAIN fromWorker
    BY <1>2 DEF Ends
  <2>2. filesLeft[r] = 0 \/ cancelled[r]
    BY <2>1 DEF Flow, Sent
  <2>3. ASSUME r \in Streams, ~transportCancelled[r]
        PROVE  /\ Messages(r) = Files - filesLeft[r] + 1
               /\ AllFiles(r)
               /\ IsEvent(fromWorker, j, r)
               /\ fromWorker[j].body = Terminal(r)
               /\ \A i \in EventsOf(fromWorker, r) \ {j} : fromWorker[i].body = "file"
    BY <2>1, <2>3 DEF Flow, Sent
  <2>4. Terminal(r)' = Terminal(r)
    BY DEF Terminal
  <2>5. ASSUME r \in Streams, ~transportCancelled[r], j = 1 PROVE EndsWell(r)'
    <3>1. IsEvent(fromWorker, 1, r) /\ fromWorker[1].body = Terminal(r) /\ AllFiles(r)
      BY <2>3, <2>5
    <3>2. Len(written'[r]) - 1 = Len(written[r])
      BY <1>1, <1>5, <2>5, <3>1
    <3> QED
      BY <1>1, <1>5, <2>4, <2>5, <3>1, <3>2 DEF EndsWell, AllFiles
  <2>6. ASSUME r \in Streams, ~transportCancelled[r], j > 1
        PROVE  /\ AllFiles(r)'
               /\ IsEvent(fromWorker', j - 1, r)
               /\ fromWorker'[j - 1].body = Terminal(r)'
               /\ \A i \in EventsOf(fromWorker', r) \ {j - 1} : fromWorker'[i].body = "file"
    <3>1. IsEvent(fromWorker, 1, r) => fromWorker[1].body = "file"
      BY <1>7, <2>3, <2>6
    <3>2. AllFiles(r)'
      BY <1>6, <2>3, <2>6, <3>1
    <3>3. j - 1 \in DOMAIN fromWorker' /\ (j - 1) + 1 = j
      BY <1>2, <2>1, <2>6
    <3>4. fromWorker'[j - 1] = fromWorker[j]
      BY <1>2, <3>3
    <3>5. ASSUME NEW i \in EventsOf(fromWorker', r) \ {j - 1} PROVE fromWorker'[i].body = "file"
      <4>1. i \in DOMAIN fromWorker' /\ i + 1 \in EventsOf(fromWorker, r) /\ i + 1 # j
        BY <1>2, <1>3, <2>1
      <4> QED
        BY <1>2, <2>3, <2>6, <4>1
    <3> QED
      BY <2>3, <2>4, <2>6, <3>2, <3>4, <3>5 DEF IsEvent
  <2> QED
    BY <1>4, <2>2, <2>3, <2>5, <2>6
<1> QED
  BY <1>8, <1>9, <1>10 DEF Flow

\* While an analysis runs no completion is on the port.
LEMMA NoEndWhileRunning ==
    ASSUME ServerInv, NEW r \in Requests, Running(r)
    PROVE  /\ analysisStatus = r
           /\ \A q \in Requests : ~Ended(q) /\ (Running(q) => q = r)
           /\ \A i \in DOMAIN fromWorker : fromWorker[i].type # "complete"
<1>1. analysisStatus = r /\ \A q \in Requests : ~Ended(q) /\ (Running(q) => q = r)
  BY DEF ServerInv, OneAnalysis, Progress, UnderWay, Running
<1> QED
  BY <1>1, NoneAsked DEF ServerInv

\* An event posted to r is one message more for it.
LEMMA OneMoreMessage ==
    ASSUME NEW r \in Requests, written'[r] = written[r],
           Len(written[r]) \in Nat, Cardinality(EventsOf(fromWorker, r)) \in Nat,
           Cardinality(EventsOf(fromWorker', r)) = Cardinality(EventsOf(fromWorker, r)) + 1
    PROVE  Messages(r)' = Messages(r) + 1
<1> DEFINE before == Cardinality(EventsOf(fromWorker, r))
<1>1. /\ Messages(r) = Len(written[r]) + before
      /\ Messages(r)' = Len(written[r]) + Cardinality(EventsOf(fromWorker', r))
  BY Zenon DEF Messages, EventsOf, IsEvent
<1>2. Messages(r)' = Len(written[r]) + (before + 1)
  BY <1>1, Zenon
<1>3. before \in Nat
  OBVIOUS
<1> DEFINE length == Len(written[r])
<1>4. length \in Nat
  OBVIOUS
<1> HIDE DEF before, length
<1>5. length + (before + 1) = (length + before) + 1
  BY <1>3, <1>4
<1> QED
  BY <1>1, <1>2, <1>5, Zenon DEF length

\* The result of a file is one more message for its stream.
LEMMA EndFileKeepsFlow ==
    ASSUME ServerInv, NEW r \in Requests, Flow(r), EndFile(r)
    PROVE  Flow(r)'
<1>1. /\ fromWorker \in Seq(FromWorker) /\ Len(written[r]) \in Nat
      /\ step \in [Requests -> Steps]
      /\ filesLeft[r] \in Int /\ Files \in Int
      /\ Cardinality(EventsOf(fromWorker, r)) \in Nat
  BY FlowTypes
<1>2. /\ Running(r) /\ step'[r] = "between" /\ filesLeft'[r] = filesLeft[r] - 1
      /\ UNCHANGED <<worker, transportCancelled, written>>
      /\ fromWorker' = fromWorker \o EventMessages(r, "file")
  BY <1>1 DEF EndFile, Running, Post, callVars, lifecycleVars, ServerInv, BaseInv, ServerTypeOK
<1> DEFINE t == EventMessages(r, "file")
<1>3. /\ t \in Seq(FromWorker)
      /\ \A i \in DOMAIN t : i = 1 /\ t[i].type = "event" /\ t[i].body = "file"
      /\ r \in Streams => t # <<>> /\ \A i \in DOMAIN t : IsEvent(t, i, r) <=> i = 1
  <2>1. t \in Seq(FromWorker)
    BY PostTypes DEF Events
  <2>2. \A i \in DOMAIN t : i = 1 /\ t[i].type = "event" /\ t[i].body = "file"
    BY DEF EventMessages
  <2>3. r \in Streams => t # <<>> /\ \A i \in DOMAIN t : IsEvent(t, i, r) <=> i = 1
    BY DEF EventMessages, IsEvent
  <2> QED
    BY <2>1, <2>2, <2>3
<1>4. fromWorker' = fromWorker \o t
  BY <1>2
<1> HIDE DEF t
<1>5. /\ Len(fromWorker) \in Nat
      /\ DOMAIN fromWorker = 1..Len(fromWorker)
      /\ \A i \in DOMAIN fromWorker : i \in DOMAIN fromWorker' /\ fromWorker'[i] = fromWorker[i]
      /\ \A i \in DOMAIN fromWorker' \ DOMAIN fromWorker :
           i - Len(fromWorker) \in DOMAIN t /\ fromWorker'[i] = t[i - Len(fromWorker)]
  BY <1>1, <1>3, <1>4, PostFacts
<1>6. Fresh(r)'
  BY <1>2 DEF Fresh
<1>7. Sent(r)'
  <2>1. \A i \in DOMAIN fromWorker' : fromWorker'[i].type # "complete"
    BY <1>2, <1>3, <1>5, NoEndWhileRunning
  <2> QED
    BY <2>1 DEF Sent, Ends
<1>8. Sending(r)'
  <2> SUFFICES ASSUME r \in Streams, worker = "up", ~transportCancelled[r]
               PROVE  /\ AllFiles(r)'
                      /\ \A i \in EventsOf(fromWorker', r) : fromWorker'[i].body = "file"
                      /\ Messages(r)' = Files - filesLeft'[r]
    BY <1>2 DEF Sending
  <2>1. /\ AllFiles(r)
        /\ \A i \in EventsOf(fromWorker, r) : fromWorker[i].body = "file"
        /\ Messages(r) = Files - filesLeft[r]
    BY <1>2 DEF Flow, Sending
  <2>2. Cardinality(EventsOf(fromWorker', r)) = Cardinality(EventsOf(fromWorker, r)) + 1
    BY <1>1, <1>3, <1>4, PostCount
  <2>3. Messages(r)' = Files - filesLeft'[r]
    <3>1. Messages(r)' = Messages(r) + 1
      BY <1>1, <1>2, <2>2, OneMoreMessage DEF callVars
    <3>2. Messages(r) = Files - filesLeft[r] /\ filesLeft'[r] = filesLeft[r] - 1
      BY <1>1, <1>2, <2>1
    <3>3. filesLeft[r] \in Int /\ Files \in Int
      BY <1>1
    <3> QED
      BY <3>1, <3>2, <3>3
  <2>4. AllFiles(r)'
    BY <1>2, <2>1 DEF AllFiles
  <2>5. ASSUME NEW i \in EventsOf(fromWorker', r) PROVE fromWorker'[i].body = "file"
    <3>1. i \in DOMAIN fromWorker' /\ IsEvent(fromWorker', i, r)
      BY DEF EventsOf
    <3>2. CASE i \in DOMAIN fromWorker
      <4>1. i \in EventsOf(fromWorker, r)
        BY <1>5, <3>1, <3>2 DEF EventsOf, IsEvent
      <4> QED
        BY <1>5, <2>1, <3>2, <4>1
    <3>3. CASE i \notin DOMAIN fromWorker
      BY <1>3, <1>5, <3>1, <3>3
    <3> QED
      BY <3>2, <3>3
  <2> QED
    BY <2>3, <2>4, <2>5
<1> QED
  BY <1>6, <1>7, <1>8 DEF Flow

\* The end of an analysis is its terminal message and, right behind it, its
\* completion.
LEMMA FinishKeepsFlow ==
    ASSUME ServerInv, NEW r \in Requests, Flow(r), FinishAnalysis(r)
    PROVE  Flow(r)'
<1>1. /\ fromWorker \in Seq(FromWorker) /\ Len(written[r]) \in Nat
      /\ step \in [Requests -> Steps]
      /\ filesLeft[r] \in Int /\ Files \in Int
      /\ Cardinality(EventsOf(fromWorker, r)) \in Nat
  BY FlowTypes
<1>2. Running(r) /\ analysisStatus = r
  BY NoEndWhileRunning DEF FinishAnalysis, Running
<1> DEFINE body == Terminal(r)
           t == Append(EventMessages(r, body), Completion(r, TRUE))
<1>3. IsAnalysisCancelled = cancelled[r]
  BY <1>2, NoneAssumption, FlowTypes DEF IsAnalysisCancelled
<1>4. body \in Events /\ body = IF IsAnalysisCancelled THEN "cancelled" ELSE "meta"
  BY <1>3 DEF Terminal, Events
<1>5. /\ filesLeft[r] = 0 \/ cancelled[r]
      /\ worker = "up"
      /\ step'[r] = "done"
      /\ UNCHANGED <<filesLeft, cancelled, worker, transportCancelled, written>>
      /\ fromWorker' = fromWorker \o t
  BY <1>1, <1>3, <1>4 DEF FinishAnalysis, EndAnalysis, Working, Post, callVars, lifecycleVars
<1> HIDE DEF body
<1>6. t \in Seq(FromWorker)
  BY <1>4, PostTypes
<1>7. /\ r \in Streams => /\ DOMAIN t = {1, 2}
                          /\ t[1] = [type |-> "event", id |-> r, body |-> body]
                          /\ t[2] = Completion(r, TRUE)
      /\ r \notin Streams => DOMAIN t = {1} /\ t[1] = Completion(r, TRUE)
  BY <1>4, EndPosts
<1>8. r \in Streams => /\ t[1].type = "event" /\ t[1].id = r /\ t[1].body = body
                       /\ t[2].type = "complete"
  BY <1>7 DEF Completion
<1> HIDE DEF t
<1>9. r \in Streams => t # <<>> /\ \A i \in DOMAIN t : IsEvent(t, i, r) <=> i = 1
  BY <1>7, <1>8 DEF IsEvent
<1>10. /\ Len(fromWorker) \in Nat
       /\ DOMAIN fromWorker = 1..Len(fromWorker)
       /\ DOMAIN fromWorker' = 1..Len(fromWorker) + Len(t)
       /\ Len(t) \in Nat /\ DOMAIN t = 1..Len(t)
       /\ \A i \in DOMAIN fromWorker : i \in DOMAIN fromWorker' /\ fromWorker'[i] = fromWorker[i]
       /\ \A i \in DOMAIN fromWorker' \ DOMAIN fromWorker :
            i - Len(fromWorker) \in DOMAIN t /\ fromWorker'[i] = t[i - Len(fromWorker)]
  BY <1>1, <1>5, <1>6, PostFacts
<1>11. Fresh(r)' /\ Sending(r)'
  BY <1>5 DEF Fresh, Sending, Running
<1>12. ASSUME NEW j \in DOMAIN fromWorker', Ends(j, r)', r \in Streams, ~transportCancelled'[r]
       PROVE  /\ Messages(r)' = Files - filesLeft'[r] + 1
              /\ j # 1
              /\ AllFiles(r)'
              /\ IsEvent(fromWorker', j - 1, r)
              /\ fromWorker'[j - 1].body = Terminal(r)'
              /\ \A i \in EventsOf(fromWorker', r) \ {j - 1} : fromWorker'[i].body = "file"
  <2>0. /\ ~transportCancelled[r] /\ filesLeft'[r] = filesLeft[r] /\ worker = "up"
        /\ written'[r] = written[r]
    BY <1>5, <1>12
  <2>1. /\ AllFiles(r)
        /\ \A i \in EventsOf(fromWorker, r) : fromWorker[i].body = "file"
        /\ Messages(r) = Files - filesLeft[r]
    BY <1>2, <1>12, <2>0 DEF Flow, Sending
  <2>2. EventsOf(fromWorker', r) = EventsOf(fromWorker, r) \cup {Len(fromWorker) + 1}
          /\ Cardinality(EventsOf(fromWorker', r)) = Cardinality(EventsOf(fromWorker, r)) + 1
    BY <1>1, <1>5, <1>6, <1>9, <1>12, PostCount
  <2>3. Messages(r)' = Files - filesLeft'[r] + 1
    <3>1. Messages(r)' = Messages(r) + 1
      BY <1>1, <2>0, <2>2, OneMoreMessage
    <3>2. Messages(r) = Files - filesLeft[r] /\ filesLeft'[r] = filesLeft[r]
      BY <2>0, <2>1
    <3>3. filesLeft[r] \in Int /\ Files \in Int
      BY <1>1
    <3> QED
      BY <3>1, <3>2, <3>3
  <2>4. j \notin DOMAIN fromWorker
    BY <1>2, <1>10, <1>12, NoEndWhileRunning DEF Ends
  <2>5. j - Len(fromWorker) = 2
    BY <1>7, <1>8, <1>10, <1>12, <2>4 DEF Ends
  <2>6. j = Len(fromWorker) + 2 /\ j # 1 /\ j - 1 = Len(fromWorker) + 1
    BY <1>10, <2>5
  <2>7. /\ Len(fromWorker) + 1 \in DOMAIN fromWorker' \ DOMAIN fromWorker
        /\ (Len(fromWorker) + 1) - Len(fromWorker) = 1
    BY <1>10, <2>6
  <2>8. fromWorker'[j - 1] = t[1]
    BY <1>10, <2>6, <2>7
  <2>9. AllFiles(r)' /\ Terminal(r)' = body
    BY <1>5, <2>1 DEF AllFiles, Terminal, body
  <2>10. ASSUME NEW i \in EventsOf(fromWorker', r) \ {j - 1} PROVE fromWorker'[i].body = "file"
    <3>1. i \in EventsOf(fromWorker, r) /\ i \in DOMAIN fromWorker
      BY <2>2, <2>6 DEF EventsOf
    <3> QED
      BY <1>10, <2>1, <3>1
  <2> QED
    BY <1>8, <1>12, <2>3, <2>6, <2>8, <2>9, <2>10 DEF IsEvent
<1>13. Sent(r)'
  <2>1. filesLeft'[r] = 0 \/ cancelled'[r]
    BY <1>5
  <2> QED
    BY <1>12, <2>1 DEF Sent
<1> QED
  BY <1>11, <1>13 DEF Flow

\* An analysis begins with nothing written to its call and nothing on the port.
LEMMA BeginKeepsFlow ==
    ASSUME ServerInv, NEW r \in Requests, Flow(r), BeginAnalysis, Head(toWorker).id = r
    PROVE  Flow(r)'
<1>1. /\ Asked(r) /\ step'[r] = "between" /\ fromWorker' = fromWorker
      /\ UNCHANGED <<filesLeft, cancelled, worker, transportCancelled, written>>
  BY FlowTypes, HeadTypes, TailFacts
     DEF BeginAnalysis, Take, Asked, Has, ServerInv, BaseInv, ServerTypeOK, callVars, lifecycleVars
<1>2. step[r] = "none" /\ ~Running(r) /\ ~Ended(r)
  BY <1>1 DEF ServerInv, Progress, Running
<1>3. EventsOf(fromWorker, r) = {}
  BY <1>2 DEF EventsOf, ServerInv, EventsBeforeEnd, Ends, Ended, Has
<1>4. filesLeft[r] = Files /\ written[r] = <<>> /\ Files \in Int
  BY <1>2, FlowTypes DEF Flow, Fresh
<1>5. Messages(r)' = Files - filesLeft'[r]
  BY <1>1, <1>3, <1>4, FS_EmptySet DEF Messages
<1>6. Sending(r)'
  BY <1>1, <1>3, <1>4, <1>5 DEF Sending, AllFiles
<1>7. Fresh(r)' /\ Sent(r)'
  BY <1>1, <1>2 DEF Fresh, Sent, Ends, Ended, Has
<1> QED
  BY <1>6, <1>7 DEF Flow

\* What a step of the main thread does to a worker and to a client that are gone.
LEMMA GoneStays ==
    ASSUME BaseInv, [ServerNext]_serverVars
    PROVE  /\ worker' = "up" => worker = "up"
           /\ \A r \in Requests : transportCancelled[r] => transportCancelled'[r]
<1>1. worker' = "up" => worker = "up"
  BY ServerStepIsLifecycleStep
     DEF LifecycleNext, AttachHandlers, Listen, StartupTimerFires, Lease, LeaseLost,
         ScheduledShutdown, WorkerDies, WorkerTerminates, WorkerErrorEvent, WorkerExitEvent,
         lifecycleVars
<1>2. UNCHANGED transportCancelled \/ \E r \in Requests :
        transportCancelled' = [transportCancelled EXCEPT ![r] = TRUE]
  BY DEF ServerNext, Submit, SubmitCancelled, TransportCancelled, Analyse, BeginFile, EndFile,
         FinishAnalysis, FailAnalysis, EndAnalysis, CancelAnalysis, CancelTimesOut, Receive,
         ReceiveEvent, ReceiveComplete, ReceiveCancelComplete, LifecycleEvent, WorkerEvent,
         WorkerHandles, BeginAnalysis, RejectAnalysis, HandleCancel, HandleClose, callVars,
         serverVars
<1> QED
  BY <1>1, <1>2 DEF BaseInv, ServerTypeOK

\* A step that posts neither an event nor a success of r and leaves its files and its
\* flag alone.
PostsNothingFor(r) ==
    /\ written'[r] = written[r]
    /\ filesLeft'[r] = filesLeft[r]
    /\ Ended(r) => cancelled'[r] = cancelled[r]
    /\ Running(r)' => Running(r)
    /\ step'[r] = "none" => step[r] = "none"
    /\ \E t \in Seq(FromWorker) :
         /\ fromWorker' = fromWorker \o t
         /\ \A i \in DOMAIN t : ~IsEvent(t, i, r)
                                /\ ~(t[i].type = "complete" /\ t[i].id = r /\ t[i].ok)

LEMMA QuietSteps ==
    ASSUME ServerInv, NEW r \in Requests,
           fromWorker' = fromWorker, written'[r] = written[r], filesLeft'[r] = filesLeft[r],
           cancelled'[r] = cancelled[r],
           Running(r)' => Running(r), step'[r] = "none" => step[r] = "none"
    PROVE  PostsNothingFor(r)
<1> DEFINE t == <<>>
<1>1. t \in Seq(FromWorker) /\ DOMAIN t = {}
  OBVIOUS
<1>2. fromWorker' = fromWorker \o t
  BY FlowTypes, ConcatEmptySeq
<1> HIDE DEF t
<1> QED
  BY <1>1, <1>2 DEF PostsNothingFor

\* What the worker posts for another analysis.
LEMMA OtherPosts ==
    ASSUME NEW r \in Requests,
           NEW t \in Seq(FromWorker), fromWorker' = fromWorker \o t,
           \A i \in DOMAIN t : t[i].id # r,
           UNCHANGED <<written, cancelled>>, filesLeft'[r] = filesLeft[r], step'[r] = step[r]
    PROVE  PostsNothingFor(r)
<1>1. \A i \in DOMAIN t : ~IsEvent(t, i, r)
                          /\ ~(t[i].type = "complete" /\ t[i].id = r /\ t[i].ok)
  BY DEF IsEvent
<1>2. Running(r)' => Running(r)
  BY DEF Running
<1> QED
  BY <1>1, <1>2 DEF PostsNothingFor

\* A failure is no success of anyone.
LEMMA FailurePosts ==
    ASSUME ServerInv, NEW r \in Requests,
           NEW q \in Requests, fromWorker' = fromWorker \o <<Completion(q, FALSE)>>,
           step' = [step EXCEPT ![q] = "done"], UNCHANGED <<written, cancelled, filesLeft>>
    PROVE  PostsNothingFor(r)
<1> DEFINE t == <<Completion(q, FALSE)>>
<1>1. t \in Seq(FromWorker)
  BY PostTypes DEF Events
<1>2. \A i \in DOMAIN t : t[i].type = "complete" /\ ~t[i].ok
  BY DEF Completion
<1>3. fromWorker' = fromWorker \o t
  OBVIOUS
<1> HIDE DEF t
<1>4. \A i \in DOMAIN t : ~IsEvent(t, i, r)
                          /\ ~(t[i].type = "complete" /\ t[i].id = r /\ t[i].ok)
  BY <1>2 DEF IsEvent
<1>5. (Running(r)' => Running(r)) /\ (step'[r] = "none" => step[r] = "none")
  BY FlowTypes DEF Running
<1> QED
  BY <1>1, <1>3, <1>4, <1>5 DEF PostsNothingFor

\* What is delivered is the first message; r's own event is written, unless its
\* client is gone.
LEMMA ReceiveSteps ==
    ASSUME ServerInv, NEW r \in Requests, Receive
    PROVE  /\ fromWorker # <<>> /\ fromWorker' = Tail(fromWorker)
           /\ written'[r] = IF IsEvent(fromWorker, 1, r) /\ ~transportCancelled[r]
                            THEN Append(written[r], fromWorker[1].body) ELSE written[r]
           /\ UNCHANGED <<step, filesLeft, cancelled, worker, transportCancelled>>
<1>1. /\ fromWorker # <<>> /\ fromWorker' = Tail(fromWorker)
      /\ Head(fromWorker) = fromWorker[1]
      /\ UNCHANGED <<step, filesLeft, cancelled, worker, transportCancelled>>
  BY FlowTypes, TailFacts
     DEF Receive, ReceiveEvent, ReceiveComplete, ReceiveCancelComplete, Deliver, analysisVars,
         lifecycleVars, callVars
<1>2. written'[r] = IF IsEvent(fromWorker, 1, r) /\ ~transportCancelled[r]
                    THEN Append(written[r], fromWorker[1].body) ELSE written[r]
  <2>1. CASE ReceiveEvent
    <3> DEFINE m == Head(fromWorker)
    <3>1. m.type = "event" /\ m.id \in Requests
      BY <1>1, <2>1, HeadTypes DEF ReceiveEvent, Deliver, ServerInv
    <3>2. written \in [Requests -> Seq(Events)]
      BY DEF ServerInv, BaseInv, ServerTypeOK
    <3>3. IsEvent(fromWorker, 1, r) <=> m.id = r
      BY <1>1, <3>1 DEF IsEvent
    <3>4. written' = IF transportCancelled[m.id] THEN written
                     ELSE [written EXCEPT ![m.id] = Append(@, m.body)]
      BY <2>1 DEF ReceiveEvent
    <3> QED
      BY <1>1, <3>1, <3>2, <3>3, <3>4
  <2>2. CASE ~ReceiveEvent
    <3>1. written' = written /\ Head(fromWorker).type # "event"
      BY <2>2 DEF Receive, ReceiveComplete, ReceiveCancelComplete, Deliver, callVars
    <3> QED
      BY <1>1, <3>1 DEF IsEvent
  <2> QED
    BY <2>1, <2>2
<1> QED
  BY <1>1, <1>2

LEMMA WorkerPosts ==
    ASSUME ServerInv, NEW r \in Requests, WorkerHandles
    PROVE  PostsNothingFor(r) \/ (BeginAnalysis /\ Head(toWorker).id = r)
<1>1. step \in [Requests -> Steps] /\ cancelled \in [Requests -> BOOLEAN]
  BY FlowTypes
<1>2. CASE BeginAnalysis
  <2>1. CASE Head(toWorker).id = r
    BY <1>2, <2>1
  <2>2. CASE Head(toWorker).id # r
    <3>1. fromWorker' = fromWorker /\ step'[r] = step[r] /\ UNCHANGED <<written, filesLeft, cancelled>>
      BY <1>1, <1>2, <2>2 DEF BeginAnalysis, callVars
    <3> QED
      BY <3>1, QuietSteps DEF Running
  <2> QED
    BY <2>1, <2>2
<1>3. CASE RejectAnalysis
  <2>1. Head(toWorker).id \in Requests
    BY <1>3, HeadTypes DEF RejectAnalysis, Take, ServerInv
  <2> QED
    BY <1>3, <2>1, FailurePosts DEF RejectAnalysis, Post, callVars
<1>4. CASE HandleCancel
  <2> DEFINE t == <<[type |-> "cancel-complete", id |-> Head(toWorker).id,
                     ok |-> analysisStatus # None]>>
  <2>1. fromWorker' = fromWorker \o t /\ UNCHANGED <<step, filesLeft, written>>
    BY <1>4 DEF HandleCancel, Post, callVars
  <2>2. [type |-> "cancel-complete", id |-> Head(toWorker).id,
         ok |-> analysisStatus # None] \in FromWorker
    BY <1>4, HeadTypes DEF HandleCancel, Take, FromWorker, ServerInv
  <2>3. t \in Seq(FromWorker) /\ \A i \in DOMAIN t : t[i].type = "cancel-complete"
    BY <2>2
  <2>4. Ended(r) => cancelled'[r] = cancelled[r]
    <3> SUFFICES ASSUME Ended(r) PROVE cancelled'[r] = cancelled[r]
      OBVIOUS
    <3>1. analysisStatus # r
      BY DEF ServerInv, Progress, Running
    <3> QED
      BY <1>1, <1>4, <3>1 DEF HandleCancel
  <2> HIDE DEF t
  <2>5. \A i \in DOMAIN t : ~IsEvent(t, i, r)
                            /\ ~(t[i].type = "complete" /\ t[i].id = r /\ t[i].ok)
    BY <2>3 DEF IsEvent
  <2>6. Running(r)' => Running(r)
    BY <2>1 DEF Running
  <2> QED
    BY <2>1, <2>3, <2>4, <2>5, <2>6 DEF PostsNothingFor
<1>5. CASE HandleClose
  BY <1>5, QuietSteps DEF HandleClose, Running, callVars, analysisVars
<1> QED
  BY <1>2, <1>3, <1>4, <1>5 DEF WorkerHandles

LEMMA AnalysePosts ==
    ASSUME ServerInv, NEW r \in Requests, NEW q \in Requests, Analyse(q) \/ FailAnalysis(q)
    PROVE  PostsNothingFor(r) \/ (q = r /\ (EndFile(r) \/ FinishAnalysis(r)))
<1>1. /\ step \in [Requests -> Steps]
      /\ filesLeft \in [Requests -> 0..Files]
  BY FlowTypes DEF ServerInv, BaseInv, ServerTypeOK
<1>2. CASE BeginFile(q)
  <2>1. /\ fromWorker' = fromWorker /\ UNCHANGED <<written, filesLeft, cancelled>>
        /\ Running(r)' => Running(r)
        /\ step'[r] = "none" => step[r] = "none"
    BY <1>1, <1>2 DEF BeginFile, Running, callVars, portVars
  <2> QED
    BY <2>1, QuietSteps
<1>3. CASE EndFile(q) /\ q # r
  <2> DEFINE t == EventMessages(q, "file")
  <2>1. t \in Seq(FromWorker)
    BY PostTypes DEF Events
  <2>2. \A i \in DOMAIN t : t[i].id = q
    BY DEF EventMessages
  <2>3. /\ fromWorker' = fromWorker \o t
        /\ UNCHANGED <<written, cancelled>>
        /\ filesLeft'[r] = filesLeft[r] /\ step'[r] = step[r]
    BY <1>1, <1>3 DEF EndFile, Post, callVars
  <2> HIDE DEF t
  <2> QED
    BY <1>3, <2>1, <2>2, <2>3, OtherPosts
<1>4. CASE FinishAnalysis(q) /\ q # r
  <2> DEFINE body == IF IsAnalysisCancelled THEN "cancelled" ELSE "meta"
             t == Append(EventMessages(q, body), Completion(q, TRUE))
  <2>1. /\ body \in Events
        /\ fromWorker' = fromWorker \o t
        /\ UNCHANGED <<written, cancelled, filesLeft>>
        /\ step'[r] = step[r]
    BY <1>1, <1>4 DEF FinishAnalysis, EndAnalysis, Post, Events, callVars
  <2> HIDE DEF body
  <2>2. t \in Seq(FromWorker)
    BY <2>1, PostTypes
  <2>3. \A i \in DOMAIN t : \/ t[i] = Completion(q, TRUE)
                            \/ t[i] = [type |-> "event", id |-> q, body |-> body]
    <3>1. CASE q \in Streams
      <4>1. /\ DOMAIN t = {1, 2}
            /\ t[1] = [type |-> "event", id |-> q, body |-> body]
            /\ t[2] = Completion(q, TRUE)
        BY <2>1, <3>1, EndPosts
      <4> QED
        BY <4>1
    <3>2. CASE q \notin Streams
      <4>1. DOMAIN t = {1} /\ t[1] = Completion(q, TRUE)
        BY <2>1, <3>2, EndPosts
      <4> QED
        BY <4>1
    <3> QED
      BY <3>1, <3>2
  <2> HIDE DEF t
  <2>4. \A i \in DOMAIN t : t[i].id = q
    BY <2>3 DEF Completion
  <2> QED
    BY <1>4, <2>1, <2>2, <2>4, OtherPosts
<1>5. CASE FailAnalysis(q)
  BY <1>5, FailurePosts DEF FailAnalysis, EndAnalysis, Post, callVars
<1> QED
  BY <1>2, <1>3, <1>4, <1>5 DEF Analyse

\* How the port and r's part of the state change in a step.
LEMMA PortSteps ==
    ASSUME ServerInv, [ServerNext]_serverVars, NEW r \in Requests
    PROVE  \/ PostsNothingFor(r)
           \/ Receive
           \/ BeginAnalysis /\ Head(toWorker).id = r
           \/ EndFile(r)
           \/ FinishAnalysis(r)
           \/ fromWorker' = <<>> /\ worker' # "up" /\ UNCHANGED <<written, filesLeft, step>>
<1>1. CASE WorkerEvent
  BY <1>1 DEF WorkerEvent, WorkerErrorEvent, WorkerExitEvent, analysisVars
<1>2. CASE UNCHANGED <<fromWorker, written, filesLeft, cancelled, step>>
  BY <1>2, QuietSteps DEF Running
<1> QED
  BY <1>1, <1>2, WorkerPosts, AnalysePosts
     DEF ServerNext, Submit, SubmitCancelled, TransportCancelled, CancelAnalysis, CancelTimesOut,
         LifecycleEvent, callVars, analysisVars, portVars, serverVars

LEMMA FlowStep ==
    ASSUME ServerInv, [ServerNext]_serverVars, NEW r \in Requests, Flow(r)
    PROVE  Flow(r)'
<1>1. CASE PostsNothingFor(r)
  BY <1>1, GoneStays, PostKeepsFlow DEF PostsNothingFor, ServerInv
<1>2. CASE Receive
  BY <1>2, ReceiveSteps, TailKeepsFlow
<1>3. CASE fromWorker' = <<>> /\ worker' # "up" /\ UNCHANGED <<written, filesLeft, step>>
  BY <1>3 DEF Flow, Fresh, Sending, Sent
<1> QED
  BY <1>1, <1>2, <1>3, PortSteps, BeginKeepsFlow, EndFileKeepsFlow, FinishKeepsFlow

-----------------------------------------------------------------------------
(* The order of what is on its way to a stream call                        *)

FilesOnly(r) == \A i \in EventsOf(fromWorker, r) : fromWorker[i].body = "file"

\* While r's analysis runs its results and the files it has left are no more than
\* it has files; a worker that failed may have lost some of them.
RunsInOrder(r) ==
    Running(r) => AllFiles(r) /\ FilesOnly(r) /\ Messages(r) + filesLeft[r] <= Files

\* Of the messages on the port for r the terminal one is the last.
PortInOrder(r) ==
    EventsOf(fromWorker, r) # {} =>
      /\ AllFiles(r)
      /\ Messages(r) <= Files + 1
      /\ FilesOnly(r) => Messages(r) <= Files
      /\ \A i \in EventsOf(fromWorker, r) : fromWorker[i].body # "file" =>
           /\ \A k \in EventsOf(fromWorker, r) : k <= i
           /\ fromWorker[i].body = "meta" => Messages(r) = Files + 1

InOrder(r) == r \in Streams /\ ~transportCancelled[r] => RunsInOrder(r) /\ PortInOrder(r)

\* Messages that are not for r do not disturb its order.
LEMMA PostKeepsOrder ==
    ASSUME ServerInv, NEW r \in Requests, RunsInOrder(r), PortInOrder(r), PostsNothingFor(r)
    PROVE  RunsInOrder(r)' /\ PortInOrder(r)'
<1>1. PICK t \in Seq(FromWorker) :
        fromWorker' = fromWorker \o t /\ \A i \in DOMAIN t : ~IsEvent(t, i, r)
  BY DEF PostsNothingFor
<1>2. EventsOf(fromWorker', r) = EventsOf(fromWorker, r)
  BY <1>1, FlowTypes, PostCount
<1>3. \A i \in EventsOf(fromWorker, r) : fromWorker'[i] = fromWorker[i]
  BY <1>1, FlowTypes, PostFacts DEF EventsOf
<1>4. written'[r] = written[r] /\ filesLeft'[r] = filesLeft[r] /\ (Running(r)' => Running(r))
  BY DEF PostsNothingFor
<1>5. Messages(r)' = Messages(r) /\ AllFiles(r)' = AllFiles(r)
  BY <1>2, <1>4 DEF Messages, AllFiles
<1>6. FilesOnly(r)' = FilesOnly(r)
  BY <1>2, <1>3 DEF FilesOnly
<1>7. RunsInOrder(r)'
  BY <1>4, <1>5, <1>6 DEF RunsInOrder
<1>8. PortInOrder(r)'
  BY <1>2, <1>3, <1>5, <1>6 DEF PortInOrder
<1> QED
  BY <1>7, <1>8

\* The first message is delivered: if it was the terminal one, nothing is left.
LEMMA TailKeepsOrder ==
    ASSUME ServerInv, NEW r \in Requests, RunsInOrder(r), PortInOrder(r), Receive,
           ~transportCancelled[r]
    PROVE  RunsInOrder(r)' /\ PortInOrder(r)'
<1>1. /\ fromWorker # <<>> /\ fromWorker' = Tail(fromWorker)
      /\ written'[r] = IF IsEvent(fromWorker, 1, r) THEN Append(written[r], fromWorker[1].body)
                                                    ELSE written[r]
      /\ UNCHANGED <<step, filesLeft>>
  BY ReceiveSteps
<1>2. /\ Len(fromWorker) \in Nat /\ DOMAIN fromWorker = 1..Len(fromWorker)
      /\ DOMAIN fromWorker' = 1..Len(fromWorker) - 1
      /\ \A i \in DOMAIN fromWorker' :
           i + 1 \in DOMAIN fromWorker /\ fromWorker'[i] = fromWorker[i + 1]
  BY <1>1, FlowTypes, TailFacts
<1>3. \A i \in EventsOf(fromWorker', r) :
        i \in Nat \ {0} /\ i + 1 \in EventsOf(fromWorker, r) /\ fromWorker'[i] = fromWorker[i + 1]
  BY <1>2 DEF EventsOf, IsEvent
<1>4. \A i \in EventsOf(fromWorker, r) : i = 1 \/ i - 1 \in EventsOf(fromWorker', r)
  <2> SUFFICES ASSUME NEW i \in EventsOf(fromWorker, r), i # 1
               PROVE  i - 1 \in EventsOf(fromWorker', r)
    OBVIOUS
  <2>1. i \in DOMAIN fromWorker /\ IsEvent(fromWorker, i, r)
    BY DEF EventsOf
  <2>2. i - 1 \in DOMAIN fromWorker' /\ (i - 1) + 1 = i
    BY <1>2, <2>1
  <2>3. fromWorker'[i - 1] = fromWorker[i]
    BY <1>2, <2>2
  <2> QED
    BY <2>1, <2>2, <2>3 DEF EventsOf, IsEvent
<1>5. 1 \in EventsOf(fromWorker, r) <=> IsEvent(fromWorker, 1, r)
  BY <1>1, <1>2, FlowTypes, TailFacts DEF EventsOf
<1>6. Messages(r)' = Messages(r)
  BY <1>1, TailMessages
<1>7. AllFiles(r) /\ (IsEvent(fromWorker, 1, r) => fromWorker[1].body = "file") => AllFiles(r)'
  BY <1>1, TailMessages
<1>8. RunsInOrder(r)'
  <2> SUFFICES ASSUME Running(r)
               PROVE  AllFiles(r)' /\ FilesOnly(r)' /\ Messages(r)' + filesLeft'[r] <= Files
    BY <1>1 DEF RunsInOrder, Running
  <2>1. AllFiles(r) /\ FilesOnly(r) /\ Messages(r) + filesLeft[r] <= Files
    BY DEF RunsInOrder
  <2>2. AllFiles(r)'
    BY <1>5, <1>7, <2>1 DEF FilesOnly
  <2>3. FilesOnly(r)'
    BY <1>3, <2>1 DEF FilesOnly
  <2> QED
    BY <1>1, <1>6, <2>1, <2>2, <2>3
<1>9. PortInOrder(r)'
  <2> SUFFICES ASSUME NEW first \in EventsOf(fromWorker', r)
               PROVE  /\ AllFiles(r)'
                      /\ Messages(r)' <= Files + 1
                      /\ FilesOnly(r)' => Messages(r)' <= Files
                      /\ \A i \in EventsOf(fromWorker', r) : fromWorker'[i].body # "file" =>
                           /\ \A k \in EventsOf(fromWorker', r) : k <= i
                           /\ fromWorker'[i].body = "meta" => Messages(r)' = Files + 1
    BY DEF PortInOrder
  <2>1. first + 1 \in EventsOf(fromWorker, r) /\ first + 1 > 1
    BY <1>3
  <2>2. /\ AllFiles(r)
        /\ Messages(r) <= Files + 1
        /\ FilesOnly(r) => Messages(r) <= Files
        /\ \A i \in EventsOf(fromWorker, r) : fromWorker[i].body # "file" =>
             /\ \A k \in EventsOf(fromWorker, r) : k <= i
             /\ fromWorker[i].body = "meta" => Messages(r) = Files + 1
    BY <2>1 DEF PortInOrder
  <2>3. IsEvent(fromWorker, 1, r) => fromWorker[1].body = "file"
    BY <1>3, <1>5, <2>1, <2>2
  <2>4. FilesOnly(r)' => FilesOnly(r)
    <3> SUFFICES ASSUME FilesOnly(r)', NEW i \in EventsOf(fromWorker, r)
                 PROVE  fromWorker[i].body = "file"
      BY DEF FilesOnly
    <3>1. CASE i = 1
      BY <1>5, <2>3, <3>1
    <3>2. CASE i # 1
      <4>1. i - 1 \in EventsOf(fromWorker', r) /\ i \in Int
        BY <1>2, <1>4, <3>2 DEF EventsOf
      <4>2. fromWorker'[i - 1] = fromWorker[(i - 1) + 1] /\ (i - 1) + 1 = i
        BY <1>3, <4>1
      <4> QED
        BY <4>1, <4>2 DEF FilesOnly
    <3> QED
      BY <3>1, <3>2
  <2>5. ASSUME NEW i \in EventsOf(fromWorker', r), fromWorker'[i].body # "file"
        PROVE  /\ \A k \in EventsOf(fromWorker', r) : k <= i
               /\ fromWorker'[i].body = "meta" => Messages(r)' = Files + 1
    <3>1. i + 1 \in EventsOf(fromWorker, r) /\ fromWorker'[i] = fromWorker[i + 1] /\ i \in Nat
      BY <1>3
    <3>2. \A k \in EventsOf(fromWorker, r) : k <= i + 1
      BY <2>2, <2>5, <3>1
    <3>3. \A k \in EventsOf(fromWorker', r) : k <= i
      BY <1>3, <3>1, <3>2
    <3> QED
      BY <1>6, <2>2, <2>5, <3>1, <3>3
  <2>6. AllFiles(r)'
    BY <1>7, <2>2, <2>3
  <2> QED
    BY <1>6, <2>2, <2>4, <2>5, <2>6
<1> QED
  BY <1>8, <1>9

\* An event that is posted to r is the last of its messages.
LEMMA EventPosted ==
    ASSUME ServerInv, NEW r \in Requests, NEW t \in Seq(FromWorker), t # <<>>,
           \A i \in DOMAIN t : IsEvent(t, i, r) <=> i = 1,
           fromWorker' = fromWorker \o t, written'[r] = written[r]
    PROVE  /\ EventsOf(fromWorker', r) = EventsOf(fromWorker, r) \cup {Len(fromWorker) + 1}
           /\ \A i \in EventsOf(fromWorker', r) : i <= Len(fromWorker) + 1
           /\ \A i \in EventsOf(fromWorker, r) : fromWorker'[i] = fromWorker[i]
           /\ fromWorker'[Len(fromWorker) + 1] = t[1]
           /\ Messages(r)' = Messages(r) + 1
           /\ AllFiles(r)' = AllFiles(r)
<1> DEFINE last == Len(fromWorker) + 1
<1>1. /\ fromWorker \in Seq(FromWorker) /\ Len(written[r]) \in Nat
      /\ Cardinality(EventsOf(fromWorker, r)) \in Nat
  BY FlowTypes
<1>2. /\ EventsOf(fromWorker', r) = EventsOf(fromWorker, r) \cup {last}
      /\ Cardinality(EventsOf(fromWorker', r)) = Cardinality(EventsOf(fromWorker, r)) + 1
  BY <1>1, PostCount
<1>3. /\ Len(fromWorker) \in Nat /\ DOMAIN fromWorker = 1..Len(fromWorker)
      /\ \A i \in DOMAIN fromWorker : fromWorker'[i] = fromWorker[i]
      /\ \A i \in DOMAIN fromWorker' \ DOMAIN fromWorker : fromWorker'[i] = t[i - Len(fromWorker)]
  BY <1>1, PostFacts
<1>4. last \in DOMAIN fromWorker' \ DOMAIN fromWorker /\ last - Len(fromWorker) = 1
  BY <1>2, <1>3 DEF EventsOf
<1>5. fromWorker'[last] = t[1]
  BY <1>3, <1>4
<1>6. \A i \in EventsOf(fromWorker, r) : i <= last /\ fromWorker'[i] = fromWorker[i]
  BY <1>3 DEF EventsOf
<1>7. \A i \in EventsOf(fromWorker', r) : i <= last
  BY <1>2, <1>3, <1>6
<1>8. Messages(r)' = Messages(r) + 1
  BY <1>1, <1>2, OneMoreMessage
<1>9. AllFiles(r)' = AllFiles(r)
  BY DEF AllFiles
<1> QED
  BY <1>2, <1>5, <1>6, <1>7, <1>8, <1>9

\* The result of a file: there was one file more to be analysed.
LEMMA EndFileKeepsOrder ==
    ASSUME ServerInv, NEW r \in Streams, RunsInOrder(r), EndFile(r)
    PROVE  RunsInOrder(r)' /\ PortInOrder(r)'
<1> DEFINE t == <<[type |-> "event", id |-> r, body |-> "file"]>>
           last == Len(fromWorker) + 1
<1>1. r \in Requests /\ filesLeft[r] \in Int /\ Files \in Int
  BY ServerAssumption, FlowTypes
<1>2. /\ Running(r) /\ filesLeft'[r] = filesLeft[r] - 1 /\ filesLeft[r] > 0
      /\ written'[r] = written[r] /\ fromWorker' = fromWorker \o t
  BY <1>1, FlowTypes DEF EndFile, EventMessages, Running, Post, callVars, ServerInv, BaseInv,
                         ServerTypeOK, FileInHand
<1>3. t \in Seq(FromWorker)
  BY <1>1, PostTypes DEF Events, EventMessages
<1>4. t # <<>> /\ t[1].body = "file" /\ \A i \in DOMAIN t : IsEvent(t, i, r) <=> i = 1
  BY DEF IsEvent
<1> HIDE DEF t
<1>5. /\ EventsOf(fromWorker', r) = EventsOf(fromWorker, r) \cup {last}
      /\ \A i \in EventsOf(fromWorker, r) : fromWorker'[i] = fromWorker[i]
      /\ fromWorker'[last] = t[1]
      /\ Messages(r)' = Messages(r) + 1
      /\ AllFiles(r)' = AllFiles(r)
  <2>1. written'[r] = written[r] /\ fromWorker' = fromWorker \o t /\ t # <<>>
    BY <1>2, <1>4
  <2>2. \A i \in DOMAIN t : IsEvent(t, i, r) <=> i = 1
    BY <1>4
  <2> QED
    BY <1>1, <1>3, <2>1, <2>2, EventPosted
<1> HIDE DEF last
<1>6. AllFiles(r) /\ FilesOnly(r) /\ Messages(r) + filesLeft[r] <= Files
  BY <1>2 DEF RunsInOrder
<1>7. \A i \in EventsOf(fromWorker', r) : fromWorker'[i].body = "file"
  BY <1>4, <1>5, <1>6 DEF FilesOnly
<1>8. Messages(r) \in Int
  BY <1>1, FlowTypes DEF Messages
<1>9. Messages(r)' + filesLeft'[r] <= Files /\ Messages(r)' <= Files /\ Messages(r)' <= Files + 1
  BY <1>1, <1>2, <1>5, <1>6, <1>8
<1>10. RunsInOrder(r)'
  BY <1>5, <1>6, <1>7, <1>9 DEF RunsInOrder, FilesOnly
<1>11. PortInOrder(r)'
  BY <1>5, <1>6, <1>7, <1>9 DEF PortInOrder
<1> QED
  BY <1>10, <1>11

\* The terminal message follows the results, the metadata all of them.
LEMMA FinishKeepsOrder ==
    ASSUME ServerInv, NEW r \in Streams, Flow(r), ~transportCancelled[r], RunsInOrder(r),
           FinishAnalysis(r)
    PROVE  RunsInOrder(r)' /\ PortInOrder(r)'
<1> DEFINE body == IF IsAnalysisCancelled THEN "cancelled" ELSE "meta"
           t == Append(EventMessages(r, body), Completion(r, TRUE))
           last == Len(fromWorker) + 1
<1>1. r \in Requests /\ filesLeft[r] \in 0..Files /\ Files \in Int
  BY ServerAssumption, FlowTypes DEF ServerInv, BaseInv, ServerTypeOK
<1>2. /\ Running(r) /\ step'[r] = "done" /\ worker = "up"
      /\ filesLeft[r] = 0 \/ IsAnalysisCancelled
      /\ filesLeft' = filesLeft /\ written'[r] = written[r] /\ fromWorker' = fromWorker \o t
  BY <1>1, FlowTypes
     DEF FinishAnalysis, EndAnalysis, Working, Running, Post, callVars
<1>3. body \in Events /\ body # "file" /\ (body = "meta" => filesLeft[r] = 0)
  BY <1>2 DEF Events
<1> HIDE DEF body
<1>4. t \in Seq(FromWorker)
  BY <1>1, <1>3, PostTypes
<1>5. /\ DOMAIN t = {1, 2}
      /\ t[1] = [type |-> "event", id |-> r, body |-> body]
      /\ t[2] = Completion(r, TRUE)
  BY <1>1, <1>3, EndPosts
<1> HIDE DEF t
<1>6. t[1].type = "event" /\ t[1].id = r /\ t[1].body = body /\ t[2].type = "complete"
  BY <1>5 DEF Completion
<1>7. t # <<>> /\ \A i \in DOMAIN t : IsEvent(t, i, r) <=> i = 1
  <2>1. t # <<>>
    BY <1>5
  <2>2. IsEvent(t, 1, r) /\ ~IsEvent(t, 2, r)
    BY <1>6 DEF IsEvent
  <2> QED
    BY <1>5, <2>1, <2>2
<1>8. /\ EventsOf(fromWorker', r) = EventsOf(fromWorker, r) \cup {last}
      /\ \A i \in EventsOf(fromWorker', r) : i <= last
      /\ \A i \in EventsOf(fromWorker, r) : fromWorker'[i] = fromWorker[i]
      /\ fromWorker'[last] = t[1]
      /\ Messages(r)' = Messages(r) + 1
      /\ AllFiles(r)' = AllFiles(r)
  <2>1. written'[r] = written[r] /\ fromWorker' = fromWorker \o t /\ t # <<>>
    BY <1>2, <1>7
  <2>2. \A i \in DOMAIN t : IsEvent(t, i, r) <=> i = 1
    BY <1>7
  <2> QED
    BY <1>1, <1>4, <2>1, <2>2, EventPosted
<1> HIDE DEF last
<1>9. AllFiles(r) /\ FilesOnly(r) /\ Messages(r) + filesLeft[r] <= Files
  BY <1>2 DEF RunsInOrder
<1>10. Messages(r) = Files - filesLeft[r]
  BY <1>2 DEF Flow, Sending
<1>11. Messages(r)' <= Files + 1 /\ (body = "meta" => Messages(r)' = Files + 1)
  BY <1>1, <1>3, <1>8, <1>10
<1>12. RunsInOrder(r)'
  BY <1>2 DEF RunsInOrder, Running
<1>13. PortInOrder(r)'
  <2>1. ~FilesOnly(r)'
    BY <1>3, <1>6, <1>8 DEF FilesOnly
  <2>2. ASSUME NEW i \in EventsOf(fromWorker', r), fromWorker'[i].body # "file"
        PROVE  /\ \A k \in EventsOf(fromWorker', r) : k <= i
               /\ fromWorker'[i].body = "meta" => Messages(r)' = Files + 1
    <3>1. i = last
      BY <1>8, <1>9, <2>2 DEF FilesOnly
    <3> QED
      BY <1>6, <1>8, <1>11, <3>1
  <2> QED
    BY <1>8, <1>9, <1>11, <2>1, <2>2 DEF PortInOrder
<1> QED
  BY <1>12, <1>13

\* An analysis begins with nothing written to its call and nothing on the port.
LEMMA BeginKeepsOrder ==
    ASSUME ServerInv, NEW r \in Requests, Flow(r), BeginAnalysis, Head(toWorker).id = r
    PROVE  RunsInOrder(r)' /\ PortInOrder(r)'
<1>1. Asked(r) /\ UNCHANGED <<fromWorker, filesLeft, written>>
  BY FlowTypes, HeadTypes, TailFacts
     DEF BeginAnalysis, Take, Asked, Has, ServerInv, BaseInv, ServerTypeOK, callVars
<1>2. step[r] = "none" /\ ~Running(r) /\ ~Ended(r)
  BY <1>1 DEF ServerInv, Progress, Running
<1>3. EventsOf(fromWorker, r) = {}
  BY <1>2 DEF EventsOf, ServerInv, EventsBeforeEnd, Ends, Ended, Has
<1>4. filesLeft[r] = Files /\ written[r] = <<>> /\ Files \in Int
  BY <1>2, FlowTypes DEF Flow, Fresh
<1>5. Messages(r)' + filesLeft'[r] <= Files
  BY <1>1, <1>3, <1>4, FS_EmptySet DEF Messages
<1>6. RunsInOrder(r)'
  BY <1>1, <1>3, <1>4, <1>5 DEF RunsInOrder, FilesOnly, AllFiles
<1>7. PortInOrder(r)'
  BY <1>1, <1>3 DEF PortInOrder
<1> QED
  BY <1>6, <1>7

\* The worker failed: what was on the port is lost.
LEMMA LossKeepsOrder ==
    ASSUME ServerInv, NEW r \in Requests, RunsInOrder(r),
           fromWorker' = <<>>, UNCHANGED <<written, filesLeft, step>>
    PROVE  RunsInOrder(r)' /\ PortInOrder(r)'
<1>1. EventsOf(fromWorker', r) = {}
  BY DEF EventsOf
<1>2. Messages(r)' = Len(written[r]) + 0
  BY <1>1, FS_EmptySet DEF Messages
<1>3. Running(r) => Messages(r)' + filesLeft'[r] <= Files
  BY <1>2, FlowTypes DEF RunsInOrder, Messages
<1>4. RunsInOrder(r)'
  BY <1>1, <1>3 DEF RunsInOrder, Running, FilesOnly, AllFiles
<1> QED
  BY <1>1, <1>4 DEF PortInOrder

LEMMA OrderStep ==
    ASSUME ServerInv, [ServerNext]_serverVars, NEW r \in Requests, Flow(r), InOrder(r)
    PROVE  InOrder(r)'
<1> SUFFICES ASSUME r \in Streams, ~transportCancelled'[r]
             PROVE  RunsInOrder(r)' /\ PortInOrder(r)'
  BY DEF InOrder
<1>1. ~transportCancelled[r]
  BY GoneStays DEF ServerInv
<1>2. RunsInOrder(r) /\ PortInOrder(r)
  BY <1>1 DEF InOrder
<1> QED
  BY <1>1, <1>2, PortSteps, PostKeepsOrder, TailKeepsOrder, BeginKeepsOrder, EndFileKeepsOrder,
     FinishKeepsOrder, LossKeepsOrder

-----------------------------------------------------------------------------
(* What a call that was answered OK has received                           *)

\* The analysis is over and its completion was delivered.
Over(r) == step[r] = "done" /\ ~Ended(r)

Answered(r) ==
    /\ outcome[r] = "open" => reply[r] = "none"
    /\ reply[r] = "ok" =>
         /\ Over(r)
         /\ outcome[r] # "open"
         /\ filesLeft[r] = 0 \/ cancelled[r]
         /\ cancelled[r] => \E c \in Cancellers : target[c] = r
         /\ r \in Streams => EndsWell(r) /\ Len(written[r]) = Files - filesLeft[r] + 1

StreamInv == \A r \in Requests : Flow(r) /\ InOrder(r) /\ Answered(r)

LEMMA StreamInvInit == ServerInit => StreamInv
<1> SUFFICES ASSUME ServerInit, NEW r \in Requests PROVE InOrder(r) /\ Answered(r)
  BY FlowInit DEF StreamInv
<1>1. reply[r] = "none" /\ ~Running(r) /\ EventsOf(fromWorker, r) = {}
  BY DEF ServerInit, Running, EventsOf
<1> QED
  BY <1>1 DEF InOrder, RunsInOrder, PortInOrder, Answered

\* A call is answered in the step that settles its entry, as this says.
LEMMA ReplySteps ==
    ASSUME ServerInv, [ServerNext]_serverVars, NEW r \in Requests, reply'[r] # reply[r]
    PROVE  /\ outcome'[r] # outcome[r] /\ outcome'[r] # "open"
           /\ ~transportCancelled'[r]
           /\ outcome'[r] \in DOMAIN ReplyFor /\ reply'[r] = ReplyFor[outcome'[r]]
<1>1. /\ outcome' \in [Requests -> Outcomes] /\ outcome \in [Requests -> Outcomes]
      /\ reply \in [Requests -> Replies]
  BY ServerInvStep DEF ServerInv, BaseInv, ServerTypeOK, TypeOK
<1>2. ~UNCHANGED reply
  OBVIOUS
<1>3. AnswerCalls
  <2>1. ASSUME NEW q \in Requests,
               \/ Submit(q) \/ SubmitCancelled(q) \/ TransportCancelled(q)
               \/ Analyse(q) \/ FailAnalysis(q)
        PROVE  AnswerCalls
    BY <1>2, <2>1 DEF Submit, SubmitCancelled, TransportCancelled, Analyse, BeginFile, EndFile,
                      FinishAnalysis, FailAnalysis, EndAnalysis, callVars, MainEffects
  <2>2. ASSUME NEW c \in Cancellers, CancelAnalysis(c) \/ CancelTimesOut(c) PROVE AnswerCalls
    BY <1>2, <2>2 DEF CancelAnalysis, CancelTimesOut, callVars, MainEffects
  <2>3. CASE Receive
    BY <1>2, <2>3 DEF Receive, ReceiveEvent, ReceiveComplete, ReceiveCancelComplete, callVars,
                      MainEffects
  <2>4. CASE LifecycleEvent \/ WorkerEvent
    BY <1>2, <2>4 DEF LifecycleEvent, WorkerEvent, ShutdownEffects
  <2>5. CASE WorkerHandles
    BY <1>2, <2>5 DEF WorkerHandles, BeginAnalysis, RejectAnalysis, HandleCancel, HandleClose,
                      callVars
  <2>6. ASSUME NEW c \in CancelCalls PROVE c \in Cancellers
    BY ServerAssumption
  <2> QED
    BY <1>2, <2>1, <2>2, <2>3, <2>4, <2>5, <2>6 DEF ServerNext, callVars, serverVars
<1>4. outcome'[r] # outcome[r] /\ ~transportCancelled'[r] /\ reply'[r] = ReplyFor[outcome'[r]]
  BY <1>1, <1>3 DEF AnswerCalls
<1>5. outcome'[r] # "open"
  BY <1>4, ServerOutcomeKept DEF ServerInv
<1>6. outcome'[r] \in DOMAIN ReplyFor
  BY <1>1, <1>5 DEF Outcomes, ReplyFor
<1> QED
  BY <1>4, <1>5, <1>6

\* Only a delivered success answers a call OK, and its signals reach the worker
\* before the run settles.
LEMMA AnswerSteps ==
    ASSUME ServerInv, [ServerNext]_serverVars, NEW r \in Requests, reply'[r] # reply[r],
           reply'[r] = "ok"
    PROVE  /\ ReceiveComplete /\ ~transportCancelled[r] /\ ~closed
           /\ Ends(1, r) /\ 1 \in DOMAIN fromWorker /\ fromWorker[1].ok
<1>1. outcome \in [Requests -> Outcomes]
  BY DEF ServerInv, BaseInv, ServerTypeOK, TypeOK
<1>2. outcome'[r] # outcome[r] /\ ~transportCancelled'[r]
  BY ReplySteps
<1>3. outcome'[r] = "resolved"
  BY ReplySteps DEF ReplyFor
<1>4. ReceiveComplete
  <2>1. ASSUME NEW q \in Requests, Submit(q) PROVE FALSE
    BY <1>1, <1>2, <1>3, <2>1 DEF Submit, Enqueue, Refuse, StartAtOnce, JoinLine
  <2>2. ASSUME NEW c \in Cancellers, CancelStep(c) PROVE FALSE
    BY <1>1, <1>2, <1>3, <2>2
       DEF CancelStep, CancelEntry, Withdraw, AnswerInactive, ShareSignal, SendSignal
  <2>3. ~LifecycleEvent /\ ~WorkerEvent
    BY <1>1, <1>2, <1>3 DEF LifecycleEvent, WorkerEvent, ShutdownEffects, CloseEntries
  <2>4. ~UNCHANGED outcome
    BY <1>2
  <2>5. ASSUME NEW q \in Requests,
               SubmitCancelled(q) \/ TransportCancelled(q) \/ Analyse(q) \/ FailAnalysis(q)
        PROVE  FALSE
    <3>1. CASE TransportCancelled(q)
      BY <2>2, <3>1, CancelSteps DEF ServerInv, BaseInv
    <3>2. CASE SubmitCancelled(q) \/ Analyse(q) \/ FailAnalysis(q)
      BY <2>4, <3>2 DEF SubmitCancelled, Analyse, BeginFile, EndFile, FinishAnalysis,
                        FailAnalysis, EndAnalysis, queueVars
    <3> QED
      BY <2>5, <3>1, <3>2
  <2>6. ASSUME NEW c \in CancelCalls, CancelAnalysis(c) PROVE FALSE
    BY <2>2, <2>6, CancelSteps DEF ServerInv, BaseInv
  <2>7. ASSUME NEW c \in Cancellers, CancelTimesOut(c) PROVE FALSE
    BY <2>4, <2>7 DEF CancelTimesOut, SignalSettles
  <2>8. ~ReceiveEvent /\ ~ReceiveCancelComplete /\ ~WorkerHandles
    BY <2>4 DEF ReceiveEvent, ReceiveCancelComplete, SignalSettles, WorkerHandles, BeginAnalysis,
                RejectAnalysis, HandleCancel, HandleClose, queueVars
  <2> QED
    BY <2>1, <2>3, <2>4, <2>5, <2>6, <2>7, <2>8 DEF ServerNext, Receive, queueVars, serverVars
<1>5. /\ fromWorker # <<>> /\ Head(fromWorker) = fromWorker[1] /\ 1 \in DOMAIN fromWorker
      /\ Head(fromWorker).type = "complete" /\ Head(fromWorker).id \in Requests
  BY <1>4, FlowTypes, TailFacts, HeadTypes DEF ReceiveComplete, Deliver, ServerInv
<1> DEFINE m == Head(fromWorker)
           how == IF m.ok THEN "resolved" ELSE "rejected"
<1>6. Complete(m.id, how) /\ MainEffects
  BY <1>2, <1>4 DEF ReceiveComplete, queueVars
<1>7. outcome' = [outcome EXCEPT ![m.id] = how]
  BY <1>6 DEF Complete
<1>8. m.id = r /\ m.ok
  BY <1>1, <1>2, <1>3, <1>5, <1>7
<1>9. ~closed
  BY <1>5, <1>6, NoneAssumption
     DEF Complete, ServerInv, BaseInv, QueueInv, Bookkeeping, ClosedIsEmpty
<1> QED
  BY <1>2, <1>4, <1>5, <1>8, <1>9 DEF Ends, ReceiveComplete

LEMMA OverStays ==
    ASSUME ServerInv, [ServerNext]_serverVars, NEW r \in Requests, Over(r)
    PROVE  /\ Over(r)'
           /\ filesLeft'[r] = filesLeft[r]
           /\ cancelled'[r] = cancelled[r]
           /\ written'[r] = written[r]
<1>1. /\ fromWorker \in Seq(FromWorker) /\ toWorker \in Seq(ToWorker)
      /\ step \in [Requests -> Steps] /\ filesLeft \in [Requests -> 0..Files]
      /\ cancelled \in [Requests -> BOOLEAN] /\ written \in [Requests -> Seq(Events)]
  BY DEF ServerInv, BaseInv, ServerTypeOK
<1>2. step[r] = "done" /\ ~Ended(r) /\ ~Running(r) /\ ~Asked(r) /\ analysisStatus # r
  BY DEF Over, Running, ServerInv, Progress
<1>3. ASSUME NEW t \in Seq(FromWorker), fromWorker' = fromWorker \o t,
             \A i \in DOMAIN t : t[i].type # "complete" \/ t[i].id # r
      PROVE  ~Ended(r)'
  BY <1>1, <1>2, <1>3, PostHas DEF Ended, Has
<1>4. ASSUME NEW q \in Requests, q # r, NEW ok \in BOOLEAN,
             fromWorker' = fromWorker \o <<Completion(q, ok)>>
      PROVE  ~Ended(r)'
  <2> DEFINE t == <<Completion(q, ok)>>
  <2>1. t \in Seq(FromWorker)
    BY PostTypes DEF Events
  <2>2. \A i \in DOMAIN t : t[i].id # r
    BY <1>4 DEF Completion
  <2>3. fromWorker' = fromWorker \o t
    BY <1>4
  <2> HIDE DEF t
  <2> QED
    BY <1>3, <2>1, <2>2, <2>3
<1>5. CASE RejectAnalysis \/ BeginAnalysis
  <2> DEFINE q == Head(toWorker).id
  <2>1. q \in Requests /\ Asked(q)
    BY <1>1, <1>5, HeadTypes, TailFacts
       DEF RejectAnalysis, BeginAnalysis, Take, Asked, Has, ServerInv
  <2>2. q # r
    BY <1>2, <2>1
  <2>3. step'[r] = step[r] /\ UNCHANGED <<filesLeft, cancelled, written>>
    BY <1>1, <1>5, <2>2 DEF RejectAnalysis, BeginAnalysis, callVars
  <2>4. CASE RejectAnalysis
    BY <1>2, <1>4, <2>1, <2>2, <2>3, <2>4 DEF RejectAnalysis, Post, Over
  <2>5. CASE BeginAnalysis
    BY <1>2, <2>3, <2>5 DEF BeginAnalysis, Over, Ended
  <2> QED
    BY <1>5, <2>4, <2>5
<1>6. CASE HandleCancel
  <2> DEFINE t == <<[type |-> "cancel-complete", id |-> Head(toWorker).id,
                     ok |-> analysisStatus # None]>>
  <2>1. fromWorker' = fromWorker \o t /\ UNCHANGED <<step, filesLeft, written>>
    BY <1>6 DEF HandleCancel, Post, callVars
  <2>2. [type |-> "cancel-complete", id |-> Head(toWorker).id,
         ok |-> analysisStatus # None] \in FromWorker
    BY <1>6, HeadTypes DEF HandleCancel, Take, FromWorker, ServerInv
  <2>3. t \in Seq(FromWorker) /\ \A i \in DOMAIN t : t[i].type = "cancel-complete"
    BY <2>2
  <2>4. cancelled'[r] = cancelled[r]
    BY <1>1, <1>2, <1>6 DEF HandleCancel
  <2> HIDE DEF t
  <2>5. ~Ended(r)'
    BY <1>3, <2>1, <2>3
  <2> QED
    BY <1>2, <2>1, <2>4, <2>5 DEF Over
<1>7. ASSUME NEW q \in Requests, Analyse(q) \/ FailAnalysis(q)
      PROVE  /\ Over(r)'
             /\ filesLeft'[r] = filesLeft[r]
             /\ cancelled'[r] = cancelled[r]
             /\ written'[r] = written[r]
  <2>1. Running(q)
    BY <1>7 DEF Analyse, BeginFile, EndFile, FinishAnalysis, FailAnalysis, Running
  <2>2. q # r
    BY <1>2, <2>1
  <2>3. step'[r] = step[r] /\ filesLeft'[r] = filesLeft[r] /\ UNCHANGED <<cancelled, written>>
    BY <1>1, <1>7, <2>2
       DEF Analyse, BeginFile, EndFile, FinishAnalysis, FailAnalysis, EndAnalysis, callVars
  <2>4. CASE BeginFile(q)
    BY <1>2, <2>3, <2>4 DEF BeginFile, Over, Ended, portVars
  <2>5. CASE EndFile(q)
    <3> DEFINE t == EventMessages(q, "file")
    <3>1. t \in Seq(FromWorker) /\ fromWorker' = fromWorker \o t
      BY <2>5, PostTypes DEF Events, EndFile, Post
    <3>2. \A i \in DOMAIN t : t[i].id = q
      BY DEF EventMessages
    <3> HIDE DEF t
    <3>3. ~Ended(r)'
      BY <1>3, <2>2, <3>1, <3>2
    <3> QED
      BY <1>2, <2>3, <3>3 DEF Over
  <2>6. CASE FinishAnalysis(q)
    <3> DEFINE body == IF IsAnalysisCancelled THEN "cancelled" ELSE "meta"
               t == Append(EventMessages(q, body), Completion(q, TRUE))
    <3>1. body \in Events /\ fromWorker' = fromWorker \o t
      BY <2>6 DEF FinishAnalysis, EndAnalysis, Post, Events
    <3> HIDE DEF body
    <3>2. t \in Seq(FromWorker)
      BY <3>1, PostTypes
    <3>3. \A i \in DOMAIN t : \/ t[i] = Completion(q, TRUE)
                              \/ t[i] = [type |-> "event", id |-> q, body |-> body]
      <4>1. CASE q \in Streams
        <5>1. /\ DOMAIN t = {1, 2}
              /\ t[1] = [type |-> "event", id |-> q, body |-> body]
              /\ t[2] = Completion(q, TRUE)
          BY <3>1, <4>1, EndPosts
        <5> QED
          BY <5>1
      <4>2. CASE q \notin Streams
        <5>1. DOMAIN t = {1} /\ t[1] = Completion(q, TRUE)
          BY <3>1, <4>2, EndPosts
        <5> QED
          BY <5>1
      <4> QED
        BY <4>1, <4>2
    <3> HIDE DEF t
    <3>4. \A i \in DOMAIN t : t[i].id = q
      BY <3>3 DEF Completion
    <3>5. ~Ended(r)'
      BY <1>3, <2>2, <3>1, <3>2, <3>4
    <3> QED
      BY <1>2, <2>3, <3>5 DEF Over
  <2>7. CASE FailAnalysis(q)
    <3>1. ~Ended(r)'
      BY <1>4, <2>2, <2>7 DEF FailAnalysis, EndAnalysis, Post
    <3> QED
      BY <1>2, <2>3, <3>1 DEF Over
  <2> QED
    BY <1>7, <2>4, <2>5, <2>6, <2>7 DEF Analyse
<1>8. CASE Receive
  <2>1. /\ fromWorker # <<>> /\ fromWorker' = Tail(fromWorker) /\ 1 \in DOMAIN fromWorker
        /\ UNCHANGED <<step, filesLeft, cancelled>> /\ Head(fromWorker) = fromWorker[1]
    BY <1>1, <1>8, TailFacts
       DEF Receive, ReceiveEvent, ReceiveComplete, ReceiveCancelComplete, Deliver, analysisVars
  <2>2. ~Ended(r)'
    BY <1>1, <1>2, <2>1, TailHas DEF Ended
  <2>3. ~IsEvent(fromWorker, 1, r)
    BY <1>2, <2>1 DEF ServerInv, EventsBeforeEnd, Ends, Ended, Has
  <2>4. written'[r] = written[r]
    <3>1. CASE ReceiveEvent
      <4>1. Head(fromWorker).id # r
        BY <2>1, <2>3, <3>1 DEF ReceiveEvent, Deliver, IsEvent
      <4> QED
        BY <1>1, <3>1, <4>1 DEF ReceiveEvent
    <3>2. CASE ~ReceiveEvent
      BY <1>8, <3>2 DEF Receive, ReceiveComplete, ReceiveCancelComplete, callVars
    <3> QED
      BY <3>1, <3>2
  <2> QED
    BY <1>2, <2>1, <2>2, <2>4 DEF Over
<1>9. CASE /\ fromWorker' = fromWorker \/ fromWorker' = <<>>
           /\ UNCHANGED <<step, filesLeft, cancelled, written>>
  BY <1>2, <1>9 DEF Over, Ended, Has
<1> QED
  BY <1>5, <1>6, <1>7, <1>8, <1>9
     DEF ServerNext, Submit, SubmitCancelled, TransportCancelled, CancelAnalysis, CancelTimesOut,
         LifecycleEvent, WorkerEvent, WorkerHandles, HandleClose, callVars, analysisVars, portVars,
         serverVars

LEMMA AnsweredStep ==
    ASSUME ServerInv, StreamInv, [ServerNext]_serverVars, NEW r \in Requests
    PROVE  Answered(r)'
<1>1. Flow(r) /\ Answered(r)
  BY DEF StreamInv
<1>2. outcome'[r] = "open" => reply'[r] = "none"
  <2>1. CASE reply'[r] = reply[r]
    BY <1>1, <2>1, ServerOutcomeKept DEF Answered, ServerInv
  <2> QED
    BY <2>1, ReplySteps
<1>3. ASSUME reply'[r] = "ok", reply[r] = "ok"
      PROVE  /\ Over(r)'
             /\ outcome'[r] # "open"
             /\ filesLeft'[r] = 0 \/ cancelled'[r]
             /\ cancelled'[r] => \E c \in Cancellers : target'[c] = r
             /\ r \in Streams => EndsWell(r)' /\ Len(written'[r]) = Files - filesLeft'[r] + 1
  <2>1. /\ Over(r) /\ outcome[r] # "open"
        /\ filesLeft[r] = 0 \/ cancelled[r]
        /\ cancelled[r] => \E c \in Cancellers : target[c] = r
        /\ r \in Streams => EndsWell(r) /\ Len(written[r]) = Files - filesLeft[r] + 1
    BY <1>1, <1>3 DEF Answered
  <2>2. /\ Over(r)'
        /\ filesLeft'[r] = filesLeft[r] /\ cancelled'[r] = cancelled[r] /\ written'[r] = written[r]
    BY <2>1, OverStays
  <2>3. outcome'[r] # "open"
    BY <2>1, ServerOutcomeKept DEF ServerInv
  <2>4. \A c \in Cancellers : target[c] = r => target'[c] = r
    BY TargetStays, NoneAssumption DEF ServerInv
  <2> QED
    BY <2>1, <2>2, <2>3, <2>4 DEF EndsWell, Terminal
<1>4. ASSUME reply'[r] = "ok", reply[r] # "ok"
      PROVE  /\ Over(r)'
             /\ outcome'[r] # "open"
             /\ filesLeft'[r] = 0 \/ cancelled'[r]
             /\ cancelled'[r] => \E c \in Cancellers : target'[c] = r
             /\ r \in Streams => EndsWell(r)' /\ Len(written'[r]) = Files - filesLeft'[r] + 1
  <2>1. /\ outcome'[r] # "open"
        /\ ReceiveComplete /\ ~transportCancelled[r] /\ ~closed
        /\ Ends(1, r) /\ 1 \in DOMAIN fromWorker /\ fromWorker[1].ok
    BY <1>4, AnswerSteps, ReplySteps
  <2>2. /\ fromWorker \in Seq(FromWorker)
        /\ fromWorker # <<>> /\ fromWorker' = Tail(fromWorker) /\ Head(fromWorker) = fromWorker[1]
        /\ UNCHANGED <<step, filesLeft, cancelled, written>>
    BY <2>1, FlowTypes, TailFacts DEF ReceiveComplete, Deliver, analysisVars
  <2>3. Ended(r) /\ step[r] = "done" /\ ~Running(r)
    BY <2>1 DEF Ended, Has, Ends, ServerInv, Progress, Running
  <2>4. Over(r)'
    <3>1. Single(fromWorker, "complete") /\ Head(fromWorker).type = "complete"
      BY <2>1, <2>2 DEF Ends, ServerInv, OneAnalysis
    <3>2. ~Has(Tail(fromWorker), "complete", r)
      BY <2>2, <3>1, TailHas
    <3>3. ~Ended(r)'
      BY <2>2, <3>2 DEF Ended
    <3> QED
      BY <2>2, <2>3, <3>3 DEF Over
  <2>5. EventsOf(fromWorker, r) = {}
    <3> SUFFICES ASSUME NEW i \in EventsOf(fromWorker, r) PROVE FALSE
      OBVIOUS
    <3>1. i \in DOMAIN fromWorker /\ IsEvent(fromWorker, i, r)
      BY DEF EventsOf
    <3>2. PICK j \in DOMAIN fromWorker : j > i /\ Ends(j, r)
      BY <2>3, <3>1 DEF ServerInv, EventsBeforeEnd
    <3>3. j = 1
      BY <2>1, <3>2 DEF ServerInv, OneAnalysis, Single, Ends
    <3>4. i \in 1..Len(fromWorker)
      BY <2>2, <3>1, LenProperties
    <3> QED
      BY <3>2, <3>3, <3>4
  <2>6. Messages(r) = Len(written[r])
    BY <2>5, FlowTypes, FS_EmptySet DEF Messages
  <2>7. /\ filesLeft[r] = 0 \/ cancelled[r]
        /\ r \in Streams => Messages(r) = Files - filesLeft[r] + 1 /\ EndsWell(r)
    BY <1>1, <2>1 DEF Flow, Sent
  <2>8. cancelled[r] => \E c \in Cancellers : target'[c] = r
    <3>1. cancelled[r] => \E c \in Cancellers : target[c] = r
      BY <2>1 DEF ServerInv, NoCrossCancellation
    <3> QED
      BY <3>1, TargetStays, NoneAssumption DEF ServerInv
  <2> QED
    BY <2>1, <2>2, <2>4, <2>6, <2>7, <2>8 DEF EndsWell, Terminal
<1> QED
  BY <1>2, <1>3, <1>4 DEF Answered

LEMMA StreamInvStep == ServerInv /\ StreamInv /\ [ServerNext]_serverVars => StreamInv'
<1> SUFFICES ASSUME ServerInv, StreamInv, [ServerNext]_serverVars, NEW r \in Requests
             PROVE  Flow(r)' /\ InOrder(r)' /\ Answered(r)'
  BY DEF StreamInv
<1>1. Flow(r) /\ InOrder(r)
  BY DEF StreamInv
<1> QED
  BY <1>1, FlowStep, OrderStep, AnsweredStep

LEMMA ServerAlways == ServerSpec => [](ServerInv /\ StreamInv)
BY ServerInvInit, ServerInvStep, StreamInvInit, StreamInvStep, PTL DEF ServerSpec

\* A stream call that is answered OK received the results of its analysis and
\* nothing else: a message for each file and "meta", or "cancelled" at the end if
\* somebody cancelled it, although the messages travel over the port and the
\* answer comes from the promise of the run.
THEOREM ServerStreamComplete == ServerSpec => []StreamComplete
<1>1. ServerInv /\ StreamInv => StreamComplete
  <2> SUFFICES ASSUME ServerInv, StreamInv, NEW r \in Streams, reply[r] = "ok"
               PROVE  /\ written[r] # <<>>
                      /\ \A i \in 1..Len(written[r]) - 1 : written[r][i] = "file"
                      /\ \/ Last(written[r]) = "meta" /\ Len(written[r]) = Files + 1
                         \/ /\ Last(written[r]) = "cancelled"
                            /\ \E c \in Cancellers : target[c] = r
    BY DEF StreamComplete
  <2>1. /\ r \in Requests /\ EndsWell(r) /\ Len(written[r]) = Files - filesLeft[r] + 1
        /\ filesLeft[r] = 0 \/ cancelled[r]
        /\ cancelled[r] => \E c \in Cancellers : target[c] = r
    BY ServerAssumption DEF StreamInv, Answered
  <2>2. CASE cancelled[r]
    BY <2>1, <2>2 DEF EndsWell, Terminal, Last
  <2>3. CASE ~cancelled[r]
    BY <2>1, <2>3, ServerAssumption DEF EndsWell, Terminal, Last
  <2> QED
    BY <2>2, <2>3
<1> QED
  BY <1>1, ServerAlways, PTL

\* A cancellation that the worker confirmed is honoured, whichever of the
\* acknowledgement, the terminal message and the completion is delivered first.
THEOREM ServerHonoursCancellations == ServerSpec => []AcknowledgedCancellationHonoured
<1>1. ServerInv /\ StreamInv => AcknowledgedCancellationHonoured
  <2> SUFFICES ASSUME ServerInv, StreamInv, NEW c \in Cancellers, signal[c] = "acknowledged"
               PROVE  /\ cancelled[target[c]]
                      /\ target[c] \in Streams /\ reply[target[c]] = "ok"
                           => Last(written[target[c]]) = "cancelled"
    BY DEF AcknowledgedCancellationHonoured
  <2>1. cancelled[target[c]]
    BY DEF ServerInv, ConfirmedIsSet, Confirmed
  <2>2. target[c] \in Streams /\ reply[target[c]] = "ok" => EndsWell(target[c])
    BY ServerAssumption DEF StreamInv, Answered
  <2> QED
    BY <2>1, <2>2 DEF EndsWell, Terminal, Last
<1> QED
  BY <1>1, ServerAlways, PTL

\* A unary call that is answered OK holds the results of all files, unless
\* somebody cancelled it.
THEOREM ServerUnaryComplete == ServerSpec => []UnaryComplete
<1>1. ServerInv /\ StreamInv => UnaryComplete
  BY DEF UnaryComplete, StreamInv, Answered
<1> QED
  BY <1>1, ServerAlways, PTL

\* A message is written to a call when it is delivered, and nothing else happens.
LEMMA WriteSteps ==
    ASSUME ServerInv, [ServerNext]_serverVars, NEW r \in Requests, written'[r] # written[r]
    PROVE  /\ 1 \in DOMAIN fromWorker /\ IsEvent(fromWorker, 1, r)
           /\ fromWorker[1].body \in Events
           /\ ~transportCancelled[r]
           /\ written'[r] = Append(written[r], fromWorker[1].body)
           /\ reply' = reply
<1>1. Receive
  <2>1. CASE EndFile(r) \/ FinishAnalysis(r) \/ BeginAnalysis
    BY <2>1 DEF EndFile, FinishAnalysis, EndAnalysis, BeginAnalysis, callVars
  <2> QED
    BY <2>1, PortSteps DEF PostsNothingFor
<1>2. /\ fromWorker # <<>>
      /\ IsEvent(fromWorker, 1, r) /\ ~transportCancelled[r]
      /\ written'[r] = Append(written[r], fromWorker[1].body)
  BY <1>1, ReceiveSteps
<1>3. 1 \in DOMAIN fromWorker
  BY <1>2, FlowTypes, TailFacts
<1>4. fromWorker[1].body \in Events
  BY <1>2, <1>3, FlowTypes, MessageTypes DEF ServerInv, IsEvent
<1>5. reply' = reply
  BY <1>1 DEF Receive, ReceiveEvent, ReceiveComplete, ReceiveCancelComplete, callVars
<1> QED
  BY <1>2, <1>3, <1>4, <1>5

\* A message is only written to the call that owns the active slot and has not
\* been answered, until the queue closes: a stale event of an analysis whose call
\* was answered is never written, although nothing looks at the reply.
THEOREM ServerWritesWhileActive == ServerSpec => WrittenWhileActive
<1>1. ASSUME ServerInv, StreamInv, [ServerNext]_serverVars, NEW r \in Requests,
             written'[r] # written[r]
      PROVE  closed \/ (active = r /\ reply[r] = "none")
  <2>1. UnderWay(r)
    BY <1>1, WriteSteps DEF ServerInv, EventsBeforeEnd, Ends, UnderWay, Ended, Has
  <2>2. CASE closed
    BY <2>2
  <2>3. CASE ~closed
    <3>1. active = r
      BY <1>1, <2>1, <2>3 DEF ServerInv, OneAnalysis
    <3>2. outcome[r] = "open"
      <4>1. OutcomeAgrees /\ ActiveAgrees
        BY <1>1 DEF ServerInv, BaseInv, QueueInv, Bookkeeping, EntryBookkeeping
      <4>2. entryState[r] = "active"
        BY <3>1, <4>1 DEF ActiveAgrees
      <4> QED
        BY <4>1, <4>2 DEF OutcomeAgrees
    <3> QED
      BY <1>1, <3>1, <3>2 DEF StreamInv, Answered
  <2> QED
    BY <2>2, <2>3
<1>2. ServerInv /\ StreamInv /\ [ServerNext]_serverVars =>
        [\A r \in Requests : written'[r] # written[r] =>
           closed \/ (active = r /\ reply[r] = "none")]_serverVars
  BY <1>1
<1> QED
  BY <1>2, ServerAlways, PTL DEF ServerSpec, WrittenWhileActive

-----------------------------------------------------------------------------
(* What a client sees of its stream                                        *)

\* The entry of a call that is answered was not cancelled: the client of a
\* withdrawn call is gone, and the active entry is not pending.
LEMMA NeverAnswersCancelled ==
    ASSUME ServerInv, [ServerNext]_serverVars, NEW r \in Requests, reply'[r] # reply[r]
    PROVE  outcome'[r] # "cancelled"
<1>1. outcome \in [Requests -> Outcomes] /\ transportCancelled \in [Requests -> BOOLEAN]
  BY DEF ServerInv, BaseInv, ServerTypeOK, TypeOK
<1>2. outcome'[r] # outcome[r] /\ ~transportCancelled'[r]
  BY ReplySteps
<1> SUFFICES ASSUME outcome'[r] = "cancelled" PROVE FALSE
  OBVIOUS
<1>3. ASSUME NEW q \in Requests, TransportCancelled(q) PROVE FALSE
  <2>1. transportCancelled'[q]
    BY <1>1, <1>3 DEF TransportCancelled
  <2>2. q # r
    BY <1>2, <2>1
  <2>3. outcome'[r] = outcome[r]
    BY <1>1, <1>3, <2>2
       DEF TransportCancelled, CancelTransportCall, CancelEntry, Withdraw, ShareSignal, SendSignal,
           AnswerInactive
  <2> QED
    BY <1>2, <2>3
<1>4. ASSUME NEW c \in CancelCalls, CancelAnalysis(c) PROVE FALSE
  <2>1. active # None => entryState[active] = "active"
    BY DEF ServerInv, BaseInv, QueueInv, Bookkeeping, EntryBookkeeping, ActiveAgrees, TypeOK
  <2>2. UNCHANGED outcome
    BY <1>4, <2>1 DEF CancelAnalysis, CancelActiveAnalysis, CancelEntry, Withdraw, ShareSignal,
                      SendSignal, AnswerInactive
  <2> QED
    BY <1>2, <2>2
<1>5. ASSUME NEW q \in Requests, Submit(q) PROVE FALSE
  BY <1>1, <1>2, <1>5 DEF Submit, Enqueue, Refuse, StartAtOnce, JoinLine
<1>6. ~ReceiveComplete
  BY <1>1, <1>2 DEF ReceiveComplete, Complete, queueVars
<1>7. ~LifecycleEvent /\ ~WorkerEvent
  BY <1>1, <1>2 DEF LifecycleEvent, WorkerEvent, ShutdownEffects, CloseEntries
<1>8. ~UNCHANGED outcome
  BY <1>2
<1>9. ASSUME NEW q \in Requests, SubmitCancelled(q) \/ Analyse(q) \/ FailAnalysis(q) PROVE FALSE
  BY <1>8, <1>9 DEF SubmitCancelled, Analyse, BeginFile, EndFile, FinishAnalysis, FailAnalysis,
                    EndAnalysis, queueVars
<1>10. ASSUME NEW c \in Cancellers, CancelTimesOut(c) PROVE FALSE
  BY <1>8, <1>10 DEF CancelTimesOut, SignalSettles
<1>11. ~ReceiveEvent /\ ~ReceiveCancelComplete /\ ~WorkerHandles
  BY <1>8 DEF ReceiveEvent, ReceiveCancelComplete, SignalSettles, WorkerHandles, BeginAnalysis,
              RejectAnalysis, HandleCancel, HandleClose, queueVars
<1> QED
  BY <1>3, <1>4, <1>5, <1>6, <1>7, <1>8, <1>9, <1>10, <1>11
     DEF ServerNext, Receive, queueVars, serverVars

\* A message that is written is the next one that the client expects.
LEMMA WriteIsResult ==
    ASSUME ServerInv, StreamInv, [ServerNext]_serverVars, NEW r \in Streams,
           written'[r] # written[r]
    PROVE  Result(r)!Next
<1> DEFINE body == fromWorker[1].body
           length == Len(written[r])
<1>1. /\ r \in Requests
      /\ written[r] \in Seq(Events) /\ length \in Nat /\ Files \in Int
      /\ Cardinality(EventsOf(fromWorker, r)) \in Nat
  BY ServerAssumption, FlowTypes
<1>2. /\ 1 \in EventsOf(fromWorker, r) /\ body \in Events
      /\ ~transportCancelled[r]
      /\ written'[r] = Append(written[r], body)
      /\ reply' = reply
  BY <1>1, WriteSteps DEF EventsOf
<1>3. /\ Len(written'[r]) = length + 1
      /\ \A k \in 1..length : written'[r][k] = written[r][k]
      /\ written'[r][length + 1] = body
      /\ DOMAIN written[r] = 1..length /\ DOMAIN written'[r] = 1..length + 1
  <2>1. written'[r] \in Seq(Events) /\ Len(written'[r]) = length + 1
    BY <1>1, <1>2, AppendProperties
  <2> QED
    BY <1>1, <1>2, <2>1, AppendProperties, LenProperties
<1>4. PortInOrder(r) /\ AllFiles(r)
  BY <1>1, <1>2 DEF StreamInv, InOrder, PortInOrder
<1>5. EndOf(r) # "ok" /\ EndOf(r)' = EndOf(r)
  <2>1. reply[r] # "ok"
    <3>1. Running(r) \/ Ended(r)
      BY <1>1, <1>2 DEF EventsOf, ServerInv, EventsBeforeEnd, Ends, Ended, Has
    <3> QED
      BY <1>1, <3>1 DEF StreamInv, Answered, Over, Running
  <2> QED
    BY <1>2, <2>1 DEF EndOf
<1>6. Result(r)!Open /\ Result(r)!ResultsOnly
  BY <1>3, <1>4, <1>5 DEF Result!Open, Result!ResultsOnly, AllFiles
<1> HIDE DEF length
<1>9. Messages(r) = length + Cardinality(EventsOf(fromWorker, r))
  BY DEF Messages, length
<1>10. CASE body = "file"
  <2>1. length < Files
    <3>1. CASE FilesOnly(r)
      <4>1. Cardinality(EventsOf(fromWorker, r)) # 0
        BY <1>1, <1>2, FlowTypes, EventsFinite, FS_EmptySet
      <4>2. Messages(r) <= Files
        BY <1>2, <1>4, <3>1 DEF PortInOrder
      <4> QED
        BY <1>1, <1>9, <4>1, <4>2
    <3>2. CASE ~FilesOnly(r)
      <4>1. PICK i \in EventsOf(fromWorker, r) : i # 1
        BY <1>10, <3>2 DEF FilesOnly
      <4> DEFINE rest == EventsOf(fromWorker, r) \ {1}
      <4>2. /\ IsFiniteSet(rest) /\ Cardinality(rest) \in Nat
            /\ Cardinality(rest) = Cardinality(EventsOf(fromWorker, r)) - 1
        BY <1>1, <1>2, FlowTypes, EventsFinite, FS_RemoveElement, FS_CardinalityType
      <4>3. Cardinality(rest) # 0
        BY <4>1, <4>2, FS_EmptySet
      <4>4. Messages(r) <= Files + 1
        BY <1>2, <1>4 DEF PortInOrder
      <4> QED
        BY <1>1, <1>9, <4>2, <4>3, <4>4
    <3> QED
      BY <3>1, <3>2
  <2> QED
    BY <1>2, <1>5, <1>6, <1>10, <2>1 DEF Result!Next, Result!SendResult, length
<1>11. ASSUME body # "file"
       PROVE  /\ length <= Files
              /\ body = "meta" => length = Files
  <2>1. \A k \in EventsOf(fromWorker, r) : k <= 1
    BY <1>2, <1>4, <1>11 DEF PortInOrder
  <2>2. EventsOf(fromWorker, r) \subseteq 1..Len(fromWorker) /\ Len(fromWorker) \in Nat
    BY <1>1, FlowTypes, LenProperties DEF EventsOf
  <2>3. EventsOf(fromWorker, r) = {1}
    BY <1>2, <2>1, <2>2
  <2>4. Cardinality(EventsOf(fromWorker, r)) = 1
    BY <2>3, FS_Singleton
  <2>5. Messages(r) <= Files + 1 /\ (body = "meta" => Messages(r) = Files + 1)
    BY <1>2, <1>4, <1>11 DEF PortInOrder
  <2> QED
    BY <1>1, <1>9, <2>4, <2>5
<1>12. CASE body = "meta"
  BY <1>2, <1>5, <1>6, <1>11, <1>12 DEF Result!Next, Result!SendMetadata, length
<1>13. CASE body = "cancelled"
  BY <1>2, <1>5, <1>6, <1>13 DEF Result!Next, Result!SendCancelled
<1> QED
  BY <1>2, <1>10, <1>12, <1>13 DEF Events

\* A call is answered once, OK after its terminal message.
LEMMA AnswerIsResult ==
    ASSUME ServerInv, StreamInv, [ServerNext]_serverVars, NEW r \in Streams,
           written'[r] = written[r], reply'[r] # reply[r]
    PROVE  Result(r)!Next
<1>1. /\ r \in Requests /\ Files \in Int
      /\ outcome[r] \in Outcomes
  BY ServerAssumption, FlowTypes DEF ServerInv, BaseInv, ServerTypeOK, TypeOK
<1>2. /\ outcome'[r] # outcome[r] /\ outcome'[r] \in DOMAIN ReplyFor
      /\ reply'[r] = ReplyFor[outcome'[r]] /\ outcome'[r] # "cancelled"
  BY <1>1, ReplySteps, NeverAnswersCancelled
<1>3. outcome[r] = "open"
  BY <1>1, <1>2, ServerOutcomeKept DEF ServerInv
<1>4. reply[r] = "none"
  BY <1>1, <1>3 DEF StreamInv, Answered
<1>5. EndOf(r) = "none"
  BY <1>4 DEF EndOf
<1>6. reply'[r] \in {"ok", "failed", "unavailable", "exhausted"}
  BY <1>2 DEF ReplyFor
<1>8. CASE reply'[r] = "ok"
  <2>1. /\ filesLeft'[r] = 0 \/ cancelled'[r]
        /\ written'[r] # <<>> /\ written'[r][Len(written'[r])] = Terminal(r)'
        /\ Len(written'[r]) = Files - filesLeft'[r] + 1
    BY <1>1, <1>8, AnsweredStep DEF Answered, EndsWell
  <2>2. Len(written[r]) \in DOMAIN written[r]
    <3>1. written[r] \in Seq(Events) /\ written[r] # <<>>
      BY <1>1, <2>1, FlowTypes
    <3> QED
      BY <3>1, EmptySeq, LenProperties
  <2>3. ~Result(r)!ResultsOnly
    BY <2>1, <2>2 DEF Result!ResultsOnly, Terminal
  <2>4. EndOf(r)' = "ok"
    BY <1>8 DEF EndOf
  <2> QED
    BY <1>5, <2>3, <2>4 DEF Result!Next, Result!EndOk
<1>9. CASE reply'[r] # "ok"
  <2>1. EndOf(r)' = "error"
    BY <1>6, <1>9 DEF EndOf
  <2> QED
    BY <1>5, <2>1 DEF Result!Next, Result!EndError
<1> QED
  BY <1>8, <1>9

-----------------------------------------------------------------------------
(* The components as the server composes them                              *)

\* The lifecycle inside the server behaves as the lifecycle on its own: nothing
\* the handlers or the worker do reaches it but through its events.
THEOREM ServerImplementsLifecycle == ServerSpec => LifecycleSpec
<1>1. ServerInit => LifecycleInit
  BY DEF ServerInit
<1> QED
  BY <1>1, ServerStepIsLifecycleStep, PTL DEF ServerSpec, LifecycleSpec

\* To the client of a stream call the whole server is the stream that it assumes,
\* message by message: one result per file, the metadata and OK in this order,
\* although the messages travel over the port and the answer comes from a promise;
\* a cancellation is the last message and never the status; and nothing follows OK.
THEOREM ServerImplementsResultStream == ServerSpec => StreamSpec
<1>1. ServerInit => \A r \in Streams : Result(r)!Init
  BY ServerAssumption DEF ServerInit, Result!Init, EndOf
<1>2. ASSUME ServerInv, StreamInv, [ServerNext]_serverVars, NEW r \in Streams
      PROVE  [Result(r)!Next]_(Result(r)!vars)
  <2>1. r \in Requests
    BY ServerAssumption
  <2>2. CASE written'[r] # written[r]
    BY <1>2, <2>2, WriteIsResult
  <2>3. CASE written'[r] = written[r] /\ reply'[r] # reply[r]
    BY <1>2, <2>3, AnswerIsResult
  <2>4. CASE written'[r] = written[r] /\ reply'[r] = reply[r]
    BY <2>4 DEF Result!vars, EndOf
  <2> QED
    BY <2>2, <2>3, <2>4
<1>3. ServerInv /\ StreamInv /\ [ServerNext]_serverVars =>
        [\A r \in Streams : [Result(r)!Next]_(Result(r)!vars)]_serverVars
  BY <1>2
<1> QED
  BY <1>1, <1>3, ServerAlways, PTL DEF ServerSpec, StreamSpec

\* To its callers the whole server is the bounded first-in first-out line that the
\* queue class promises, also when the worker dies, signals fail and shutdown
\* closes the queue from outside.
THEOREM ServerImplementsLine == ServerSpec => LineSpec
<1>1. BaseInv /\ [ServerNext]_serverVars => [Line!Next]_(Line!vars)
  <2> SUFFICES ASSUME BaseInv, [ServerNext]_serverVars PROVE LineStep
    BY DEF LineStep, Line!vars, TheLine
  <2>1. /\ TypeOK /\ Bookkeeping /\ ClosedIsShutDown
        /\ fromWorker \in Seq(FromWorker)
    BY DEF BaseInv, QueueInv, ServerTypeOK
  <2>2. CASE [QueueNext]_queueVars
    BY <2>1, <2>2, EveryStepMapsToLine
  <2>3. CASE UNCHANGED bookkeepingVars
    BY <2>3, LineUnchanged DEF LineStep
  <2>4. CASE CloseEntries /\ ~closed
    BY <2>1, <2>4, CloseMapsToLine DEF LineStep, Line!Next
  <2>5. CASE CloseEntries /\ closed
    <3>1. active = None /\ pending = <<>> /\ DOMAIN pending = {}
      BY <2>1, <2>5, LenProperties, EmptySeq DEF Bookkeeping, ClosedIsEmpty
    <3>2. Unsettled = {}
      BY <2>1, <3>1, NoneAssumption
         DEF Unsettled, Bookkeeping, EntryBookkeeping, ActiveAgrees, PendingAgrees
    <3>3. outcome' = outcome
      BY <2>1, <2>5, <3>2 DEF CloseEntries, TypeOK
    <3> QED
      BY <2>5, <3>1, <3>3 DEF CloseEntries, LineStep, TheLine
  <2> QED
    BY <2>1, <2>2, <2>3, <2>4, <2>5, ServerStepIsQueueStep
<1>2. ServerInit => Line!Init
  BY LineInit DEF ServerInit
<1> QED
  BY <1>1, <1>2, BaseInvInit, BaseInvStep, PTL DEF ServerSpec, LineSpec, Line!Spec
=============================================================================
