--------------------------- MODULE AnalysisQueue ---------------------------
(* The class AnalysisRequestQueue of                                       *)
(* packages/grpc/src/analyze-project-server-queue.ts: single-flight FIFO   *)
(* admission of analysis requests with per-entry cancellation.             *)
(*                                                                         *)
(* One action is one call of a public method, or the settlement of one of  *)
(* the two promises the class waits for: an entry's execution and an       *)
(* entry's cancellation signal.  Node runs each of them, and the promise   *)
(* reactions it triggers, without interruption.                            *)
EXTENDS Naturals, Sequences, SequencesExt

CONSTANTS
    Requests,      \* the calls that submit an analysis, each at most once
    Cancellers,    \* the callers of cancelEntry, each at most once
    MaxPending,    \* the constructor argument maxPending
    None           \* JavaScript's undefined

ASSUME MaxPendingAssumption == MaxPending \in Nat
ASSUME NoneAssumption == None \notin Requests \cup Cancellers \cup {"inactive"}

VARIABLES
    active,              \* this.active
    pending,             \* this.pending
    closed,              \* this.closed
    entryState,          \* entry.state, "none" before the entry exists
    outcome,             \* how enqueue answered and entry.result settled
    cancellationResult,  \* entry.cancellationResult: the promise it holds
    signal,              \* the state of the promise each canceller created
    answer,              \* what cancelEntry gave each canceller: a promise
    target               \* auxiliary: the entry each signal was sent for

queueVars == <<active, pending, closed, entryState, outcome,
               cancellationResult, signal, answer, target>>

EntryStates == {"none", "pending", "active", "settled"}

\* "open" until enqueue refuses the request or its promise settles.
Outcomes == {"open", "full", "refused", "resolved", "rejected",
             "cancelled", "closed"}

SignalStates == {"none", "inFlight", "acknowledged", "declined", "failed"}

TypeOK ==
    /\ active \in Requests \cup {None}
    /\ pending \in Seq(Requests)
    /\ closed \in BOOLEAN
    /\ entryState \in [Requests -> EntryStates]
    /\ outcome \in [Requests -> Outcomes]
    /\ cancellationResult \in [Requests -> Cancellers \cup {None}]
    /\ signal \in [Cancellers -> SignalStates]
    /\ answer \in [Cancellers -> Cancellers \cup {None, "inactive"}]
    /\ target \in [Cancellers -> Requests \cup {None}]

QueueInit ==
    /\ active = None
    /\ pending = <<>>
    /\ closed = FALSE
    /\ entryState = [r \in Requests |-> "none"]
    /\ outcome = [r \in Requests |-> "open"]
    /\ cancellationResult = [r \in Requests |-> None]
    /\ signal = [c \in Cancellers |-> "none"]
    /\ answer = [c \in Cancellers |-> None]
    /\ target = [c \in Cancellers |-> None]

signalVars == <<cancellationResult, signal, answer, target>>

-----------------------------------------------------------------------------
(* enqueue *)

New(r) == entryState[r] = "none" /\ outcome[r] = "open"

Full == active # None /\ Len(pending) >= MaxPending

Refuse(r) ==
    /\ closed \/ Full
    /\ outcome' = [outcome EXCEPT ![r] = IF closed THEN "refused" ELSE "full"]
    /\ UNCHANGED <<active, pending, closed, entryState, signalVars>>

\* The queue is idle: enqueue calls start, which runs the entry at once.
StartAtOnce(r) ==
    /\ ~closed
    /\ active = None
    /\ active' = r
    /\ entryState' = [entryState EXCEPT ![r] = "active"]
    /\ UNCHANGED <<pending, closed, outcome, signalVars>>

\* Mutant: unshift instead of push.
JoinFront(r) ==
    /\ ~closed
    /\ active # None
    /\ ~Full
    /\ pending' = <<r>> \o pending
    /\ entryState' = [entryState EXCEPT ![r] = "pending"]
    /\ UNCHANGED <<active, closed, outcome, signalVars>>

JoinLine(r) ==
    /\ ~closed
    /\ active # None
    /\ ~Full
    /\ pending' = Append(pending, r)
    /\ entryState' = [entryState EXCEPT ![r] = "pending"]
    /\ UNCHANGED <<active, closed, outcome, signalVars>>

Enqueue(r) == New(r) /\ (Refuse(r) \/ StartAtOnce(r) \/ JoinLine(r))

-----------------------------------------------------------------------------
(* complete: the promise that run() returned settles.  Once the queue was  *)
(* closed the entry is settled and the guard makes the reaction a no-op.   *)

\* Mutant: a completion starts nothing.
StartNothing(states) == active' = None /\ entryState' = states /\ UNCHANGED pending

StartNext(states) ==
    IF pending = <<>>
    THEN /\ active' = None
         /\ entryState' = states
         /\ UNCHANGED pending
    ELSE /\ active' = Head(pending)
         /\ pending' = Tail(pending)
         /\ entryState' = [states EXCEPT ![Head(pending)] = "active"]

Complete(r, how) ==
    /\ entryState[r] = "active"
    /\ active = r
    /\ StartNext([entryState EXCEPT ![r] = "settled"])
    /\ outcome' = [outcome EXCEPT ![r] = how]
    /\ UNCHANGED <<closed, signalVars>>

-----------------------------------------------------------------------------
(* cancelEntry: a pending entry leaves the line and is rejected; the       *)
(* active entry shares the signal in flight or starts a new one; a settled *)
(* entry answers { active: false }.                                        *)

Idle(c) == answer[c] = None

Withdraw(c, r) ==
    /\ entryState[r] = "pending"
    /\ \E i \in DOMAIN pending :
         pending[i] = r /\ pending' = RemoveAt(pending, i)
    /\ entryState' = [entryState EXCEPT ![r] = "settled"]
    /\ outcome' = [outcome EXCEPT ![r] = "cancelled"]
    /\ answer' = [answer EXCEPT ![c] = "inactive"]
    /\ UNCHANGED <<active, closed, cancellationResult, signal, target>>

AnswerInactive(c) ==
    /\ answer' = [answer EXCEPT ![c] = "inactive"]
    /\ UNCHANGED <<active, pending, closed, entryState, outcome,
                   cancellationResult, signal, target>>

\* The signal of r is remembered only while it is in flight or acknowledged.
ShareSignal(c, r) ==
    /\ cancellationResult[r] # None
    /\ answer' = [answer EXCEPT ![c] = cancellationResult[r]]
    /\ UNCHANGED <<active, pending, closed, entryState, outcome,
                   cancellationResult, signal, target>>

\* Mutant: a new signal although one is in flight.
SendAlways(c, r) ==
    /\ cancellationResult' = [cancellationResult EXCEPT ![r] = c]
    /\ signal' = [signal EXCEPT ![c] = "inFlight"]
    /\ answer' = [answer EXCEPT ![c] = c]
    /\ target' = [target EXCEPT ![c] = r]
    /\ UNCHANGED <<active, pending, closed, entryState, outcome>>

SendSignal(c, r) ==
    /\ cancellationResult[r] = None
    /\ cancellationResult' = [cancellationResult EXCEPT ![r] = c]
    /\ signal' = [signal EXCEPT ![c] = "inFlight"]
    /\ answer' = [answer EXCEPT ![c] = c]
    /\ target' = [target EXCEPT ![c] = r]
    /\ UNCHANGED <<active, pending, closed, entryState, outcome>>

\* Mutant: a settled entry still sends its signal.
CancelEntryLate(c, r) ==
    \/ Withdraw(c, r)
    \/ entryState[r] \in {"active", "settled"} /\ (ShareSignal(c, r) \/ SendSignal(c, r))

CancelEntry(c, r) ==
    \/ Withdraw(c, r)
    \/ entryState[r] = "active" /\ active = r /\ ShareSignal(c, r)
    \/ entryState[r] = "active" /\ active = r /\ SendSignal(c, r)
    \/ entryState[r] = "settled" /\ AnswerInactive(c)

\* The submission of r: only its own transport call holds it.
CancelTransportCall(c, r) ==
    /\ Idle(c)
    /\ entryState[r] # "none"
    /\ CancelEntry(c, r)

CancelActiveAnalysis(c) ==
    /\ Idle(c)
    /\ IF active = None THEN AnswerInactive(c) ELSE CancelEntry(c, active)

\* Mutant: an acknowledged signal is forgotten as well.
SignalForgotten(c, how) ==
    /\ signal[c] = "inFlight"
    /\ signal' = [signal EXCEPT ![c] = how]
    /\ cancellationResult' =
         [r \in Requests |->
            IF cancellationResult[r] = c THEN None ELSE cancellationResult[r]]
    /\ UNCHANGED <<active, pending, closed, entryState, outcome, answer, target>>

\* The reactions of cancelEntry: a signal that was not acknowledged is
\* forgotten, so that the next cancellation of its entry sends another.
SignalSettles(c, how) ==
    /\ signal[c] = "inFlight"
    /\ signal' = [signal EXCEPT ![c] = how]
    /\ cancellationResult' =
         [r \in Requests |->
            IF cancellationResult[r] = c /\ how # "acknowledged"
            THEN None ELSE cancellationResult[r]]
    /\ UNCHANGED <<active, pending, closed, entryState, outcome, answer,
                   target>>

-----------------------------------------------------------------------------
(* close *)

Unsettled == {r \in Requests : entryState[r] \in {"active", "pending"}}

CloseEntries ==
    /\ closed' = TRUE
    /\ active' = None
    /\ pending' = <<>>
    /\ entryState' = [r \in Requests |->
         IF r \in Unsettled THEN "settled" ELSE entryState[r]]
    /\ outcome' = [r \in Requests |->
         IF r \in Unsettled THEN "closed" ELSE outcome[r]]

Close == ~closed /\ CloseEntries /\ UNCHANGED signalVars

-----------------------------------------------------------------------------
(* The queue with the most general caller: runs and signals settle at any  *)
(* time in any way, anyone cancels anything.                               *)

QueueNext ==
    \/ \E r \in Requests : Enqueue(r)
    \/ \E r \in Requests, how \in {"resolved", "rejected"} : Complete(r, how)
    \/ \E c \in Cancellers, r \in Requests : CancelTransportCall(c, r)
    \/ \E c \in Cancellers : CancelActiveAnalysis(c)
    \/ \E c \in Cancellers, how \in {"acknowledged", "declined", "failed"} :
          SignalSettles(c, how)
    \/ Close

QueueSpec == QueueInit /\ [][QueueNext]_queueVars

-----------------------------------------------------------------------------
(* Safety *)

ActiveAgrees == \A r \in Requests : entryState[r] = "active" <=> active = r

PendingAgrees ==
    \A r \in Requests :
      entryState[r] = "pending" <=> \E i \in DOMAIN pending : pending[i] = r

NoDuplicates == \A i, j \in DOMAIN pending : pending[i] = pending[j] => i = j

OutcomeAgrees ==
    \A r \in Requests :
      CASE entryState[r] = "settled" ->
             outcome[r] \in {"resolved", "rejected", "cancelled", "closed"}
        [] entryState[r] = "none" -> outcome[r] \in {"open", "full", "refused"}
        [] OTHER -> outcome[r] = "open"

\* The three places that say where an entry is agree: the active slot, the
\* line and entry.state; and an entry is settled exactly when its promise is
\* (start, complete, cancelEntry and close each update several of them).
EntryBookkeeping == ActiveAgrees /\ PendingAgrees /\ NoDuplicates /\ OutcomeAgrees

\* Nothing waits behind an empty active slot: whichever of completion,
\* cancellation and close frees it, the next entry starts or none is left.
WorkConserving == active = None => pending = <<>>

\* Admission never lets more than maxPending requests wait.
BoundedLine == Len(pending) <= MaxPending

\* A closed queue holds nothing.
ClosedIsEmpty == closed => active = None /\ pending = <<>>

\* What must hold of the fields of the queue and of its entries together: each part
\* is updated in several methods, and none can be kept without the others.
Bookkeeping == EntryBookkeeping /\ WorkConserving /\ BoundedLine /\ ClosedIsEmpty

\* Single-flight signals: the signal an entry remembers was sent for it and is
\* in flight or acknowledged, and every signal in flight or acknowledged is
\* remembered by its entry, so that no entry ever has two, whatever the retries
\* (cancellationResult, lines 172-193).
OneSignal ==
    /\ \A r \in Requests : cancellationResult[r] # None =>
         /\ target[cancellationResult[r]] = r
         /\ signal[cancellationResult[r]] \in {"inFlight", "acknowledged"}
    /\ \A c \in Cancellers : signal[c] \in {"inFlight", "acknowledged"} =>
         target[c] # None /\ cancellationResult[target[c]] = c
    /\ \A c \in Cancellers : Idle(c) => signal[c] = "none"

\* Once the worker acknowledged a signal for an entry no other signal is sent
\* for it, so a late cancel can never reach the next analysis on its account.
NoSignalAfterAcknowledgement ==
    [][\A c, d \in Cancellers :
         signal[c] = "acknowledged" /\ signal[d] = "none" /\ signal'[d] # "none"
         => target'[d] # target[c]]_queueVars

\* A promise settles once: close, complete and cancelEntry racing for the same
\* entry never change an outcome that a caller has already seen (implied by LineSpec,
\* and a step property of its own for the proofs).
SettledOnce ==
    [][\A r \in Requests : outcome[r] # "open" => outcome'[r] = outcome[r]]_queueVars

-----------------------------------------------------------------------------
(* What the queue promises: a bounded line whose head alone executes.      *)

Line == INSTANCE AnalysisLine
          WITH line <- IF active = None THEN <<>> ELSE <<active>> \o pending,
               shut <- closed

LineSpec == Line!Spec
=============================================================================
