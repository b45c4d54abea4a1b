------------------------- MODULE AnalysisQueueProofs ------------------------
(* Proofs about AnalysisQueue for every set of requests and cancellers and *)
(* every bound on the line, and that it implements AnalysisLine.           *)
EXTENDS AnalysisQueue, SequenceTheorems, TLAPS

-----------------------------------------------------------------------------
(* Removing one position of a sequence                                     *)

\* splice(index, 1): one element shorter, everything after the position moves
\* down by one.
LEMMA RemoveAtProperties ==
    ASSUME NEW S, NEW s \in Seq(S), NEW i \in DOMAIN s
    PROVE  /\ RemoveAt(s, i) \in Seq(S)
           /\ Len(RemoveAt(s, i)) = Len(s) - 1
           /\ \A j \in 1..Len(s) - 1 :
                RemoveAt(s, i)[j] = IF j < i THEN s[j] ELSE s[j + 1]
<1> DEFINE front == SubSeq(s, 1, i - 1)
           back == SubSeq(s, i + 1, Len(s))
<1>1. Len(s) \in Nat /\ i \in 1..Len(s) /\ \A j \in 1..Len(s) : s[j] \in S
  BY LenProperties, ElementOfSeq
<1>2. /\ front \in Seq(S)
      /\ Len(front) = i - 1
      /\ \A j \in 1..i - 1 : front[j] = s[j]
  <2>1. \A j \in 1..i - 1 : s[j] \in S
    BY <1>1
  <2>2. i - 1 \in Int /\ 1 \in Int /\ (i - 1) - 1 + 1 = i - 1
    BY <1>1
  <2>3. /\ SubSeq(s, 1, i - 1) \in Seq(S)
        /\ Len(SubSeq(s, 1, i - 1)) = IF 1 <= i - 1 THEN (i - 1) - 1 + 1 ELSE 0
        /\ \A j \in 1..(i - 1) - 1 + 1 : SubSeq(s, 1, i - 1)[j] = s[1 + j - 1]
    BY <2>1, <2>2, SubSeqProperties
  <2>4. front \in Seq(S)
    BY <2>3
  <2>5. Len(front) = i - 1
    BY <1>1, <2>2, <2>3
  <2> HIDE DEF front
  <2>6. \A j \in 1..i - 1 : front[j] = s[j]
    <3> SUFFICES ASSUME NEW j \in 1..i - 1 PROVE front[j] = s[j]
      OBVIOUS
    <3>1. j \in 1..(i - 1) - 1 + 1 /\ 1 + j - 1 = j
      BY <1>1, <2>2
    <3> QED
      BY <2>3, <3>1 DEF front
  <2> QED
    BY <2>4, <2>5, <2>6
<1>3. /\ back \in Seq(S)
      /\ Len(back) = Len(s) - i
      /\ \A j \in 1..Len(s) - i : back[j] = s[i + j]
  <2>1. \A j \in i + 1..Len(s) : s[j] \in S
    BY <1>1
  <2>2. i + 1 \in Int /\ Len(s) \in Int
    BY <1>1
  <2>3. /\ SubSeq(s, i + 1, Len(s)) \in Seq(S)
        /\ Len(SubSeq(s, i + 1, Len(s)))
             = IF i + 1 <= Len(s) THEN Len(s) - (i + 1) + 1 ELSE 0
        /\ \A j \in 1..Len(s) - (i + 1) + 1 :
             SubSeq(s, i + 1, Len(s))[j] = s[(i + 1) + j - 1]
    BY <2>1, <2>2, SubSeqProperties
  <2>4. Len(s) - (i + 1) + 1 = Len(s) - i /\ \A j \in Int : (i + 1) + j - 1 = i + j
    BY <1>1
  <2>5. back \in Seq(S)
    BY <2>3
  <2>6. Len(back) = Len(s) - i
    <3>1. CASE i + 1 <= Len(s)
      BY <2>3, <2>4, <3>1
    <3>2. CASE ~(i + 1 <= Len(s))
      <4>1. Len(s) - i = 0
        BY <1>1, <3>2
      <4> QED
        BY <2>3, <3>2, <4>1
    <3> QED
      BY <3>1, <3>2
  <2> HIDE DEF back
  <2>7. \A j \in 1..Len(s) - i : back[j] = s[i + j]
    <3> SUFFICES ASSUME NEW j \in 1..Len(s) - i PROVE back[j] = s[i + j]
      OBVIOUS
    <3>1. j \in Int /\ (i + 1) + j - 1 = i + j
      BY <1>1, <2>4
    <3>2. j \in 1..Len(s) - (i + 1) + 1
      BY <2>4
    <3>3. back[j] = s[(i + 1) + j - 1]
      BY <2>3, <3>2 DEF back
    <3> QED
      BY <3>1, <3>3
  <2> QED
    BY <2>5, <2>6, <2>7
<1>4. RemoveAt(s, i) = front \o back
  BY DEF RemoveAt
<1> HIDE DEF front, back
<1>5. /\ front \o back \in Seq(S)
      /\ Len(front \o back) = Len(front) + Len(back)
      /\ \A j \in 1..Len(front) + Len(back) : (front \o back)[j] =
           IF j <= Len(front) THEN front[j] ELSE back[j - Len(front)]
  BY <1>2, <1>3, ConcatProperties
<1>6. RemoveAt(s, i) \in Seq(S) /\ Len(RemoveAt(s, i)) = Len(s) - 1
  BY <1>1, <1>2, <1>3, <1>4, <1>5
<1>7. ASSUME NEW j \in 1..Len(s) - 1
      PROVE  RemoveAt(s, i)[j] = IF j < i THEN s[j] ELSE s[j + 1]
  <2>1. (front \o back)[j] = IF j <= Len(front) THEN front[j] ELSE back[j - Len(front)]
    <3>1. j \in 1..Len(front) + Len(back)
      BY <1>1, <1>2, <1>3
    <3> QED
      BY <1>5, <3>1
  <2>2. CASE j < i
    <3>1. j <= Len(front) /\ front[j] = s[j]
      BY <1>1, <1>2, <2>2
    <3> QED
      BY <1>4, <2>1, <2>2, <3>1
  <2>3. CASE ~(j < i)
    <3>1. ~(j <= Len(front)) /\ j - Len(front) = j - (i - 1)
      BY <1>1, <1>2, <2>3
    <3>2. j - (i - 1) \in 1..Len(s) - i /\ i + (j - (i - 1)) = j + 1
      BY <1>1, <2>3
    <3>3. back[j - (i - 1)] = s[j + 1]
      BY <1>3, <3>2
    <3> QED
      BY <1>4, <2>1, <2>3, <3>1, <3>3
  <2> QED
    BY <2>2, <2>3
<1> QED
  BY <1>6, <1>7

-----------------------------------------------------------------------------
(* Types                                                                   *)

\* What the steps need of the line as a sequence.
LEMMA LineFacts ==
    ASSUME TypeOK
    PROVE  /\ DOMAIN pending = 1..Len(pending)
           /\ Len(pending) \in Nat
           /\ \A r \in Requests :
                /\ Append(pending, r) \in Seq(Requests)
                /\ Len(Append(pending, r)) = Len(pending) + 1
                /\ DOMAIN Append(pending, r) = 1..Len(pending) + 1
                /\ \A i \in 1..Len(pending) : Append(pending, r)[i] = pending[i]
                /\ Append(pending, r)[Len(pending) + 1] = r
           /\ pending # <<>> =>
                /\ Len(pending) > 0
                /\ Head(pending) = pending[1]
                /\ Head(pending) \in Requests
                /\ Tail(pending) \in Seq(Requests)
                /\ Len(Tail(pending)) = Len(pending) - 1
                /\ DOMAIN Tail(pending) = 1..Len(pending) - 1
                /\ \A i \in 1..Len(pending) - 1 : Tail(pending)[i] = pending[i + 1]
<1>1. pending \in Seq(Requests)
  BY DEF TypeOK
<1>2. DOMAIN pending = 1..Len(pending) /\ Len(pending) \in Nat
  BY <1>1, LenProperties
<1>3. ASSUME NEW r \in Requests
      PROVE  /\ Append(pending, r) \in Seq(Requests)
             /\ Len(Append(pending, r)) = Len(pending) + 1
             /\ DOMAIN Append(pending, r) = 1..Len(pending) + 1
             /\ \A i \in 1..Len(pending) : Append(pending, r)[i] = pending[i]
             /\ Append(pending, r)[Len(pending) + 1] = r
  <2>1. Append(pending, r) \in Seq(Requests) /\ Len(Append(pending, r)) = Len(pending) + 1
    BY <1>1, AppendProperties
  <2>2. DOMAIN Append(pending, r) = 1..Len(pending) + 1
    BY <2>1, LenProperties
  <2> QED
    BY <1>1, <2>1, <2>2, AppendProperties
<1>4. ASSUME pending # <<>>
      PROVE  /\ Len(pending) > 0
             /\ Head(pending) = pending[1]
             /\ Head(pending) \in Requests
             /\ Tail(pending) \in Seq(Requests)
             /\ Len(Tail(pending)) = Len(pending) - 1
             /\ DOMAIN Tail(pending) = 1..Len(pending) - 1
             /\ \A i \in 1..Len(pending) - 1 : Tail(pending)[i] = pending[i + 1]
  <2>1. Len(pending) > 0
    BY <1>1, <1>2, <1>4, EmptySeq
  <2>2. /\ Head(pending) \in Requests
        /\ Tail(pending) \in Seq(Requests)
        /\ Len(Tail(pending)) = Len(pending) - 1
        /\ \A i \in 1..Len(Tail(pending)) : Tail(pending)[i] = pending[i + 1]
    BY <1>1, <1>4, HeadTailProperties
  <2>3. DOMAIN Tail(pending) = 1..Len(pending) - 1
    BY <2>2, LenProperties
  <2>4. Head(pending) = pending[1]
    BY <1>1, <1>2, <2>1
  <2> QED
    BY <2>1, <2>2, <2>3, <2>4
<1> QED
  BY <1>2, <1>3, <1>4

LEMMA TypeInit == QueueInit => TypeOK
<1> SUFFICES ASSUME QueueInit PROVE TypeOK
  OBVIOUS
<1>1. pending \in Seq(Requests)
  BY EmptySeq DEF QueueInit
<1>2. active \in Requests \cup {None} /\ closed \in BOOLEAN
  BY DEF QueueInit
<1>3. entryState \in [Requests -> EntryStates] /\ outcome \in [Requests -> Outcomes]
  BY DEF QueueInit, EntryStates, Outcomes
<1>4. /\ cancellationResult \in [Requests -> Cancellers \cup {None}]
      /\ signal \in [Cancellers -> SignalStates]
  BY DEF QueueInit, SignalStates
<1>5. /\ answer \in [Cancellers -> Cancellers \cup {None, "inactive"}]
      /\ target \in [Cancellers -> Requests \cup {None}]
  BY DEF QueueInit
<1> QED
  BY <1>1, <1>2, <1>3, <1>4, <1>5 DEF TypeOK

LEMMA EnqueueKeepsType ==
    ASSUME TypeOK, NEW r \in Requests, Enqueue(r)
    PROVE  TypeOK'
<1>1. CASE Refuse(r)
  BY <1>1 DEF Refuse, TypeOK, Outcomes, signalVars
<1>2. CASE StartAtOnce(r)
  BY <1>2 DEF StartAtOnce, TypeOK, EntryStates, signalVars
<1>3. CASE JoinLine(r)
  BY <1>3, LineFacts DEF JoinLine, TypeOK, EntryStates, signalVars
<1> QED
  BY <1>1, <1>2, <1>3 DEF Enqueue

LEMMA CompleteKeepsType ==
    ASSUME TypeOK, NEW r \in Requests, NEW how \in {"resolved", "rejected"},
           Complete(r, how)
    PROVE  TypeOK'
<1>1. outcome' \in [Requests -> Outcomes]
  BY DEF Complete, TypeOK, Outcomes
<1>2. active' \in Requests \cup {None} /\ pending' \in Seq(Requests)
  BY LineFacts DEF Complete, StartNext, TypeOK
<1>3. entryState' \in [Requests -> EntryStates]
  BY LineFacts DEF Complete, StartNext, TypeOK, EntryStates
<1> QED
  BY <1>1, <1>2, <1>3 DEF Complete, TypeOK, signalVars

LEMMA CancelKeepsType ==
    ASSUME TypeOK, NEW c \in Cancellers, NEW r \in Requests, CancelEntry(c, r)
    PROVE  TypeOK'
<1>1. CASE Withdraw(c, r)
  <2>1. pending' \in Seq(Requests)
    BY <1>1, RemoveAtProperties DEF Withdraw, TypeOK
  <2> QED
    BY <1>1, <2>1 DEF Withdraw, TypeOK, EntryStates, Outcomes
<1>2. CASE ShareSignal(c, r)
  BY <1>2 DEF ShareSignal, TypeOK
<1>3. CASE SendSignal(c, r)
  BY <1>3 DEF SendSignal, TypeOK, SignalStates
<1>4. CASE AnswerInactive(c)
  BY <1>4 DEF AnswerInactive, TypeOK
<1> QED
  BY <1>1, <1>2, <1>3, <1>4 DEF CancelEntry

LEMMA CloseKeepsType == TypeOK /\ Close => TypeOK'
BY EmptySeq DEF Close, CloseEntries, TypeOK, EntryStates, Outcomes, signalVars

LEMMA TypeStep == TypeOK /\ [QueueNext]_queueVars => TypeOK'
<1> SUFFICES ASSUME TypeOK, [QueueNext]_queueVars PROVE TypeOK'
  OBVIOUS
<1>1. ASSUME NEW r \in Requests, Enqueue(r) PROVE TypeOK'
  BY <1>1, EnqueueKeepsType
<1>2. ASSUME NEW r \in Requests, NEW how \in {"resolved", "rejected"}, Complete(r, how)
      PROVE  TypeOK'
  BY <1>2, CompleteKeepsType
<1>3. ASSUME NEW c \in Cancellers, NEW r \in Requests, CancelTransportCall(c, r)
      PROVE  TypeOK'
  BY <1>3, CancelKeepsType DEF CancelTransportCall
<1>4. ASSUME NEW c \in Cancellers, CancelActiveAnalysis(c) PROVE TypeOK'
  <2>1. CASE active = None
    BY <1>4, <2>1 DEF CancelActiveAnalysis, AnswerInactive, TypeOK
  <2>2. CASE active # None
    <3>1. active \in Requests /\ CancelEntry(c, active)
      BY <1>4, <2>2 DEF CancelActiveAnalysis, TypeOK
    <3> QED
      BY <3>1, CancelKeepsType
  <2> QED
    BY <2>1, <2>2
<1>5. ASSUME NEW c \in Cancellers, NEW how \in {"acknowledged", "declined", "failed"},
             SignalSettles(c, how)
      PROVE  TypeOK'
  BY <1>5 DEF SignalSettles, TypeOK, SignalStates
<1>6. CASE Close
  BY <1>6, CloseKeepsType
<1>7. CASE UNCHANGED queueVars
  BY <1>7 DEF queueVars, TypeOK
<1> QED
  BY <1>1, <1>2, <1>3, <1>4, <1>5, <1>6, <1>7 DEF QueueNext

\* The queue's variables keep their types: the entries, the line, the promises.
THEOREM TypeCorrect == QueueSpec => []TypeOK
BY TypeInit, TypeStep, PTL DEF QueueSpec

-----------------------------------------------------------------------------
(* The bookkeeping of entries                                              *)

\* Bookkeeping is inductive together with TypeOK: that an entry settles where it is
\* found, and that the slot is refilled from the line, needs all four of its parts.
bookkeepingVars == <<active, pending, closed, entryState, outcome>>

LEMMA BookkeepingStutter ==
    Bookkeeping /\ UNCHANGED bookkeepingVars => Bookkeeping'
BY DEF Bookkeeping, bookkeepingVars, EntryBookkeeping, ActiveAgrees, PendingAgrees,
       NoDuplicates, OutcomeAgrees, WorkConserving, BoundedLine, ClosedIsEmpty

LEMMA BookkeepingInit == QueueInit => Bookkeeping
<1> SUFFICES ASSUME QueueInit PROVE Bookkeeping
  OBVIOUS
<1>1. DOMAIN pending = {} /\ Len(pending) = 0
  BY EmptySeq, LenProperties DEF QueueInit
<1>2. EntryBookkeeping
  BY <1>1, NoneAssumption
     DEF QueueInit, EntryBookkeeping, ActiveAgrees, PendingAgrees, NoDuplicates, OutcomeAgrees
<1>3. WorkConserving /\ BoundedLine /\ ClosedIsEmpty
  BY <1>1, MaxPendingAssumption DEF QueueInit, WorkConserving, BoundedLine, ClosedIsEmpty
<1> QED
  BY <1>2, <1>3 DEF Bookkeeping

LEMMA EnqueueKeepsBookkeeping ==
    ASSUME TypeOK, Bookkeeping, NEW r \in Requests, Enqueue(r)
    PROVE  Bookkeeping'
<1> USE DEF Bookkeeping, EntryBookkeeping
<1>1. CASE Refuse(r)
  <2>1. ActiveAgrees' /\ PendingAgrees' /\ NoDuplicates'
    BY <1>1 DEF Refuse, ActiveAgrees, PendingAgrees, NoDuplicates
  <2>2. OutcomeAgrees'
    BY <1>1 DEF Refuse, Enqueue, New, TypeOK, OutcomeAgrees
  <2> QED
    BY <1>1, <2>1, <2>2 DEF Refuse, WorkConserving, BoundedLine, ClosedIsEmpty
<1>2. CASE StartAtOnce(r)
  <2>1. ActiveAgrees'
    BY <1>2, NoneAssumption DEF StartAtOnce, ActiveAgrees, TypeOK
  <2>2. PendingAgrees' /\ NoDuplicates'
    BY <1>2 DEF StartAtOnce, Enqueue, New, PendingAgrees, NoDuplicates, TypeOK
  <2>3. OutcomeAgrees'
    BY <1>2 DEF StartAtOnce, Enqueue, New, TypeOK, OutcomeAgrees
  <2>4. WorkConserving' /\ BoundedLine' /\ ClosedIsEmpty'
    BY <1>2, NoneAssumption DEF StartAtOnce, WorkConserving, BoundedLine, ClosedIsEmpty
  <2> QED
    BY <2>1, <2>2, <2>3, <2>4
<1>3. CASE JoinLine(r)
  <2>1. ActiveAgrees'
    BY <1>3 DEF JoinLine, Enqueue, New, ActiveAgrees, TypeOK
  <2>2. pending' = Append(pending, r) /\ DOMAIN pending' = 1..Len(pending) + 1
    BY <1>3, LineFacts DEF JoinLine
  <2>3. \A i \in DOMAIN pending : pending[i] # r
    BY <1>3 DEF Enqueue, New, PendingAgrees
  <2>4. PendingAgrees'
    <3>1. ASSUME NEW q \in Requests, q # r
          PROVE  entryState'[q] = "pending" <=> \E i \in DOMAIN pending' : pending'[i] = q
      <4>1. (\E i \in DOMAIN pending' : pending'[i] = q)
              <=> \E i \in DOMAIN pending : pending[i] = q
        BY <2>2, <3>1, LineFacts
      <4> QED
        BY <1>3, <3>1, <4>1 DEF JoinLine, PendingAgrees, TypeOK
    <3>2. entryState'[r] = "pending" /\ \E i \in DOMAIN pending' : pending'[i] = r
      BY <1>3, <2>2, LineFacts DEF JoinLine, TypeOK
    <3> QED
      BY <3>1, <3>2 DEF PendingAgrees
  <2>5. NoDuplicates'
    BY <2>2, <2>3, LineFacts DEF NoDuplicates
  <2>6. OutcomeAgrees'
    BY <1>3 DEF JoinLine, Enqueue, New, TypeOK, OutcomeAgrees
  <2>7. BoundedLine'
    BY <1>3, LineFacts, MaxPendingAssumption DEF JoinLine, Full, BoundedLine
  <2>8. WorkConserving' /\ ClosedIsEmpty'
    BY <1>3 DEF JoinLine, WorkConserving, ClosedIsEmpty
  <2> QED
    BY <2>1, <2>4, <2>5, <2>6, <2>7, <2>8
<1> QED
  BY <1>1, <1>2, <1>3 DEF Enqueue

LEMMA CompleteKeepsBookkeeping ==
    ASSUME TypeOK, Bookkeeping, NEW r \in Requests, NEW how \in {"resolved", "rejected"},
           Complete(r, how)
    PROVE  Bookkeeping'
<1> USE DEF Bookkeeping, EntryBookkeeping
<1>1. active = r /\ entryState[r] = "active" /\ ~closed /\ r # None
  BY NoneAssumption DEF Complete, ClosedIsEmpty
<1>2. CASE pending = <<>>
  <2>1. /\ active' = None
        /\ entryState' = [entryState EXCEPT ![r] = "settled"]
        /\ pending' = pending
    BY <1>2 DEF Complete, StartNext
  <2>2. ActiveAgrees'
    BY <1>1, <2>1, NoneAssumption DEF ActiveAgrees, TypeOK
  <2>3. PendingAgrees' /\ NoDuplicates'
    BY <1>1, <2>1 DEF PendingAgrees, NoDuplicates, TypeOK
  <2>4. OutcomeAgrees'
    BY <2>1 DEF Complete, OutcomeAgrees, TypeOK
  <2>5. WorkConserving' /\ BoundedLine' /\ ClosedIsEmpty'
    BY <1>1, <1>2, <2>1 DEF Complete, WorkConserving, BoundedLine, ClosedIsEmpty
  <2> QED
    BY <2>2, <2>3, <2>4, <2>5
<1>3. CASE pending # <<>>
  <2> DEFINE h == Head(pending)
  <2>1. /\ active' = h
        /\ entryState' = [[entryState EXCEPT ![r] = "settled"] EXCEPT ![h] = "active"]
        /\ pending' = Tail(pending)
    BY <1>3 DEF Complete, StartNext
  <2>2. h \in Requests /\ h = pending[1] /\ 1 \in DOMAIN pending
    BY <1>3, LineFacts
  <2>3. entryState[h] = "pending" /\ h # r
    BY <1>1, <2>2 DEF PendingAgrees
  <2> HIDE DEF h
  <2>4. ActiveAgrees'
    BY <1>1, <2>1, <2>2, <2>3 DEF ActiveAgrees, TypeOK
  <2>5. /\ DOMAIN pending' = 1..Len(pending) - 1
        /\ \A i \in 1..Len(pending) - 1 : pending'[i] = pending[i + 1]
        /\ Len(pending') = Len(pending) - 1
    BY <1>3, <2>1, LineFacts
  <2>6. PendingAgrees'
    <3>1. ASSUME NEW q \in Requests
          PROVE  (\E i \in DOMAIN pending' : pending'[i] = q)
                   <=> q # h /\ \E i \in DOMAIN pending : pending[i] = q
      <4>1. ASSUME NEW i \in DOMAIN pending', pending'[i] = q
            PROVE  q # h /\ \E j \in DOMAIN pending : pending[j] = q
        <5>1. i + 1 \in DOMAIN pending /\ i + 1 # 1 /\ pending[i + 1] = q
          BY <2>5, <4>1, LineFacts
        <5> QED
          BY <2>2, <5>1 DEF NoDuplicates
      <4>2. ASSUME NEW j \in DOMAIN pending, pending[j] = q, q # h
            PROVE  \E i \in DOMAIN pending' : pending'[i] = q
        <5>1. j # 1
          BY <2>2, <4>2
        <5>2. j - 1 \in DOMAIN pending' /\ (j - 1) + 1 = j
          BY <2>5, <5>1, LineFacts
        <5> QED
          BY <2>5, <4>2, <5>2
      <4> QED
        BY <4>1, <4>2
    <3> QED
      BY <1>1, <2>1, <2>2, <2>3, <3>1 DEF PendingAgrees, TypeOK
  <2>7. NoDuplicates'
    <3> SUFFICES ASSUME NEW i \in DOMAIN pending', NEW j \in DOMAIN pending',
                        pending'[i] = pending'[j]
                 PROVE  i = j
      BY DEF NoDuplicates
    <3>1. /\ i + 1 \in DOMAIN pending /\ j + 1 \in DOMAIN pending
          /\ pending[i + 1] = pending[j + 1]
      BY <2>5, LineFacts
    <3>2. i + 1 = j + 1
      BY <3>1 DEF NoDuplicates
    <3> QED
      BY <2>5, <3>2, LineFacts
  <2>8. OutcomeAgrees'
    BY <2>1, <2>2, <2>3 DEF Complete, OutcomeAgrees, TypeOK
  <2>9. WorkConserving' /\ BoundedLine' /\ ClosedIsEmpty'
    BY <1>1, <2>1, <2>2, <2>5, LineFacts, NoneAssumption, MaxPendingAssumption
       DEF Complete, WorkConserving, BoundedLine, ClosedIsEmpty
  <2> QED
    BY <2>4, <2>6, <2>7, <2>8, <2>9
<1> QED
  BY <1>2, <1>3

LEMMA WithdrawKeepsBookkeeping ==
    ASSUME TypeOK, Bookkeeping, NEW c \in Cancellers, NEW r \in Requests, Withdraw(c, r)
    PROVE  Bookkeeping'
<1> USE DEF Bookkeeping, EntryBookkeeping
<1>1. PICK k \in DOMAIN pending : pending[k] = r /\ pending' = RemoveAt(pending, k)
  BY DEF Withdraw
<1>2. k \in 1..Len(pending) /\ Len(pending) \in Nat
  BY <1>1, LineFacts
<1>3. /\ Len(pending') = Len(pending) - 1
      /\ DOMAIN pending' = 1..Len(pending) - 1
      /\ \A j \in 1..Len(pending) - 1 :
           pending'[j] = IF j < k THEN pending[j] ELSE pending[j + 1]
  <2>1. /\ pending' \in Seq(Requests)
        /\ Len(pending') = Len(pending) - 1
        /\ \A j \in 1..Len(pending) - 1 :
             pending'[j] = IF j < k THEN pending[j] ELSE pending[j + 1]
    BY <1>1, RemoveAtProperties DEF TypeOK
  <2> QED
    BY <2>1, LenProperties
<1>4. ActiveAgrees'
  BY DEF Withdraw, ActiveAgrees, TypeOK
<1>5. ASSUME NEW q \in Requests
      PROVE  (\E i \in DOMAIN pending' : pending'[i] = q)
               <=> q # r /\ \E i \in DOMAIN pending : pending[i] = q
  <2>1. ASSUME NEW i \in DOMAIN pending', pending'[i] = q
        PROVE  q # r /\ \E j \in DOMAIN pending : pending[j] = q
    <3>1. CASE i < k
      <4>1. i \in DOMAIN pending /\ pending[i] = q /\ i # k
        BY <1>2, <1>3, <2>1, <3>1, LineFacts
      <4> QED
        BY <1>1, <4>1 DEF NoDuplicates
    <3>2. CASE ~(i < k)
      <4>1. i + 1 \in DOMAIN pending /\ pending[i + 1] = q /\ i + 1 # k
        BY <1>2, <1>3, <2>1, <3>2, LineFacts
      <4> QED
        BY <1>1, <4>1 DEF NoDuplicates
    <3> QED
      BY <3>1, <3>2
  <2>2. ASSUME NEW j \in DOMAIN pending, pending[j] = q, q # r
        PROVE  \E i \in DOMAIN pending' : pending'[i] = q
    <3>1. j # k /\ j \in 1..Len(pending)
      BY <1>1, <2>2, LineFacts
    <3>2. CASE j < k
      <4>1. j \in 1..Len(pending) - 1
        BY <1>2, <3>1, <3>2
      <4> QED
        BY <1>3, <2>2, <3>2, <4>1
    <3>3. CASE ~(j < k)
      <4>1. j - 1 \in 1..Len(pending) - 1 /\ ~(j - 1 < k) /\ (j - 1) + 1 = j
        BY <1>2, <3>1, <3>3
      <4>2. pending'[j - 1] = pending[j]
        BY <1>3, <4>1
      <4> QED
        BY <1>3, <2>2, <4>1, <4>2
    <3> QED
      BY <3>2, <3>3
  <2> QED
    BY <2>1, <2>2
<1>6. PendingAgrees'
  BY <1>5 DEF Withdraw, PendingAgrees, TypeOK
<1>7. NoDuplicates'
  <2> SUFFICES ASSUME NEW i \in DOMAIN pending', NEW j \in DOMAIN pending',
                      pending'[i] = pending'[j]
               PROVE  i = j
    BY DEF NoDuplicates
  <2> DEFINE place(n) == IF n < k THEN n ELSE n + 1
  <2>1. ASSUME NEW n \in DOMAIN pending'
        PROVE  place(n) \in DOMAIN pending /\ pending'[n] = pending[place(n)]
    BY <1>2, <1>3, <2>1, LineFacts
  <2>2. place(i) \in DOMAIN pending /\ place(j) \in DOMAIN pending
          /\ pending[place(i)] = pending[place(j)]
    BY <2>1
  <2> HIDE DEF place
  <2>3. place(i) = place(j)
    BY <2>2 DEF NoDuplicates
  <2> QED
    BY <1>2, <1>3, <2>3 DEF place
<1>8. OutcomeAgrees'
  BY DEF Withdraw, OutcomeAgrees, TypeOK
<1>9. active # None /\ ~closed
  BY <1>2, EmptySeq DEF Withdraw, WorkConserving, ClosedIsEmpty, TypeOK
<1>10. BoundedLine'
  BY <1>2, <1>3, MaxPendingAssumption DEF BoundedLine
<1>11. WorkConserving' /\ ClosedIsEmpty'
  BY <1>9 DEF Withdraw, WorkConserving, ClosedIsEmpty
<1> QED
  BY <1>4, <1>6, <1>7, <1>8, <1>10, <1>11

LEMMA CancelKeepsBookkeeping ==
    ASSUME TypeOK, Bookkeeping, NEW c \in Cancellers, NEW r \in Requests, CancelEntry(c, r)
    PROVE  Bookkeeping'
<1>1. CASE Withdraw(c, r)
  BY <1>1, WithdrawKeepsBookkeeping
<1>2. CASE ShareSignal(c, r) \/ SendSignal(c, r) \/ AnswerInactive(c)
  BY <1>2, BookkeepingStutter DEF ShareSignal, SendSignal, AnswerInactive, bookkeepingVars
<1> QED
  BY <1>1, <1>2 DEF CancelEntry

LEMMA CloseKeepsBookkeeping == TypeOK /\ Bookkeeping /\ CloseEntries => Bookkeeping'
<1> SUFFICES ASSUME TypeOK, Bookkeeping, CloseEntries PROVE Bookkeeping'
  OBVIOUS
<1> USE DEF Bookkeeping, EntryBookkeeping
<1>1. DOMAIN pending' = {} /\ Len(pending') = 0
  BY EmptySeq, LenProperties DEF CloseEntries
<1>2. ActiveAgrees' /\ PendingAgrees'
  <2>1. \A r \in Requests : entryState'[r] \notin {"active", "pending"}
    BY DEF CloseEntries, Unsettled, TypeOK, EntryStates
  <2> QED
    BY <1>1, <2>1, NoneAssumption DEF CloseEntries, ActiveAgrees, PendingAgrees
<1>3. NoDuplicates'
  BY <1>1 DEF NoDuplicates
<1>4. OutcomeAgrees'
  BY DEF CloseEntries, Unsettled, OutcomeAgrees, TypeOK, EntryStates
<1>5. WorkConserving' /\ BoundedLine' /\ ClosedIsEmpty'
  BY <1>1, MaxPendingAssumption DEF CloseEntries, WorkConserving, BoundedLine, ClosedIsEmpty
<1> QED
  BY <1>2, <1>3, <1>4, <1>5

LEMMA BookkeepingStep ==
    TypeOK /\ Bookkeeping /\ [QueueNext]_queueVars => Bookkeeping'
<1> SUFFICES ASSUME TypeOK, Bookkeeping, [QueueNext]_queueVars PROVE Bookkeeping'
  OBVIOUS
<1>1. ASSUME NEW r \in Requests, Enqueue(r) PROVE Bookkeeping'
  BY <1>1, EnqueueKeepsBookkeeping
<1>2. ASSUME NEW r \in Requests, NEW how \in {"resolved", "rejected"}, Complete(r, how)
      PROVE  Bookkeeping'
  BY <1>2, CompleteKeepsBookkeeping
<1>3. ASSUME NEW c \in Cancellers, NEW r \in Requests, CancelTransportCall(c, r)
      PROVE  Bookkeeping'
  BY <1>3, CancelKeepsBookkeeping DEF CancelTransportCall
<1>4. ASSUME NEW c \in Cancellers, CancelActiveAnalysis(c) PROVE Bookkeeping'
  <2>1. CASE active = None
    BY <1>4, <2>1, BookkeepingStutter DEF CancelActiveAnalysis, AnswerInactive, bookkeepingVars
  <2>2. CASE active # None
    <3>1. active \in Requests /\ CancelEntry(c, active)
      BY <1>4, <2>2 DEF CancelActiveAnalysis, TypeOK
    <3> QED
      BY <3>1, CancelKeepsBookkeeping
  <2> QED
    BY <2>1, <2>2
<1>5. ASSUME NEW c \in Cancellers, NEW how \in {"acknowledged", "declined", "failed"},
             SignalSettles(c, how)
      PROVE  Bookkeeping'
  BY <1>5, BookkeepingStutter DEF SignalSettles, bookkeepingVars
<1>6. CASE Close
  BY <1>6, CloseKeepsBookkeeping DEF Close
<1>7. CASE UNCHANGED queueVars
  BY <1>7, BookkeepingStutter DEF queueVars, bookkeepingVars
<1> QED
  BY <1>1, <1>2, <1>3, <1>4, <1>5, <1>6, <1>7 DEF QueueNext

\* The active slot, the line, entry.state and the promises always tell the same
\* story; nothing waits behind an empty slot; the line respects its bound; a
\* closed queue is empty.
THEOREM BookkeepingCorrect == QueueSpec => []Bookkeeping
<1>1. QueueInit => TypeOK /\ Bookkeeping
  BY TypeInit, BookkeepingInit
<1>2. (TypeOK /\ Bookkeeping) /\ [QueueNext]_queueVars => (TypeOK /\ Bookkeeping)'
  BY TypeStep, BookkeepingStep
<1> QED
  BY <1>1, <1>2, PTL DEF QueueSpec

\* No entry waits behind an empty active slot: whichever of complete and cancelEntry
\* changes the line fills the slot.
THEOREM WorkConservingCorrect == QueueSpec => []WorkConserving
<1>1. Bookkeeping => WorkConserving
  BY DEF Bookkeeping
<1> QED
  BY <1>1, BookkeepingCorrect, PTL

-----------------------------------------------------------------------------
(* Cancellation signals                                                    *)

LEMMA OneSignalStutter == OneSignal /\ UNCHANGED signalVars => OneSignal'
BY DEF OneSignal, signalVars, Idle

LEMMA OneSignalInit == QueueInit => OneSignal
BY DEF QueueInit, OneSignal, Idle

LEMMA CancelKeepsOneSignal ==
    ASSUME TypeOK, OneSignal, NEW c \in Cancellers, NEW r \in Requests,
           Idle(c), CancelEntry(c, r)
    PROVE  OneSignal'
<1>1. CASE Withdraw(c, r) \/ AnswerInactive(c)
  BY <1>1, NoneAssumption DEF Withdraw, AnswerInactive, OneSignal, Idle, TypeOK
<1>2. CASE ShareSignal(c, r)
  BY <1>2 DEF ShareSignal, OneSignal, Idle, TypeOK
<1>3. CASE SendSignal(c, r)
  <2>1. signal[c] = "none" /\ c # None /\ r # None /\ \A q \in Requests : cancellationResult[q] # c
    BY NoneAssumption DEF OneSignal, Idle
  <2>2. /\ cancellationResult' = [cancellationResult EXCEPT ![r] = c]
        /\ signal' = [signal EXCEPT ![c] = "inFlight"]
        /\ answer' = [answer EXCEPT ![c] = c]
        /\ target' = [target EXCEPT ![c] = r]
        /\ cancellationResult[r] = None
    BY <1>3 DEF SendSignal
  <2>3. ASSUME NEW q \in Requests, cancellationResult'[q] # None
        PROVE  /\ target'[cancellationResult'[q]] = q
               /\ signal'[cancellationResult'[q]] \in {"inFlight", "acknowledged"}
    <3>1. CASE q = r
      BY <2>2, <3>1 DEF TypeOK
    <3>2. CASE q # r
      BY <2>1, <2>2, <2>3, <3>2 DEF OneSignal, TypeOK
    <3> QED
      BY <3>1, <3>2
  <2>4. ASSUME NEW d \in Cancellers, signal'[d] \in {"inFlight", "acknowledged"}
        PROVE  target'[d] # None /\ cancellationResult'[target'[d]] = d
    <3>1. CASE d = c
      BY <2>1, <2>2, <3>1 DEF TypeOK
    <3>2. CASE d # c
      <4>1. signal[d] \in {"inFlight", "acknowledged"} /\ target'[d] = target[d]
        BY <2>2, <2>4, <3>2 DEF TypeOK
      <4>2. target[d] \in Requests /\ cancellationResult[target[d]] = d
        BY <4>1 DEF OneSignal, TypeOK
      <4>3. target[d] # r
        BY <2>2, <4>2, NoneAssumption
      <4> QED
        BY <2>2, <4>1, <4>2, <4>3, NoneAssumption DEF TypeOK
    <3> QED
      BY <3>1, <3>2
  <2>5. \A d \in Cancellers : Idle(d)' => signal'[d] = "none"
    BY <2>1, <2>2 DEF OneSignal, Idle, TypeOK
  <2> QED
    BY <2>3, <2>4, <2>5 DEF OneSignal
<1> QED
  BY <1>1, <1>2, <1>3 DEF CancelEntry

LEMMA SettlingKeepsOneSignal ==
    ASSUME TypeOK, OneSignal, NEW c \in Cancellers,
           NEW how \in {"acknowledged", "declined", "failed"}, SignalSettles(c, how)
    PROVE  OneSignal'
<1>1. /\ signal[c] = "inFlight"
      /\ signal' = [signal EXCEPT ![c] = how]
      /\ target' = target /\ answer' = answer
      /\ \A r \in Requests : cancellationResult'[r] =
           IF cancellationResult[r] = c /\ how # "acknowledged" THEN None
           ELSE cancellationResult[r]
  BY DEF SignalSettles
<1>2. ASSUME NEW r \in Requests, cancellationResult'[r] # None
      PROVE  /\ target'[cancellationResult'[r]] = r
             /\ signal'[cancellationResult'[r]] \in {"inFlight", "acknowledged"}
  <2>1. cancellationResult'[r] = cancellationResult[r] /\ cancellationResult[r] \in Cancellers
    BY <1>1, <1>2 DEF TypeOK
  <2>2. /\ target[cancellationResult[r]] = r
        /\ signal[cancellationResult[r]] \in {"inFlight", "acknowledged"}
    BY <1>2, <2>1 DEF OneSignal
  <2>3. cancellationResult[r] = c => how = "acknowledged"
    BY <1>1, <1>2
  <2> QED
    BY <1>1, <2>1, <2>2, <2>3 DEF TypeOK
<1>3. ASSUME NEW d \in Cancellers, signal'[d] \in {"inFlight", "acknowledged"}
      PROVE  target'[d] # None /\ cancellationResult'[target'[d]] = d
  <2>1. signal[d] \in {"inFlight", "acknowledged"} /\ (d = c => how = "acknowledged")
    BY <1>1, <1>3 DEF TypeOK
  <2>2. target[d] \in Requests /\ target[d] # None /\ cancellationResult[target[d]] = d
    BY <2>1 DEF OneSignal, TypeOK
  <2> QED
    BY <1>1, <2>1, <2>2
<1>4. \A d \in Cancellers : Idle(d)' => signal'[d] = "none"
  BY <1>1 DEF OneSignal, Idle, TypeOK
<1> QED
  BY <1>2, <1>3, <1>4 DEF OneSignal

LEMMA OneSignalStep == TypeOK /\ OneSignal /\ [QueueNext]_queueVars => OneSignal'
<1> SUFFICES ASSUME TypeOK, OneSignal, [QueueNext]_queueVars PROVE OneSignal'
  OBVIOUS
<1>1. ASSUME NEW r \in Requests, Enqueue(r) PROVE OneSignal'
  BY <1>1, OneSignalStutter DEF Enqueue, Refuse, StartAtOnce, JoinLine
<1>2. ASSUME NEW r \in Requests, NEW how \in {"resolved", "rejected"}, Complete(r, how)
      PROVE  OneSignal'
  BY <1>2, OneSignalStutter DEF Complete
<1>3. ASSUME NEW c \in Cancellers, NEW r \in Requests, CancelTransportCall(c, r)
      PROVE  OneSignal'
  BY <1>3, CancelKeepsOneSignal DEF CancelTransportCall
<1>4. ASSUME NEW c \in Cancellers, CancelActiveAnalysis(c) PROVE OneSignal'
  <2>1. CASE active = None
    BY <1>4, <2>1, NoneAssumption
       DEF CancelActiveAnalysis, AnswerInactive, OneSignal, Idle, TypeOK
  <2>2. CASE active # None
    <3>1. active \in Requests /\ Idle(c) /\ CancelEntry(c, active)
      BY <1>4, <2>2 DEF CancelActiveAnalysis, TypeOK
    <3> QED
      BY <3>1, CancelKeepsOneSignal
  <2> QED
    BY <2>1, <2>2
<1>5. ASSUME NEW c \in Cancellers, NEW how \in {"acknowledged", "declined", "failed"},
             SignalSettles(c, how)
      PROVE  OneSignal'
  BY <1>5, SettlingKeepsOneSignal
<1>6. CASE Close
  BY <1>6, OneSignalStutter DEF Close
<1>7. CASE UNCHANGED queueVars
  BY <1>7, OneSignalStutter DEF queueVars, signalVars
<1> QED
  BY <1>1, <1>2, <1>3, <1>4, <1>5, <1>6, <1>7 DEF QueueNext

\* No two cancellation signals are ever in flight for one entry.
THEOREM OneSignalCorrect == QueueSpec => []OneSignal
<1>1. QueueInit => TypeOK /\ OneSignal
  BY TypeInit, OneSignalInit
<1>2. (TypeOK /\ OneSignal) /\ [QueueNext]_queueVars => (TypeOK /\ OneSignal)'
  BY TypeStep, OneSignalStep
<1> QED
  BY <1>1, <1>2, PTL DEF QueueSpec

\* No entry is sent a second signal after one was acknowledged.
THEOREM NoSignalAfterAcknowledgementCorrect == QueueSpec => NoSignalAfterAcknowledgement
<1> DEFINE Respected == \A c, d \in Cancellers :
             signal[c] = "acknowledged" /\ signal[d] = "none" /\ signal'[d] # "none"
             => target'[d] # target[c]
<1>1. TypeOK /\ OneSignal /\ [QueueNext]_queueVars => [Respected]_queueVars
  <2> SUFFICES ASSUME TypeOK, OneSignal, QueueNext, NEW c \in Cancellers, NEW d \in Cancellers,
                      signal[c] = "acknowledged", signal[d] = "none", signal'[d] # "none"
               PROVE  target'[d] # target[c]
    BY DEF Respected
  <2>1. target[c] \in Requests /\ cancellationResult[target[c]] = c /\ c # None
    BY NoneAssumption DEF OneSignal, TypeOK
  <2>2. ASSUME NEW x \in Cancellers, NEW r \in Requests, CancelEntry(x, r)
        PROVE  target'[d] # target[c]
    <3>1. SendSignal(x, r)
      BY <2>2 DEF CancelEntry, Withdraw, AnswerInactive, ShareSignal
    <3>2. d = x
      BY <3>1 DEF SendSignal, TypeOK
    <3>3. target'[d] = r /\ cancellationResult[r] = None
      BY <3>1, <3>2 DEF SendSignal, TypeOK
    <3> QED
      BY <2>1, <3>3
  <2>3. ASSUME NEW x \in Cancellers, CancelActiveAnalysis(x) PROVE target'[d] # target[c]
    <3>1. active # None
      BY <2>3 DEF CancelActiveAnalysis, AnswerInactive
    <3>2. active \in Requests /\ CancelEntry(x, active)
      BY <2>3, <3>1 DEF CancelActiveAnalysis, TypeOK
    <3> QED
      BY <2>2, <3>2
  <2>4. ASSUME NEW x \in Cancellers, NEW how \in {"acknowledged", "declined", "failed"}
        PROVE  ~SignalSettles(x, how)
    BY DEF SignalSettles, TypeOK
  <2>5. ASSUME NEW r \in Requests PROVE ~Enqueue(r)
    BY DEF Enqueue, Refuse, StartAtOnce, JoinLine, signalVars
  <2>6. ASSUME NEW r \in Requests, NEW how \in {"resolved", "rejected"}
        PROVE  ~Complete(r, how)
    BY DEF Complete, signalVars
  <2>7. ~Close
    BY DEF Close, signalVars
  <2> QED
    BY <2>2, <2>3, <2>4, <2>5, <2>6, <2>7 DEF QueueNext, CancelTransportCall
<1> QED
  BY <1>1, TypeCorrect, OneSignalCorrect, PTL DEF QueueSpec, NoSignalAfterAcknowledgement

LEMMA OutcomeKept ==
    ASSUME TypeOK, OutcomeAgrees, [QueueNext]_queueVars \/ CloseEntries,
           NEW r \in Requests, outcome[r] # "open"
    PROVE  outcome'[r] = outcome[r]
<1>1. entryState[r] \notin {"active", "pending"}
  BY DEF OutcomeAgrees
<1>2. ASSUME NEW q \in Requests, Enqueue(q) PROVE outcome'[r] = outcome[r]
  BY <1>2 DEF Enqueue, New, Refuse, StartAtOnce, JoinLine, TypeOK
<1>3. ASSUME NEW q \in Requests, NEW how \in {"resolved", "rejected"}, Complete(q, how)
      PROVE  outcome'[r] = outcome[r]
  BY <1>1, <1>3 DEF Complete, TypeOK
<1>4. ASSUME NEW c \in Cancellers, NEW q \in Requests, CancelEntry(c, q)
      PROVE  outcome'[r] = outcome[r]
  BY <1>1, <1>4 DEF CancelEntry, Withdraw, AnswerInactive, ShareSignal, SendSignal, TypeOK
<1>5. ASSUME NEW c \in Cancellers, CancelActiveAnalysis(c)
      PROVE  outcome'[r] = outcome[r]
  <2>1. CASE active = None
    BY <1>5, <2>1 DEF CancelActiveAnalysis, AnswerInactive
  <2>2. CASE active # None
    <3>1. active \in Requests /\ CancelEntry(c, active)
      BY <1>5, <2>2 DEF CancelActiveAnalysis, TypeOK
    <3> QED
      BY <1>4, <3>1
  <2> QED
    BY <2>1, <2>2
<1>6. ASSUME NEW c \in Cancellers, NEW how \in {"acknowledged", "declined", "failed"},
             SignalSettles(c, how)
      PROVE  outcome'[r] = outcome[r]
  BY <1>6 DEF SignalSettles
<1>7. CASE CloseEntries
  BY <1>1, <1>7 DEF CloseEntries, Unsettled, TypeOK
<1> QED
  BY <1>2, <1>3, <1>4, <1>5, <1>6, <1>7 DEF QueueNext, CancelTransportCall, Close, queueVars

\* The promise of a request settles at most once.
THEOREM SettledOnceCorrect == QueueSpec => SettledOnce
<1> DEFINE Kept == \A r \in Requests : outcome[r] # "open" => outcome'[r] = outcome[r]
<1>1. TypeOK /\ OutcomeAgrees /\ [QueueNext]_queueVars => [Kept]_queueVars
  BY OutcomeKept
<1>2. Bookkeeping => OutcomeAgrees
  BY DEF Bookkeeping, EntryBookkeeping
<1> QED
  BY <1>1, <1>2, TypeCorrect, BookkeepingCorrect, PTL DEF QueueSpec, SettledOnce

-----------------------------------------------------------------------------
(* AnalysisQueue implements AnalysisLine: the active entry followed by the *)
(* pending ones is the bounded line of the abstract specification.         *)

\* The refinement mapping of AnalysisQueue!Line.
TheLine == IF active = None THEN <<>> ELSE <<active>> \o pending

LEMMA ConsProperties ==
    ASSUME NEW S, NEW a \in S, NEW p \in Seq(S)
    PROVE  /\ <<a>> \o p \in Seq(S)
           /\ Len(p) \in Nat
           /\ DOMAIN p = 1..Len(p)
           /\ Len(<<a>> \o p) = Len(p) + 1
           /\ DOMAIN (<<a>> \o p) = 1..Len(p) + 1
           /\ (<<a>> \o p)[1] = a
           /\ \A i \in 1..Len(p) : (<<a>> \o p)[i + 1] = p[i]
           /\ \A i \in 2..Len(p) + 1 : (<<a>> \o p)[i] = p[i - 1]
<1>1. Len(p) \in Nat /\ DOMAIN p = 1..Len(p)
  BY LenProperties
<1>2. <<a>> \in Seq(S) /\ Len(<<a>>) = 1 /\ <<a>>[1] = a
  OBVIOUS
<1>3. /\ <<a>> \o p \in Seq(S)
      /\ Len(<<a>> \o p) = 1 + Len(p)
      /\ \A i \in 1..1 + Len(p) : (<<a>> \o p)[i] =
           IF i <= 1 THEN <<a>>[i] ELSE p[i - 1]
  BY <1>2, ConcatProperties
<1>4. DOMAIN (<<a>> \o p) = 1..Len(p) + 1 /\ Len(<<a>> \o p) = Len(p) + 1
  BY <1>1, <1>3, LenProperties
<1>5. (<<a>> \o p)[1] = a
  BY <1>1, <1>2, <1>3
<1>6. ASSUME NEW i \in 2..Len(p) + 1 PROVE (<<a>> \o p)[i] = p[i - 1]
  <2>1. i \in 1..1 + Len(p) /\ ~(i <= 1)
    BY <1>1
  <2> QED
    BY <1>3, <2>1
<1>7. ASSUME NEW i \in 1..Len(p) PROVE (<<a>> \o p)[i + 1] = p[i]
  <2>1. i + 1 \in 2..Len(p) + 1 /\ (i + 1) - 1 = i
    BY <1>1
  <2> QED
    BY <1>6, <2>1
<1> QED
  BY <1>1, <1>3, <1>4, <1>5, <1>6, <1>7

\* The same position counted from one or from two.
LEMMA ConsRemoveAt ==
    ASSUME NEW S, NEW a \in S, NEW p \in Seq(S), NEW k \in DOMAIN p
    PROVE  RemoveAt(<<a>> \o p, k + 1) = <<a>> \o RemoveAt(p, k)
<1> DEFINE long == <<a>> \o p
           left == RemoveAt(long, k + 1)
           short == RemoveAt(p, k)
           right == <<a>> \o short
<1>1. /\ Len(p) \in Nat /\ k \in 1..Len(p) /\ long \in Seq(S)
      /\ Len(long) = Len(p) + 1 /\ DOMAIN long = 1..Len(p) + 1 /\ k + 1 \in DOMAIN long
      /\ long[1] = a /\ \A i \in 1..Len(p) : long[i + 1] = p[i]
  BY ConsProperties
<1>2. /\ short \in Seq(S) /\ Len(short) = Len(p) - 1
      /\ \A j \in 1..Len(p) - 1 : short[j] = IF j < k THEN p[j] ELSE p[j + 1]
  BY RemoveAtProperties
<1> HIDE DEF long, short
<1>3. /\ left \in Seq(S) /\ Len(left) = Len(long) - 1
      /\ \A j \in 1..Len(long) - 1 : left[j] = IF j < k + 1 THEN long[j] ELSE long[j + 1]
  BY <1>1, RemoveAtProperties
<1>4. /\ right \in Seq(S) /\ Len(right) = Len(short) + 1 /\ right[1] = a
      /\ \A i \in 2..Len(short) + 1 : right[i] = short[i - 1]
  BY <1>2, ConsProperties
<1> HIDE DEF left, right
<1>5. Len(left) = Len(p) /\ Len(right) = Len(p)
  BY <1>1, <1>2, <1>3, <1>4
<1>6. ASSUME NEW j \in 1..Len(p) PROVE left[j] = right[j]
  <2>1. left[j] = IF j < k + 1 THEN long[j] ELSE long[j + 1]
    BY <1>1, <1>3
  <2>2. CASE j = 1
    BY <1>1, <1>4, <2>1, <2>2
  <2>3. CASE j # 1
    <3>1. j - 1 \in 1..Len(p) - 1 /\ j \in 2..Len(short) + 1 /\ (j - 1) + 1 = j
      BY <1>1, <1>2, <2>3
    <3>2. right[j] = IF j - 1 < k THEN p[j - 1] ELSE p[j]
      BY <1>2, <1>4, <3>1
    <3>3. long[j] = p[j - 1] /\ long[j + 1] = p[j]
      <4>1. j - 1 \in 1..Len(p)
        BY <1>1, <2>3
      <4> QED
        BY <1>1, <3>1, <4>1
    <3>4. j < k + 1 <=> j - 1 < k
      BY <1>1
    <3> QED
      BY <2>1, <3>2, <3>3, <3>4
  <2> QED
    BY <2>2, <2>3
<1>7. left = right
  BY <1>3, <1>4, <1>5, <1>6, SeqEqual
<1> QED
  BY <1>7 DEF left, right, long, short

LEMMA LineWhenActive ==
    ASSUME TypeOK, active # None
    PROVE  /\ TheLine = <<active>> \o pending
           /\ TheLine \in Seq(Requests)
           /\ Len(TheLine) = Len(pending) + 1
           /\ DOMAIN TheLine = 1..Len(pending) + 1
           /\ TheLine[1] = active
           /\ \A i \in 1..Len(pending) : TheLine[i + 1] = pending[i]
BY ConsProperties DEF TypeOK, TheLine

LEMMA LineWhenIdle ==
    ASSUME active = None
    PROVE  TheLine = <<>> /\ TheLine \in Seq(Requests) /\ Len(TheLine) = 0 /\ DOMAIN TheLine = {}
BY EmptySeq, LenProperties DEF TheLine

\* A request is in the line exactly while its entry is not settled.
LEMMA WaitingIsUnsettled ==
    ASSUME TypeOK, Bookkeeping, NEW r \in Requests
    PROVE  (\E i \in DOMAIN TheLine : TheLine[i] = r) <=> entryState[r] \in {"active", "pending"}
<1> USE DEF Bookkeeping, EntryBookkeeping
<1>1. CASE active = None
  <2>1. pending = <<>> /\ DOMAIN pending = {}
    BY <1>1, LenProperties, EmptySeq DEF WorkConserving
  <2>2. r # None
    BY NoneAssumption
  <2> QED
    BY <1>1, <2>1, <2>2, LineWhenIdle DEF ActiveAgrees, PendingAgrees
<1>2. CASE active # None
  <2>1. ASSUME NEW i \in DOMAIN TheLine, TheLine[i] = r
        PROVE  entryState[r] \in {"active", "pending"}
    <3>1. CASE i = 1
      BY <1>2, <2>1, <3>1, LineWhenActive DEF ActiveAgrees
    <3>2. CASE i # 1
      <4>1. i - 1 \in DOMAIN pending /\ i - 1 \in 1..Len(pending) /\ (i - 1) + 1 = i
        BY <1>2, <2>1, <3>2, LineWhenActive, LineFacts
      <4>2. TheLine[i] = pending[i - 1]
        BY <1>2, <4>1, LineWhenActive
      <4> QED
        BY <2>1, <4>1, <4>2 DEF PendingAgrees
    <3> QED
      BY <3>1, <3>2
  <2>2. ASSUME entryState[r] = "active"
        PROVE  \E i \in DOMAIN TheLine : TheLine[i] = r
    <3>1. active = r /\ 1 \in DOMAIN TheLine
      BY <1>2, <2>2, LineWhenActive, LineFacts DEF ActiveAgrees
    <3> QED
      BY <1>2, <3>1, LineWhenActive
  <2>3. ASSUME entryState[r] = "pending"
        PROVE  \E i \in DOMAIN TheLine : TheLine[i] = r
    <3>1. PICK j \in DOMAIN pending : pending[j] = r
      BY <2>3 DEF PendingAgrees
    <3>2. j \in 1..Len(pending) /\ j + 1 \in DOMAIN TheLine
      BY <1>2, <3>1, LineWhenActive, LineFacts
    <3> QED
      BY <1>2, <3>1, <3>2, LineWhenActive
  <2> QED
    BY <2>1, <2>2, <2>3
<1> QED
  BY <1>1, <1>2

-----------------------------------------------------------------------------
(* Every step of the queue is a step of the line or leaves it alone        *)

\* The action of the line each step of the queue maps to.
LineStep == [Line!Next]_(<<TheLine, outcome, closed>>)

LEMMA LineInit == QueueInit => Line!Init
BY DEF QueueInit, Line!Init

LEMMA LineUnchanged ==
    UNCHANGED bookkeepingVars => UNCHANGED <<TheLine, outcome, closed>>
BY DEF bookkeepingVars, TheLine

LEMMA EnqueueMapsToLine ==
    ASSUME TypeOK, Bookkeeping, NEW r \in Requests, Enqueue(r)
    PROVE  Line!Admit(r) \/ Line!TurnAway(r)
<1>1. ~Line!Waiting(r) /\ outcome[r] = "open"
  BY WaitingIsUnsettled DEF Enqueue, New, Line!Waiting, TheLine
<1>2. CASE Refuse(r)
  <2>1. TheLine' = TheLine /\ closed' = closed
    BY <1>2 DEF Refuse, TheLine
  <2>2. CASE closed
    BY <1>1, <1>2, <2>1, <2>2 DEF Refuse, Line!TurnAway, TheLine
  <2>3. CASE ~closed
    <3>1. active # None /\ Len(pending) = MaxPending
      <4>1. active # None /\ Len(pending) >= MaxPending
        BY <1>2, <2>3 DEF Refuse, Full
      <4>2. Len(pending) <= MaxPending
        BY DEF Bookkeeping, BoundedLine
      <4>3. Len(pending) \in Nat
        BY LineFacts
      <4> QED
        BY <4>1, <4>2, <4>3, MaxPendingAssumption
    <3>2. Len(TheLine) = MaxPending + 1
      BY <3>1, LineWhenActive
    <3> QED
      BY <1>1, <1>2, <2>1, <2>3, <3>2 DEF Refuse, Line!TurnAway, TheLine
  <2> QED
    BY <2>2, <2>3
<1>3. CASE StartAtOnce(r)
  <2>1. TheLine = <<>> /\ Len(TheLine) = 0
    BY <1>3, LineWhenIdle DEF StartAtOnce
  <2>2. pending' = <<>> /\ active' = r /\ r # None
    BY <1>3, NoneAssumption DEF StartAtOnce, Bookkeeping, WorkConserving
  <2>3. TheLine' = Append(TheLine, r)
    <3>1. <<r>> \o <<>> = <<r>> /\ Append(<<>>, r) = <<r>>
      BY ConcatEmptySeq
    <3> QED
      BY <2>1, <2>2, <3>1 DEF TheLine
  <2> QED
    BY <1>1, <1>3, <2>1, <2>3, MaxPendingAssumption DEF StartAtOnce, Line!Admit, TheLine
<1>4. CASE JoinLine(r)
  <2>1. active # None /\ active' = active /\ pending' = Append(pending, r)
    BY <1>4 DEF JoinLine
  <2>2. Len(TheLine) <= MaxPending
    BY <1>4, LineFacts, LineWhenActive, MaxPendingAssumption DEF JoinLine, Full
  <2>3. TheLine' = Append(TheLine, r)
    <3>1. /\ TheLine' = <<active>> \o Append(pending, r)
          /\ TheLine = <<active>> \o pending
      BY <2>1 DEF TheLine
    <3>2. active \in Requests /\ pending \in Seq(Requests)
      BY <2>1 DEF TypeOK
    <3>3. /\ Append(pending, r) = pending \o <<r>>
          /\ Append(<<active>> \o pending, r) = (<<active>> \o pending) \o <<r>>
      BY <3>2, AppendIsConcat, ConsProperties
    <3>4. (<<active>> \o pending) \o <<r>> = <<active>> \o (pending \o <<r>>)
      BY <3>2, ConcatAssociative
    <3> QED
      BY <3>1, <3>3, <3>4
  <2> QED
    BY <1>1, <1>4, <2>2, <2>3 DEF JoinLine, Line!Admit, TheLine
<1> QED
  BY <1>2, <1>3, <1>4 DEF Enqueue

LEMMA CompleteMapsToLine ==
    ASSUME TypeOK, Bookkeeping, NEW r \in Requests, NEW how \in {"resolved", "rejected"},
           Complete(r, how)
    PROVE  Line!Finish
<1>1. active = r /\ r # None
  BY NoneAssumption DEF Complete
<1>2. /\ TheLine = <<r>> \o pending /\ TheLine \in Seq(Requests)
      /\ Len(TheLine) = Len(pending) + 1 /\ Len(pending) \in Nat /\ TheLine[1] = r
      /\ \A i \in 1..Len(pending) : TheLine[i + 1] = pending[i]
  BY <1>1, LineWhenActive, LineFacts
<1>3. TheLine # <<>>
  BY <1>2, EmptySeq
<1>4. Head(TheLine) = r
  BY <1>2, <1>3
<1>5. Tail(TheLine) = pending
  <2>1. /\ Tail(TheLine) \in Seq(Requests)
        /\ Len(Tail(TheLine)) = Len(TheLine) - 1
        /\ \A i \in 1..Len(Tail(TheLine)) : Tail(TheLine)[i] = TheLine[i + 1]
    BY <1>2, <1>3, HeadTailProperties
  <2>2. Len(Tail(TheLine)) = Len(pending)
    BY <1>2, <2>1
  <2>3. \A i \in 1..Len(Tail(TheLine)) : Tail(TheLine)[i] = pending[i]
    BY <1>2, <2>1, <2>2
  <2>4. pending \in Seq(Requests)
    BY DEF TypeOK
  <2> QED
    BY <2>1, <2>2, <2>3, <2>4, SeqEqual
<1>6. TheLine' = pending
  <2>1. CASE pending = <<>>
    BY <2>1 DEF Complete, StartNext, TheLine
  <2>2. CASE pending # <<>>
    <3>1. /\ Head(pending) \in Requests /\ Head(pending) = pending[1]
          /\ Tail(pending) \in Seq(Requests) /\ Len(Tail(pending)) = Len(pending) - 1
          /\ \A i \in 1..Len(pending) - 1 : Tail(pending)[i] = pending[i + 1]
          /\ Len(pending) > 0
      BY <2>2, LineFacts
    <3>2. TheLine' = <<Head(pending)>> \o Tail(pending)
      BY <2>2, <3>1, NoneAssumption DEF Complete, StartNext, TheLine
    <3> DEFINE again == <<Head(pending)>> \o Tail(pending)
    <3>3. /\ again \in Seq(Requests) /\ Len(again) = Len(pending)
          /\ again[1] = Head(pending)
          /\ \A i \in 2..Len(pending) : again[i] = Tail(pending)[i - 1]
      <4>1. /\ again \in Seq(Requests) /\ Len(again) = Len(Tail(pending)) + 1
            /\ again[1] = Head(pending)
            /\ \A i \in 2..Len(Tail(pending)) + 1 : again[i] = Tail(pending)[i - 1]
        BY <3>1, ConsProperties
      <4>2. Len(Tail(pending)) + 1 = Len(pending)
        BY <1>2, <3>1
      <4> QED
        BY <4>1, <4>2
    <3> HIDE DEF again
    <3>4. ASSUME NEW i \in 1..Len(pending) PROVE again[i] = pending[i]
      <4>1. CASE i = 1
        BY <3>1, <3>3, <4>1
      <4>2. CASE i # 1
        <5>1. i \in 2..Len(pending) /\ i - 1 \in 1..Len(pending) - 1 /\ (i - 1) + 1 = i
          BY <1>2, <4>2
        <5> QED
          BY <3>1, <3>3, <5>1
      <4> QED
        BY <4>1, <4>2
    <3>5. pending \in Seq(Requests)
      BY DEF TypeOK
    <3>6. again = pending
      BY <3>3, <3>4, <3>5, SeqEqual
    <3> QED
      BY <3>2, <3>6 DEF again
  <2> QED
    BY <2>1, <2>2
<1>7. outcome' = [outcome EXCEPT ![Head(TheLine)] = how] /\ closed' = closed
  BY <1>4 DEF Complete
<1> QED
  BY <1>3, <1>5, <1>6, <1>7 DEF Line!Finish, TheLine

LEMMA WithdrawMapsToLine ==
    ASSUME TypeOK, Bookkeeping, NEW c \in Cancellers, NEW r \in Requests, Withdraw(c, r)
    PROVE  Line!Leave(r)
<1>1. PICK k \in DOMAIN pending : pending[k] = r /\ pending' = RemoveAt(pending, k)
  BY DEF Withdraw
<1>2. k \in 1..Len(pending) /\ Len(pending) \in Nat
  BY <1>1, LineFacts
<1>3. active # None /\ active \in Requests
  BY <1>2, EmptySeq DEF TypeOK, Bookkeeping, WorkConserving
<1>4. /\ TheLine = <<active>> \o pending
      /\ k + 1 \in DOMAIN TheLine \ {1}
      /\ TheLine[k + 1] = r
  BY <1>1, <1>2, <1>3, LineWhenActive
<1>5. TheLine' = RemoveAt(TheLine, k + 1)
  <2>1. TheLine' = <<active>> \o RemoveAt(pending, k)
    BY <1>1, <1>3 DEF Withdraw, TheLine
  <2>2. pending \in Seq(Requests)
    BY DEF TypeOK
  <2> QED
    BY <1>1, <1>3, <1>4, <2>1, <2>2, ConsRemoveAt
<1>6. \E i \in DOMAIN TheLine \ {1} : TheLine[i] = r /\ TheLine' = RemoveAt(TheLine, i)
  BY <1>4, <1>5
<1>7. outcome' = [outcome EXCEPT ![r] = "cancelled"] /\ UNCHANGED closed
  BY DEF Withdraw
<1> QED
  BY <1>6, <1>7 DEF Line!Leave, Line!RemoveAt, RemoveAt, TheLine

LEMMA CancelMapsToLine ==
    ASSUME TypeOK, Bookkeeping, NEW c \in Cancellers, NEW r \in Requests, CancelEntry(c, r)
    PROVE  LineStep
<1>1. CASE Withdraw(c, r)
  BY <1>1, WithdrawMapsToLine DEF LineStep, Line!Next
<1>2. CASE ShareSignal(c, r) \/ SendSignal(c, r) \/ AnswerInactive(c)
  BY <1>2, LineUnchanged
     DEF ShareSignal, SendSignal, AnswerInactive, bookkeepingVars, LineStep
<1> QED
  BY <1>1, <1>2 DEF CancelEntry

LEMMA CloseMapsToLine ==
    ASSUME TypeOK, Bookkeeping, ~closed, CloseEntries
    PROVE  Line!Shut
<1>1. TheLine' = <<>>
  BY DEF CloseEntries, TheLine
<1>2. ASSUME NEW r \in Requests PROVE r \in Unsettled <=> Line!Waiting(r)
  BY WaitingIsUnsettled DEF Unsettled, Line!Waiting, TheLine
<1> QED
  BY <1>1, <1>2 DEF CloseEntries, Line!Shut, TheLine

LEMMA EveryStepMapsToLine ==
    TypeOK /\ Bookkeeping /\ [QueueNext]_queueVars => LineStep
<1> SUFFICES ASSUME TypeOK, Bookkeeping, [QueueNext]_queueVars PROVE LineStep
  OBVIOUS
<1>1. ASSUME NEW r \in Requests, Enqueue(r) PROVE LineStep
  BY <1>1, EnqueueMapsToLine DEF LineStep, Line!Next
<1>2. ASSUME NEW r \in Requests, NEW how \in {"resolved", "rejected"}, Complete(r, how)
      PROVE  LineStep
  BY <1>2, CompleteMapsToLine DEF LineStep, Line!Next
<1>3. ASSUME NEW c \in Cancellers, NEW r \in Requests, CancelTransportCall(c, r)
      PROVE  LineStep
  BY <1>3, CancelMapsToLine DEF CancelTransportCall
<1>4. ASSUME NEW c \in Cancellers, CancelActiveAnalysis(c) PROVE LineStep
  <2>1. CASE active = None
    BY <1>4, <2>1, LineUnchanged
       DEF CancelActiveAnalysis, AnswerInactive, bookkeepingVars, LineStep
  <2>2. CASE active # None
    <3>1. active \in Requests /\ CancelEntry(c, active)
      BY <1>4, <2>2 DEF CancelActiveAnalysis, TypeOK
    <3> QED
      BY <3>1, CancelMapsToLine
  <2> QED
    BY <2>1, <2>2
<1>5. ASSUME NEW c \in Cancellers, NEW how \in {"acknowledged", "declined", "failed"},
             SignalSettles(c, how)
      PROVE  LineStep
  BY <1>5, LineUnchanged DEF SignalSettles, bookkeepingVars, LineStep
<1>6. CASE Close
  BY <1>6, CloseMapsToLine DEF Close, LineStep, Line!Next
<1>7. CASE UNCHANGED queueVars
  BY <1>7, LineUnchanged DEF queueVars, bookkeepingVars, LineStep
<1> QED
  BY <1>1, <1>2, <1>3, <1>4, <1>5, <1>6, <1>7 DEF QueueNext

\* The queue class implements the bounded first-in first-out line: requests
\* execute one at a time in the order of admission, only waiting ones leave,
\* admission fails exactly at the bound or after close.
THEOREM QueueImplementsLine == QueueSpec => LineSpec
<1>1. QueueInit => TypeOK /\ Bookkeeping
  BY TypeInit, BookkeepingInit
<1>2. (TypeOK /\ Bookkeeping) /\ [QueueNext]_queueVars => (TypeOK /\ Bookkeeping)'
  BY TypeStep, BookkeepingStep
<1>3. (TypeOK /\ Bookkeeping) /\ [QueueNext]_queueVars => [Line!Next]_(Line!vars)
  BY EveryStepMapsToLine DEF LineStep, Line!vars, TheLine
<1>4. QueueInit => Line!Init
  BY LineInit
<1> QED
  BY <1>1, <1>2, <1>3, <1>4, PTL DEF QueueSpec, LineSpec, Line!Spec
=============================================================================
