---------------------------- MODULE AnalysisLine ----------------------------
(* What the analysis request queue promises to the calls it serves, without *)
(* entries, promises or cancellation signals: the admitted requests form    *)
(* one line in the order of admission, its first request executes, the      *)
(* others wait.  docs/sonarlint-analyze-project-concurrency.md describes    *)
(* it; the definitions state what analyze-project-server-queue.ts does.     *)
EXTENDS Naturals, Sequences, SequencesExt

CONSTANTS Requests, MaxPending

VARIABLES
    line,     \* the executing request, then those that wait
    outcome,  \* what each request was told
    shut      \* no request is admitted any more

vars == <<line, outcome, shut>>

Init ==
    /\ line = <<>>
    /\ outcome = [r \in Requests |-> "open"]
    /\ shut = FALSE

Waiting(r) == \E i \in DOMAIN line : line[i] = r

\* One request executes and MaxPending wait.
Admit(r) ==
    /\ ~shut
    /\ ~Waiting(r)
    /\ outcome[r] = "open"
    /\ Len(line) <= MaxPending
    /\ line' = Append(line, r)
    /\ UNCHANGED <<outcome, shut>>

TurnAway(r) ==
    /\ ~Waiting(r)
    /\ outcome[r] = "open"
    /\ \/ shut /\ outcome' = [outcome EXCEPT ![r] = "refused"]
       \/ /\ ~shut
          /\ Len(line) = MaxPending + 1
          /\ outcome' = [outcome EXCEPT ![r] = "full"]
    /\ UNCHANGED <<line, shut>>

\* Only the head of the line is ever resolved or rejected.
Finish ==
    /\ line # <<>>
    /\ \E how \in {"resolved", "rejected"} :
         outcome' = [outcome EXCEPT ![Head(line)] = how]
    /\ line' = Tail(line)
    /\ UNCHANGED shut

\* A request that has not started may leave; the head may not.
Leave(r) ==
    /\ \E i \in DOMAIN line \ {1} :
         line[i] = r /\ line' = RemoveAt(line, i)
    /\ outcome' = [outcome EXCEPT ![r] = "cancelled"]
    /\ UNCHANGED shut

Shut ==
    /\ ~shut
    /\ shut' = TRUE
    /\ line' = <<>>
    /\ outcome' = [r \in Requests |-> IF Waiting(r) THEN "closed" ELSE outcome[r]]

Next ==
    \/ \E r \in Requests : Admit(r) \/ TurnAway(r) \/ Leave(r)
    \/ Finish
    \/ Shut

Spec == Init /\ [][Next]_vars
=============================================================================
