---------------------------- MODULE ResultStream ----------------------------
(* What a stream call is promised by the server, and all that the client    *)
(* assumes of it: the results of the files, the metadata and OK, in this    *)
(* order; or, at any point before the metadata, a message that the analysis *)
(* was cancelled, and OK; or an error.  The server never answers CANCELLED. *)
EXTENDS Naturals, Sequences

CONSTANT Files  \* how many results an analysis has

VARIABLES
    sent,   \* the messages that were sent: "file", "meta" or "cancelled" each
    ended   \* how the stream ended

vars == <<sent, ended>>

Init == sent = <<>> /\ ended = "none"

\* gRPC drops what is handed to a call after its error.
Open == ended # "ok"

\* Nothing follows the metadata or the cancellation, and OK follows only them.
ResultsOnly == \A i \in DOMAIN sent : sent[i] = "file"

SendResult ==
    /\ Open /\ ResultsOnly
    /\ Len(sent) < Files
    /\ sent' = Append(sent, "file")
    /\ UNCHANGED ended

SendMetadata ==
    /\ Open /\ ResultsOnly
    /\ Len(sent) = Files
    /\ sent' = Append(sent, "meta")
    /\ UNCHANGED ended

SendCancelled ==
    /\ Open /\ ResultsOnly
    /\ sent' = Append(sent, "cancelled")
    /\ UNCHANGED ended

EndOk ==
    /\ ended = "none"
    /\ ~ResultsOnly
    /\ ended' = "ok"
    /\ UNCHANGED sent

EndError ==
    /\ ended = "none"
    /\ ended' = "error"
    /\ UNCHANGED sent

Next == SendResult \/ SendMetadata \/ SendCancelled \/ EndOk \/ EndError

Spec == Init /\ [][Next]_vars
=============================================================================
