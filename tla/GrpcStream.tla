------------------------------ MODULE GrpcStream ------------------------------
(***************************************************************************)
(* What a server-streaming gRPC call promises its client, independent of   *)
(* how backpressure is handled: the values the handler's observable        *)
(* produced reach the call in order, without gaps or duplicates; an error  *)
(* is sent only when the observable failed and only after every value; the *)
(* call is ended once, after everything, unless the peer cancelled it, and *)
(* nothing is sent after the end.  GrpcWriter refines this specification.  *)
(***************************************************************************)
EXTENDS Naturals, Sequences

CONSTANT MaxValues          \* how many values the producer may emit

VARIABLES
    produced,   \* values the source observable has emitted so far
    srcState,   \* "active" | "done" (completed) | "failed" (errored)
    sent,       \* values written to the call, in order
    errorSent,  \* the call has been sent an error
    ended,      \* the call has been ended
    cancelled   \* the peer cancelled the call

vars == <<produced, srcState, sent, errorSent, ended, cancelled>>

Init ==
    /\ produced = <<>>
    /\ srcState = "active"
    /\ sent = <<>>
    /\ errorSent = FALSE
    /\ ended = FALSE
    /\ cancelled = FALSE

\* The closing step: only once everything produced has been sent, and with
\* an error exactly when the source failed.
CloseAfterAll ==
    /\ srcState' \in {"done", "failed"}
    /\ sent' = produced'
    /\ ended' = TRUE
    /\ errorSent' = (srcState' = "failed")

\* The source emits its next value; it may be sent to the call at once.
Produce ==
    /\ ~ended
    /\ srcState = "active"
    /\ Len(produced) < MaxValues
    /\ produced' = Append(produced, Len(produced) + 1)
    /\ \/ sent' = sent
       \/ sent = produced /\ sent' = produced'
    /\ UNCHANGED <<srcState, errorSent, ended, cancelled>>

\* Some more of the produced values are sent, possibly closing the call.
Transmit ==
    /\ ~ended
    /\ \E n \in Len(sent) + 1 .. Len(produced) : sent' = SubSeq(produced, 1, n)
    /\ \/ UNCHANGED <<errorSent, ended>>
       \/ CloseAfterAll
    /\ UNCHANGED <<produced, srcState, cancelled>>

\* The source completes or fails, possibly closing the call at once.
Terminate ==
    /\ ~ended
    /\ srcState = "active"
    /\ srcState' \in {"done", "failed"}
    /\ \/ UNCHANGED <<sent, errorSent, ended>>
       \/ CloseAfterAll
    /\ UNCHANGED <<produced, cancelled>>

\* The call closes after everything was sent.
Finish ==
    /\ ~ended
    /\ UNCHANGED srcState
    /\ CloseAfterAll
    /\ UNCHANGED <<produced, cancelled>>

\* The peer cancels: the call ends at once, without an error.
Cancel ==
    /\ ~ended
    /\ cancelled' = TRUE
    /\ ended' = TRUE
    /\ UNCHANGED <<produced, srcState, sent, errorSent>>

Next == Produce \/ Transmit \/ Terminate \/ Finish \/ Cancel

Spec == Init /\ [][Next]_vars
================================================================================
