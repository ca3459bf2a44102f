------------------------------ MODULE GrpcWriter ------------------------------
(***************************************************************************)
(* ServerGrpc.writeObservableToGrpc (server-grpc.js 191-279): drains the   *)
(* handler's result observable into a gRPC server call whose write()       *)
(* returns false once the call's buffer reaches its high-water mark and    *)
(* which emits 'drain' when that buffer has emptied, and 'cancelled' when  *)
(* the peer cancels.                                                       *)
(*                                                                         *)
(* Actors, each step one event-loop turn: the source observable (next,    *)
(* error, complete), the call's transport (flushing buffered messages to   *)
(* the peer, emitting 'drain'), and the peer (cancelling).  Values are the *)
(* numbers 1, 2, ... in emission order, so order and loss are observable.  *)
(***************************************************************************)
EXTENDS Integers, Sequences, SequencesExt

CONSTANTS
    MaxValues,      \* how many values the source observable emits at most
    HighWaterMark   \* messages the call buffers before write() returns false

ASSUME MaxValues \in Nat /\ HighWaterMark \in Nat \ {0}

VARIABLES
    \* the source observable
    produced,                    \* values it has emitted (history)
    srcState,                    \* "active" | "done" | "failed"
    \* the closure of writeObservableToGrpc
    valuesWaitingToBeDrained,
    writing,
    shouldResolveAfterDraining,
    shouldErrorAfterDraining,
    closed,                      \* subscription unsubscribed (and promise resolved)
    \* the gRPC call
    wire,                        \* what the call was given: data, error, end
    sinkLen,                     \* messages buffered in the call, not yet flushed
    needDrain,                   \* write() returned false since the last 'drain'
    drainPending,                \* a 'drain' event is queued on the event loop
    cancelled                    \* the peer cancelled the call

vars == <<produced, srcState, valuesWaitingToBeDrained, writing,
          shouldResolveAfterDraining, shouldErrorAfterDraining, closed,
          wire, sinkLen, needDrain, drainPending, cancelled>>

Data(v)     == [kind |-> "data", val |-> v]
ErrorSignal == [kind |-> "error", val |-> 0]
EndSignal   == [kind |-> "end", val |-> 0]

\* The values written to the call, in order.
DataOut == LET d == SelectSeq(wire, LAMBDA e : e.kind = "data")
           IN  [i \in DOMAIN d |-> d[i].val]

--------------------------------------------------------------------------------
\* call.write(v) for the next value: the call buffers it and returns whether
\* its buffer is still below the high-water mark.
Accepts == sinkLen + 1 < HighWaterMark

CallWrite(v) ==
    /\ wire' = Append(wire, Data(v))
    /\ sinkLen' = sinkLen + 1
    /\ needDrain' = (needDrain \/ ~Accepts)

\* subscription.unsubscribe() followed by resolve(): the teardowns remove the
\* 'cancelled' and 'drain' listeners, end the call and unsubscribe from the
\* source; w is the wire before call.end().
Unsubscribe(w) ==
    /\ closed' = TRUE
    /\ wire' = Append(w, EndSignal)

Init ==
    /\ produced = <<>>
    /\ srcState = "active"
    /\ valuesWaitingToBeDrained = <<>>
    /\ writing = TRUE
    /\ shouldResolveAfterDraining = FALSE
    /\ shouldErrorAfterDraining = FALSE
    /\ closed = FALSE
    /\ wire = <<>>
    /\ sinkLen = 0
    /\ needDrain = FALSE
    /\ drainPending = FALSE
    /\ cancelled = FALSE

--------------------------------------------------------------------------------
(* Observer.next: write at once while writing, otherwise queue the value.  *)

\* Variant that writes whatever the mode, bypassing the queue.
OnNextIgnoringMode ==
    /\ ~closed
    /\ srcState = "active"
    /\ Len(produced) < MaxValues
    /\ LET v == Len(produced) + 1 IN
       /\ produced' = Append(produced, v)
       /\ CallWrite(v)
       /\ writing' = Accepts
       /\ UNCHANGED valuesWaitingToBeDrained
    /\ UNCHANGED <<srcState, shouldResolveAfterDraining,
                   shouldErrorAfterDraining, closed, drainPending, cancelled>>

OnNext ==
    /\ ~closed
    /\ srcState = "active"
    /\ Len(produced) < MaxValues
    /\ LET v == Len(produced) + 1 IN
       /\ produced' = Append(produced, v)
       /\ IF writing
            THEN /\ CallWrite(v)
                 /\ writing' = Accepts
                 /\ UNCHANGED valuesWaitingToBeDrained
            ELSE /\ valuesWaitingToBeDrained' = Append(valuesWaitingToBeDrained, v)
                 /\ UNCHANGED <<wire, sinkLen, needDrain, writing>>
    /\ UNCHANGED <<srcState, shouldResolveAfterDraining,
                   shouldErrorAfterDraining, closed, drainPending, cancelled>>

(* Observer.error: emit the error and tear down, unless values are queued; *)
(* then record it for after the drain.                                     *)

\* Variant that writes the error to the call as a message instead of
\* emitting it.
OnErrorWritingError ==
    /\ ~closed
    /\ srcState = "active"
    /\ srcState' = "failed"
    /\ IF valuesWaitingToBeDrained = <<>>
         THEN /\ Unsubscribe(Append(wire, Data(0)))
              /\ UNCHANGED shouldErrorAfterDraining
         ELSE /\ shouldErrorAfterDraining' = TRUE
              /\ UNCHANGED <<closed, wire>>
    /\ UNCHANGED <<produced, valuesWaitingToBeDrained, writing,
                   shouldResolveAfterDraining, sinkLen, needDrain,
                   drainPending, cancelled>>

OnError ==
    /\ ~closed
    /\ srcState = "active"
    /\ srcState' = "failed"
    /\ IF valuesWaitingToBeDrained = <<>>
         THEN /\ Unsubscribe(Append(wire, ErrorSignal))
              /\ UNCHANGED shouldErrorAfterDraining
         ELSE /\ shouldErrorAfterDraining' = TRUE
              /\ UNCHANGED <<closed, wire>>
    /\ UNCHANGED <<produced, valuesWaitingToBeDrained, writing,
                   shouldResolveAfterDraining, sinkLen, needDrain,
                   drainPending, cancelled>>

(* Observer.complete: tear down, unless values are queued.                 *)

\* Variant that tears down at once, dropping the queued values.
OnCompleteIgnoringQueue ==
    /\ ~closed
    /\ srcState = "active"
    /\ srcState' = "done"
    /\ Unsubscribe(wire)
    /\ UNCHANGED <<produced, valuesWaitingToBeDrained, writing,
                   shouldResolveAfterDraining, shouldErrorAfterDraining,
                   sinkLen, needDrain, drainPending, cancelled>>

OnComplete ==
    /\ ~closed
    /\ srcState = "active"
    /\ srcState' = "done"
    /\ IF valuesWaitingToBeDrained = <<>>
         THEN /\ Unsubscribe(wire)
              /\ UNCHANGED shouldResolveAfterDraining
         ELSE /\ shouldResolveAfterDraining' = TRUE
              /\ UNCHANGED <<closed, wire>>
    /\ UNCHANGED <<produced, valuesWaitingToBeDrained, writing,
                   shouldErrorAfterDraining, sinkLen, needDrain,
                   drainPending, cancelled>>

--------------------------------------------------------------------------------
(* The 'drain' listener, drain(): write queued values front to back until  *)
(* a write returns false (that value is still written) or the queue is     *)
(* empty; only in the latter case settle a deferred completion or error.   *)
(* With L messages buffered in the call, the i-th write returns            *)
(* L + i < HighWaterMark, so the loop writes k values.                     *)

\* How many queued values one run of drain() writes, and whether it empties
\* the queue with every write accepted.
DrainsAll ==
    sinkLen + Len(valuesWaitingToBeDrained) < HighWaterMark
    \/ valuesWaitingToBeDrained = <<>>

DrainCount ==
    LET q == valuesWaitingToBeDrained
    IN  IF DrainsAll THEN Len(q) ELSE Max({1, HighWaterMark - sinkLen})

\* Variant that never settles a completion or error deferred to the drain.
DrainNeverSettling ==
    LET q == valuesWaitingToBeDrained
    IN  /\ valuesWaitingToBeDrained' = SubSeq(q, DrainCount + 1, Len(q))
        /\ sinkLen' = sinkLen + DrainCount
        /\ writing' = DrainsAll
        /\ needDrain' = (needDrain \/ ~DrainsAll)
        /\ wire' = wire \o [i \in 1..DrainCount |-> Data(q[i])]
        /\ UNCHANGED closed

Drain ==
    LET q    == valuesWaitingToBeDrained
        sent == wire \o [i \in 1..DrainCount |-> Data(q[i])]
    IN  /\ valuesWaitingToBeDrained' = SubSeq(q, DrainCount + 1, Len(q))
        /\ sinkLen' = sinkLen + DrainCount
        /\ writing' = DrainsAll
        /\ needDrain' = (needDrain \/ ~DrainsAll)
        /\ IF DrainsAll /\ shouldResolveAfterDraining
             THEN Unsubscribe(sent)
           ELSE IF DrainsAll /\ shouldErrorAfterDraining
             THEN Unsubscribe(Append(sent, ErrorSignal))
           ELSE /\ wire' = sent
                /\ UNCHANGED closed

\* The event loop delivers a queued 'drain'; after teardown nobody listens.
DeliverDrain ==
    /\ drainPending
    /\ drainPending' = FALSE
    /\ IF closed
         THEN UNCHANGED <<valuesWaitingToBeDrained, sinkLen, writing,
                          needDrain, wire, closed>>
         ELSE Drain
    /\ UNCHANGED <<produced, srcState, shouldResolveAfterDraining,
                   shouldErrorAfterDraining, cancelled>>

--------------------------------------------------------------------------------
(* The environment: the call flushes one buffered message to the peer and *)
(* queues 'drain' when its buffer empties after a refused write.           *)
Flush ==
    /\ sinkLen > 0
    /\ sinkLen' = sinkLen - 1
    /\ IF sinkLen' = 0 /\ needDrain
         THEN needDrain' = FALSE /\ drainPending' = TRUE
         ELSE UNCHANGED <<needDrain, drainPending>>
    /\ UNCHANGED <<produced, srcState, valuesWaitingToBeDrained, writing,
                   shouldResolveAfterDraining, shouldErrorAfterDraining,
                   closed, wire, cancelled>>

(* The peer cancels; cancelHandler unsubscribes and resolves.              *)
Cancel ==
    /\ ~closed
    /\ ~cancelled
    /\ cancelled' = TRUE
    /\ Unsubscribe(wire)
    /\ UNCHANGED <<produced, srcState, valuesWaitingToBeDrained, writing,
                   shouldResolveAfterDraining, shouldErrorAfterDraining,
                   sinkLen, needDrain, drainPending>>

Next ==
    \/ OnNext
    \/ OnError
    \/ OnComplete
    \/ DeliverDrain
    \/ Flush
    \/ Cancel

\* Only the transport and the event loop are assumed to make progress: a
\* live peer keeps reading and a queued event is eventually dispatched.  The
\* source and the peer's cancellation get no fairness.
Fairness == WF_vars(Flush) /\ WF_vars(DeliverDrain)

Spec == Init /\ [][Next]_vars /\ Fairness

--------------------------------------------------------------------------------
TypeOK ==
    /\ produced \in Seq(1..MaxValues)
    /\ srcState \in {"active", "done", "failed"}
    /\ valuesWaitingToBeDrained \in Seq(1..MaxValues)
    /\ writing \in BOOLEAN
    /\ shouldResolveAfterDraining \in BOOLEAN
    /\ shouldErrorAfterDraining \in BOOLEAN
    /\ closed \in BOOLEAN
    /\ wire \in Seq({Data(v) : v \in 1..MaxValues} \cup {ErrorSignal, EndSignal})
    /\ sinkLen \in 0..MaxValues
    /\ needDrain \in BOOLEAN
    /\ drainPending \in BOOLEAN
    /\ cancelled \in BOOLEAN

\* writeObservableToGrpc implements the GrpcStream promise: every step of
\* next/error/complete/drain/cancel keeps the call's data an in-order prefix
\* of what the source produced, sends an error only after all values of a
\* failed source, ends the call only after everything (or on cancellation)
\* and sends nothing after the end.
Stream == INSTANCE GrpcStream
            WITH sent <- DataOut,
                 errorSent <- ErrorSignal \in ToSet(wire),
                 ended <- EndSignal \in ToSet(wire)

StreamRefinement == Stream!Spec

\* Backpressure: between a write() that returned false and the 'drain' the
\* call emits once its buffer is empty, no value is written to the call;
\* values the source emits meanwhile wait in valuesWaitingToBeDrained.
BackpressureRespected == [][needDrain => Len(DataOut') = Len(DataOut)]_vars

\* Once the source has completed or failed, the promise returned by
\* writeObservableToGrpc resolves and the call is ended, even when values
\* were still queued behind a refused write when the source finished.
SettlesAfterSource == (srcState # "active") ~> closed
================================================================================
