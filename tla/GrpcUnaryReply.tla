---------------------------- MODULE GrpcUnaryReply ----------------------------
(***************************************************************************)
(* How ServerGrpc answers a call whose response is a single message: the   *)
(* gRPC callback(error, value).                                            *)
(*   "unary":        createUnaryServiceMethod (server-grpc.js 159-167)     *)
(*                   subscribes to the handler's result and calls back     *)
(*                   from next (after awaiting the value) and from error.  *)
(*   "clientStream": createRequestStreamMethod without a response stream   *)
(*                   (301-313) takes lastValueFrom(result) cut by the      *)
(*                   'cancelled' event, calls back from catchError, and    *)
(*                   calls back with the last value unless it is undefined.*)
(*   "streamCall":   createStreamCallMethod (314-325): the handler owns the *)
(*                   call and the transport only awaits lastValueFrom of   *)
(*                   its result, inside the async function grpc-js calls.  *)
(* Microtasks (the await of next, the resolution of lastValueFrom) run in  *)
(* order after the synchronous code that queued them.                      *)
(***************************************************************************)
EXTENDS Integers, Sequences, SequencesExt

CONSTANTS
    Modes,          \* paths to check: {"unary", "clientStream", "streamCall"}
    Values,         \* values a handler may emit, "undefined" among them
    MaxEmissions    \* values a handler's result emits at most

Undefined == "undefined"

\* The handler's result: some values, then complete or error.
Outcomes ==
    {vs \o <<t>> : vs \in UNION {[1..n -> Values] : n \in 0..MaxEmissions},
                   t \in {"complete", "error"}}

VARIABLES
    mode,       \* the reply path of this method
    result,     \* the signals of the handler's observable
    emitted,    \* signals the subscription has seen
    subscribed, \* the subscription is live (not completed, failed or cut)
    last,       \* clientStream: the last value seen, or Undefined
    microtasks, \* queued microtasks: [kind, val]
    cancelled,  \* the client cancelled the call
    replies,    \* callback invocations, in order: [err, val]
    rejected    \* the async method function's promise rejected

vars == <<mode, result, emitted, subscribed, last, microtasks, cancelled,
          replies, rejected>>

Reply(isErr, v) == [err |-> isErr, val |-> v]

Init ==
    /\ mode \in Modes
    /\ result \in Outcomes
    /\ emitted = 0
    /\ subscribed = TRUE
    /\ last = Undefined
    /\ microtasks = <<>>
    /\ cancelled = FALSE
    /\ replies = <<>>
    /\ rejected = FALSE

Next1 == result[emitted + 1]

--------------------------------------------------------------------------------
(* createUnaryServiceMethod: next is `async data => callback(null, await   *)
(* data)`, so its callback runs in a microtask; error calls back at once.  *)

UnaryNext ==
    /\ mode = "unary" /\ subscribed /\ Next1 \in Values
    /\ microtasks' = Append(microtasks, [kind |-> "callback", val |-> Next1])
    /\ emitted' = emitted + 1
    /\ UNCHANGED <<mode, result, subscribed, last, cancelled, replies, rejected>>

UnaryTerminal ==
    /\ mode = "unary" /\ subscribed /\ Next1 \in {"complete", "error"}
    /\ subscribed' = FALSE
    /\ emitted' = emitted + 1
    /\ replies' = IF Next1 = "error" THEN Append(replies, Reply(TRUE, Undefined))
                  ELSE replies
    /\ UNCHANGED <<mode, result, last, microtasks, cancelled, rejected>>

--------------------------------------------------------------------------------
(* The clientStream path.  lastValueFrom resolves, a microtask later, with *)
(* the last value (defaultIfEmpty: undefined when there was none) once the *)
(* piped result completes: on complete, after catchError has called back  *)
(* with an error, or when takeUntil sees 'cancelled'.                      *)
Resolve == [kind |-> "resolve", val |-> last]

StreamNext ==
    /\ mode = "clientStream" /\ subscribed /\ Next1 \in Values
    /\ last' = Next1
    /\ emitted' = emitted + 1
    /\ UNCHANGED <<mode, result, subscribed, microtasks, cancelled, replies, rejected>>

StreamTerminal ==
    /\ mode = "clientStream" /\ subscribed /\ Next1 \in {"complete", "error"}
    /\ subscribed' = FALSE
    /\ emitted' = emitted + 1
    /\ replies' = IF Next1 = "error" THEN Append(replies, Reply(TRUE, Undefined))
                  ELSE replies
    /\ microtasks' = Append(microtasks, Resolve)
    /\ UNCHANGED <<mode, result, last, cancelled, rejected>>

(* The streamCall path: lastValueFrom resolves with the last value once   *)
(* the result completes, and rejects, a microtask later, with the error or *)
(* with EmptyError when the result completed without a value.  The         *)
(* rejection leaves the awaiting async function, whose promise nobody      *)
(* handles.                                                                *)
StreamCallNext ==
    /\ mode = "streamCall" /\ subscribed /\ Next1 \in Values
    /\ emitted' = emitted + 1
    /\ UNCHANGED <<mode, result, subscribed, last, microtasks, cancelled,
                   replies, rejected>>

StreamCallTerminal ==
    /\ mode = "streamCall" /\ subscribed /\ Next1 \in {"complete", "error"}
    /\ subscribed' = FALSE
    /\ emitted' = emitted + 1
    /\ microtasks' = Append(microtasks,
                       IF Next1 = "error" \/ emitted = 0
                       THEN [kind |-> "reject", val |-> Undefined]
                       ELSE [kind |-> "settle", val |-> Undefined])
    /\ UNCHANGED <<mode, result, last, cancelled, replies, rejected>>

(* The client cancels.  takeUntil unsubscribes and completes on the        *)
(* clientStream path; nothing listens for it on the unary path.            *)
Cancel ==
    /\ ~cancelled
    /\ cancelled' = TRUE
    /\ IF mode = "clientStream" /\ subscribed
         THEN /\ subscribed' = FALSE
              /\ microtasks' = Append(microtasks, Resolve)
         ELSE UNCHANGED <<subscribed, microtasks>>
    /\ UNCHANGED <<mode, result, emitted, last, replies, rejected>>

(* A microtask runs: the awaited callback of next, or the code after       *)
(* lastValueFrom: callback(null, response) unless response is undefined;  *)
(* on the streamCall path, the end of the awaited lastValueFrom.           *)
RunMicrotask ==
    /\ microtasks # <<>>
    /\ LET t == Head(microtasks) IN
       /\ replies' = IF t.kind = "callback" \/ (t.kind = "resolve" /\ t.val # Undefined)
                     THEN Append(replies, Reply(FALSE, t.val)) ELSE replies
       /\ rejected' = (rejected \/ t.kind = "reject")
    /\ microtasks' = Tail(microtasks)
    /\ UNCHANGED <<mode, result, emitted, subscribed, last, cancelled>>

Next ==
    \/ UnaryNext
    \/ UnaryTerminal
    \/ StreamNext
    \/ StreamTerminal
    \/ StreamCallNext
    \/ StreamCallTerminal
    \/ Cancel
    \/ RunMicrotask

\* The handler's observable goes on emitting and the microtask queue is run;
\* the client's cancel gets no fairness.
Fairness ==
    /\ WF_vars(UnaryNext) /\ WF_vars(UnaryTerminal)
    /\ WF_vars(StreamNext) /\ WF_vars(StreamTerminal)
    /\ WF_vars(StreamCallNext) /\ WF_vars(StreamCallTerminal)
    /\ WF_vars(RunMicrotask)

Spec == Init /\ [][Next]_vars /\ Fairness

--------------------------------------------------------------------------------
\* Spec 4.4/6: on the unary and clientStream paths the native callback is
\* invoked exactly once per call, unless the client cancels: never twice,
\* and not left uncalled whatever the handler's result
\* (createUnaryServiceMethod's subscribe, the lastValueFrom tail of
\* createRequestStreamMethod); and on every path a handler's error is
\* "never left unhandled": the transport's own async method function never
\* rejects (createStreamCallMethod awaits lastValueFrom, which rejects on an
\* error or an empty result, and nothing catches it).
CallSettlesAsSpecified ==
    /\ <>[](\/ mode = "streamCall"
           \/ Len(replies) = 1
           \/ (replies = <<>> /\ cancelled))
    /\ <>[](~rejected)
================================================================================
