--------------------------- MODULE GrpcRequestStream ---------------------------
(***************************************************************************)
(* The client-streaming side of a @GrpcStreamMethod call:                  *)
(* ServerGrpc.createRequestStreamMethod (server-grpc.js 280-316) with the  *)
(* buffer of bufferUntilDrained (473-538), and the decorator wrapper that  *)
(* calls drainBuffer() once the handler has returned                       *)
(* (message-pattern.decorator.js 219-241).                                 *)
(*                                                                         *)
(* Actors, each step one event-loop turn: the client ('data', 'end' and    *)
(* 'error' events on the call), the handler pipeline (guards and           *)
(* interceptors run asynchronously, then the handler body returns and the  *)
(* wrapper calls drainBuffer, and the transport subscribes to the result  *)
(* in the same turn), and the setImmediate callback that replays the       *)
(* buffer.                                                                 *)
(***************************************************************************)
EXTENDS Integers, Sequences, SequencesExt

CONSTANTS
    MaxMessages,    \* data messages the client sends at most
    ClientErrors,   \* errors the call may report
    ErrorMessage    \* ErrorMessage[e]: the lower-cased words of e's message

VARIABLES
    sent,             \* signals the call delivered to the listeners (history)
    hasDrained,
    replayBuffer,     \* signals held by the ReplaySubject
    replayState,      \* "live" | "stopped" (completed/errored) | "null"
    subjectTerm,      \* the terminal signal the Subject got, or NoSignal
    subscribed,       \* the handler's subscription to its input exists
    handlerState,     \* "running" (guards, interceptors) | "returned"
    immediatePending, \* the replay scheduled by drainBuffer has not run
    delivered,        \* signals the handler's subscription received
    callEnded         \* call.end() was called by the 'error' listener

vars == <<sent, hasDrained, replayBuffer, replayState, subjectTerm, subscribed,
          handlerState, immediatePending, delivered, callEnded>>

Data(v)   == [kind |-> "data", val |-> v]
Complete  == [kind |-> "complete", val |-> 0]
Fail(e)   == [kind |-> "error", val |-> e]
NoSignal  == [kind |-> "none", val |-> 0]
Signals   == {Data(v) : v \in 1..MaxMessages} \cup {Complete}
                \cup {Fail(e) : e \in ClientErrors}

IsTerminal(s) == s.kind \in {"complete", "error"}
ClientDone == \E i \in DOMAIN sent : IsTerminal(sent[i])

--------------------------------------------------------------------------------
(* String(e).toLowerCase().indexOf('cancelled') taken as a boolean.        *)
(* String() of an Error is "Error: " followed by its message, so the text  *)
(* starts with the word "error:".  Positions are counted in words: the     *)
(* index is 0 exactly when the text starts with the word, -1 when it does  *)
(* not contain it.                                                         *)
ErrorString(e) == <<"error:">> \o ErrorMessage[e]

IndexOf(text, w) ==
    IF \E i \in DOMAIN text : text[i] = w
    THEN Min({i \in DOMAIN text : text[i] = w}) - 1
    ELSE -1

IsCancelledError(e) == IndexOf(ErrorString(e), "cancelled") # 0

--------------------------------------------------------------------------------
(* The rxjs Subject: signals up to the first terminal one pass; after a    *)
(* terminal signal it ignores everything.  Only a subscriber that exists   *)
(* receives them.                                                          *)
UpToTerminal(s) ==
    LET T == {i \in DOMAIN s : IsTerminal(s[i])}
    IN  IF T = {} THEN s ELSE SubSeq(s, 1, Min(T))

SubjectEmit(sigs) ==
    LET pass == IF subjectTerm = NoSignal THEN UpToTerminal(sigs) ELSE <<>>
    IN  /\ delivered' = IF subscribed THEN delivered \o pass ELSE delivered
        /\ subjectTerm' = IF pass # <<>> /\ IsTerminal(Last(pass))
                          THEN Last(pass) ELSE subjectTerm

\* A ReplaySubject records signals until it is stopped.
ReplayRecord(s) ==
    IF replayState = "live"
    THEN /\ replayBuffer' = Append(replayBuffer, s)
         /\ replayState' = IF IsTerminal(s) THEN "stopped" ELSE "live"
    ELSE UNCHANGED <<replayBuffer, replayState>>

Init ==
    /\ sent = <<>>
    /\ hasDrained = FALSE
    /\ replayBuffer = <<>>
    /\ replayState = "live"
    /\ subjectTerm = NoSignal
    /\ subscribed = FALSE
    /\ handlerState = "running"
    /\ immediatePending = FALSE
    /\ delivered = <<>>
    /\ callEnded = FALSE

--------------------------------------------------------------------------------
(* call.on('data'): next(m) records m while not drained, and always        *)
(* passes it to the Subject.                                               *)
OnData ==
    /\ ~ClientDone
    /\ Len(sent) < MaxMessages
    /\ LET m == Data(Len(sent) + 1) IN
       /\ sent' = Append(sent, m)
       /\ IF hasDrained THEN UNCHANGED <<replayBuffer, replayState>>
                        ELSE ReplayRecord(m)
       /\ SubjectEmit(<<m>>)
    /\ UNCHANGED <<hasDrained, subscribed, handlerState, immediatePending,
                   callEnded>>

(* call.on('end'): complete() then cleanup().  Before the drain, complete  *)
(* only completes the replay buffer, and cleanup then drops the buffer.    *)
OnEnd ==
    /\ ~ClientDone
    /\ sent' = Append(sent, Complete)
    /\ IF hasDrained
         THEN /\ SubjectEmit(<<Complete>>)
              /\ UNCHANGED <<replayBuffer, replayState>>
         ELSE /\ replayBuffer' = <<>>
              /\ replayState' = "null"
              /\ UNCHANGED <<subjectTerm, delivered>>
    /\ UNCHANGED <<hasDrained, subscribed, handlerState, immediatePending,
                   callEnded>>

(* call.on('error'): an error taken for a cancellation ends the call and   *)
(* is not passed on; any other goes to error(e), recorded while not        *)
(* drained and passed to the Subject.                                      *)
OnError ==
    /\ ~ClientDone
    /\ \E e \in ClientErrors :
         /\ sent' = Append(sent, Fail(e))
         /\ IF IsCancelledError(e)
              THEN /\ callEnded' = TRUE
                   /\ UNCHANGED <<replayBuffer, replayState, subjectTerm, delivered>>
              ELSE /\ IF hasDrained THEN UNCHANGED <<replayBuffer, replayState>>
                                    ELSE ReplayRecord(Fail(e))
                   /\ SubjectEmit(<<Fail(e)>>)
                   /\ UNCHANGED callEnded
    /\ UNCHANGED <<hasDrained, subscribed, handlerState, immediatePending>>

--------------------------------------------------------------------------------
(* drainBuffer(): unless already drained or the buffer is gone, mark      *)
(* drained and schedule the replay with setImmediate.                      *)
DrainBuffer ==
    IF hasDrained \/ replayState = "null"
    THEN UNCHANGED <<hasDrained, immediatePending>>
    ELSE hasDrained' = TRUE /\ immediatePending' = TRUE

(* Subscribing to a Subject that has terminated yields its terminal.       *)
Subscribe ==
    /\ subscribed' = TRUE
    /\ delivered' = IF ~subscribed /\ subjectTerm # NoSignal
                    THEN Append(delivered, subjectTerm) ELSE delivered

(* An async handler body subscribes to its input and then awaits I/O      *)
(* before it returns, so client events can arrive in between.              *)
HandlerSubscribes ==
    /\ handlerState = "running"
    /\ ~subscribed
    /\ Subscribe
    /\ UNCHANGED <<sent, hasDrained, replayBuffer, replayState, subjectTerm,
                   handlerState, immediatePending, callEnded>>

(* The handler body returns, the wrapper calls drainBuffer(), and in the   *)
(* microtasks that follow (await handler, transformToObservable) the      *)
(* transport subscribes to the result and through it to the input; no     *)
(* client event can come between, as those are I/O callbacks.              *)
HandlerReturns ==
    /\ handlerState = "running"
    /\ handlerState' = "returned"
    /\ DrainBuffer
    /\ Subscribe
    /\ UNCHANGED <<sent, replayBuffer, replayState, subjectTerm, callEnded>>

(* The setImmediate callback: replay the buffer into the Subject, then     *)
(* drop the buffer.                                                        *)
ReplayToSubject ==
    /\ immediatePending
    /\ immediatePending' = FALSE
    /\ SubjectEmit(replayBuffer)
    /\ replayBuffer' = <<>>
    /\ replayState' = "null"
    /\ UNCHANGED <<sent, hasDrained, subscribed, handlerState, callEnded>>

Next ==
    \/ OnData
    \/ OnEnd
    \/ OnError
    \/ HandlerSubscribes
    \/ HandlerReturns
    \/ ReplayToSubject

\* The pipeline eventually returns and the event loop runs the immediate;
\* the client and the handler's own subscription get no fairness.
Fairness ==
    /\ WF_vars(HandlerReturns)
    /\ WF_vars(ReplayToSubject)

Spec == Init /\ [][Next]_vars /\ Fairness

--------------------------------------------------------------------------------
TypeOK ==
    /\ sent \in Seq(Signals)
    /\ hasDrained \in BOOLEAN
    /\ replayBuffer \in Seq(Signals)
    /\ replayState \in {"live", "stopped", "null"}
    /\ subjectTerm \in {NoSignal, Complete} \cup {Fail(e) : e \in ClientErrors}
    /\ subscribed \in BOOLEAN
    /\ handlerState \in {"running", "returned"}
    /\ immediatePending \in BOOLEAN
    /\ delivered \in Seq(Signals)
    /\ callEnded \in BOOLEAN

HandlerTerminated == \E i \in DOMAIN delivered : IsTerminal(delivered[i])

\* What the handler should receive: the client's signals, less an error
\* that really is a cancellation (its message names it).
IsCancellation(sig) ==
    sig.kind = "error" /\ "cancelled" \in ToSet(ErrorMessage[sig.val])
ClientStream == SelectSeq(sent, LAMBDA sig : ~IsCancellation(sig))

\* The buffer's promise (spec 4.4): once the client has finished, the
\* handler's input is, for good, exactly the client's stream, in order,
\* nothing dropped or repeated, ended by the client's end or its
\* non-cancellation error, whenever the client's signals arrive relative
\* to the guards, the handler's subscription and the setImmediate replay
\* (bufferUntilDrained, the 'data'/'end'/'error' listeners).
HandlerSeesClientStream == ClientDone ~> [](delivered = ClientStream)
================================================================================
