--------------------------- MODULE ResponseExchange ---------------------------
(***************************************************************************)
(* The request/response path of a message transport: handleMessage of      *)
(* ServerTCP (server-tcp.js 50-76) or ServerRMQ (server-rmq.js 141-188),   *)
(* the Server base's send/handleEvent that turn a handler's result into    *)
(* response packets, and ClientProxy.createObserver (client-proxy.js       *)
(* 69-83) that turns the packets of one id back into a stream.             *)
(*                                                                         *)
(* Several messages are handled at once: handleMessage awaits the          *)
(* deserializer and the handler, so the steps of different messages        *)
(* interleave.  Replies of all messages share one ordered wire (the TCP    *)
(* socket, or the reply-to queue); the client routes them by id.           *)
(* A handler's result is a finite observable: some values, then complete   *)
(* or error (the exception filters turn a throw into an error).            *)
(***************************************************************************)
EXTENDS Integers, Sequences, SequencesExt

CONSTANTS
    Messages,       \* the incoming messages (model values)
    Patterns,       \* patterns a message may carry
    Registered,     \* patterns with a registered handler
    MaxEmissions,   \* values a handler's observable emits at most
    Transports,     \* transports the server may be: subset of {"tcp", "rmq"}
    NoAckOptions    \* values ServerRMQ's noAck option may have

Values == {"v1", "v2"}

\* Every result a handler's observable can produce.
Outcomes ==
    {vs \o <<t>> : vs \in UNION {[1..n -> Values] : n \in 0..MaxEmissions},
                   t \in {"complete", "error"}}

VARIABLES
    msg,        \* msg[m]: [hasId, pattern], the decoded packet of m
    stage,      \* "received" | "awaiting" (handler running) | "sending" | "done"
    result,     \* the signals of m's handler observable
    emitted,    \* signals of result[m] the subscription has seen
    outbox,     \* packets send() buffered for the next tick
    wire,       \* packets written, in order: [id, response, err, disposed]
    nacked,     \* messages nacked on the channel
    client,     \* client[m]: [values, term] the client observer of m saw
    transport,  \* the server's transport, fixed at construction
    noAck       \* its noAck option, fixed at construction

vars == <<msg, stage, result, emitted, outbox, wire, nacked, client,
          transport, noAck>>

NoResponse == "absent"
Packet(id, resp, err, disp) ==
    [id |-> id, response |-> resp, err |-> err, disposed |-> disp]

Init ==
    /\ msg \in [Messages -> [hasId : BOOLEAN, pattern : Patterns]]
    /\ stage = [m \in Messages |-> "received"]
    /\ result = [m \in Messages |-> <<>>]
    /\ emitted = [m \in Messages |-> 0]
    /\ outbox = [m \in Messages |-> <<>>]
    /\ wire = <<>>
    /\ nacked = {}
    /\ client = [m \in Messages |-> [values |-> <<>>, term |-> "none"]]
    /\ transport \in Transports
    /\ noAck \in NoAckOptions

--------------------------------------------------------------------------------
(* The reply to an id with no handler: status error, NO_MESSAGE_HANDLER.   *)
NoHandlerReply(m) == Packet(m, NoResponse, TRUE, FALSE)

(* Server.handleEvent: run the handler, drain and drop its result.  No     *)
(* reply.  Its outcome is left out: nothing observable depends on it.      *)
HandleEvent(m) ==
    UNCHANGED <<result, emitted, outbox, wire>>

\* Variant that returns without the error reply when no handler is found.
TcpHandleMessageNoReply(m) ==
    /\ transport = "tcp"
    /\ stage[m] = "received"
    /\ stage' = [stage EXCEPT ![m] = IF msg[m].hasId /\ msg[m].pattern \in Registered
                                     THEN "awaiting" ELSE "done"]
    /\ UNCHANGED <<msg, result, emitted, outbox, wire, nacked, client, transport, noAck>>

(* ServerTCP.handleMessage, up to the await of the handler: after the      *)
(* deserializer, an event goes to handleEvent; an id with no handler gets  *)
(* the error reply on the socket; otherwise the handler is called.         *)
TcpHandleMessage(m) ==
    /\ transport = "tcp"
    /\ stage[m] = "received"
    /\ CASE ~msg[m].hasId ->
              stage' = [stage EXCEPT ![m] = "done"] /\ HandleEvent(m)
         [] msg[m].pattern \notin Registered ->
              /\ stage' = [stage EXCEPT ![m] = "done"]
              /\ wire' = Append(wire, NoHandlerReply(m))
              /\ UNCHANGED <<result, emitted, outbox>>
         [] OTHER ->
              stage' = [stage EXCEPT ![m] = "awaiting"]
                 /\ UNCHANGED <<result, emitted, outbox, wire>>
    /\ UNCHANGED <<msg, nacked, client, transport, noAck>>

(* ServerRMQ.handleMessage and handleEvent: as above, but with acks on, a  *)
(* message with no handler is nacked (no requeue) first; an event with no  *)
(* handler is only nacked.                                                 *)
RmqHandleMessage(m) ==
    /\ transport = "rmq"
    /\ stage[m] = "received"
    /\ stage' = [stage EXCEPT ![m] = IF msg[m].hasId /\ msg[m].pattern \in Registered
                                     THEN "awaiting" ELSE "done"]
    /\ nacked' = IF msg[m].pattern \notin Registered /\ ~noAck
                 THEN nacked \cup {m} ELSE nacked
    /\ IF msg[m].hasId /\ msg[m].pattern \notin Registered
         THEN wire' = Append(wire, NoHandlerReply(m))
         ELSE UNCHANGED wire
    /\ UNCHANGED <<msg, result, emitted, outbox, client, transport, noAck>>

(* The awaited handler resolves; its result, made an observable, is        *)
(* subscribed through send().                                              *)
HandlerResolves(m) ==
    /\ stage[m] = "awaiting"
    /\ \E o \in Outcomes : result' = [result EXCEPT ![m] = o]
    /\ stage' = [stage EXCEPT ![m] = "sending"]
    /\ UNCHANGED <<msg, emitted, outbox, wire, nacked, client, transport, noAck>>

--------------------------------------------------------------------------------
(* Server.send: each value becomes a packet with the response; an error a  *)
(* packet with err; completion marks the last packet still buffered as     *)
(* disposed, or adds a disposed packet of its own.  The buffer is written  *)
(* on the next tick.                                                       *)
\* Variant that writes the error and, from finalize, a disposed packet of
\* its own.
SendSignalDisposeAfterError(m, s) ==
    LET box == outbox[m] IN
    CASE s \in Values ->
           Append(box, Packet(m, s, FALSE, FALSE))
      [] s = "error" ->
           box \o <<Packet(m, NoResponse, TRUE, FALSE), Packet(m, NoResponse, FALSE, TRUE)>>
      [] box # <<>> ->
           [box EXCEPT ![Len(box)].disposed = TRUE]
      [] OTHER ->
           Append(box, Packet(m, NoResponse, FALSE, TRUE))

SendSignal(m, s) ==
    LET box == outbox[m] IN
    CASE s \in Values ->
           Append(box, Packet(m, s, FALSE, FALSE))
      [] s = "error" ->
           Append(box, Packet(m, NoResponse, TRUE, TRUE))
      [] box # <<>> ->
           [box EXCEPT ![Len(box)].disposed = TRUE]
      [] OTHER ->
           Append(box, Packet(m, NoResponse, FALSE, TRUE))

Emit(m) ==
    /\ stage[m] = "sending"
    /\ emitted[m] < Len(result[m])
    /\ LET s == result[m][emitted[m] + 1] IN
       /\ outbox' = [outbox EXCEPT ![m] = SendSignal(m, s)]
       /\ emitted' = [emitted EXCEPT ![m] = @ + 1]
       /\ stage' = IF s \in Values THEN stage ELSE [stage EXCEPT ![m] = "done"]
    /\ UNCHANGED <<msg, result, wire, nacked, client, transport, noAck>>

FlushTick(m) ==
    /\ outbox[m] # <<>>
    /\ wire' = wire \o outbox[m]
    /\ outbox' = [outbox EXCEPT ![m] = <<>>]
    /\ UNCHANGED <<msg, stage, result, emitted, nacked, client, transport, noAck>>

--------------------------------------------------------------------------------
(* The client takes the next packet off the wire and calls the observer    *)
(* createObserver made for its id; an observer that has terminated has     *)
(* been removed from the routing map and the packet is dropped.            *)

\* Variant that tests isDisposed before the response that comes with it.
CreateObserverDisposedFirst(c, p) ==
    CASE p.err      -> [c EXCEPT !.term = "error"]
      [] p.disposed -> [c EXCEPT !.term = "complete"]
      [] OTHER      -> [c EXCEPT !.values = Append(@, p.response)]

\* Variant that completes with the response without testing it is defined.
CreateObserverIgnoringUndefined(c, p) ==
    CASE p.err      -> [c EXCEPT !.term = "error"]
      [] p.disposed -> [values |-> Append(c.values, p.response), term |-> "complete"]
      [] OTHER      -> [c EXCEPT !.values = Append(@, p.response)]

CreateObserver(c, p) ==
    CASE p.err ->
           [c EXCEPT !.term = "error"]
      [] p.response # NoResponse /\ p.disposed ->
           [values |-> Append(c.values, p.response), term |-> "complete"]
      [] p.disposed ->
           [c EXCEPT !.term = "complete"]
      [] OTHER ->
           [c EXCEPT !.values = Append(@, p.response)]

ClientReceives ==
    /\ wire # <<>>
    /\ LET p == Head(wire) IN
       client' = IF client[p.id].term = "none"
                 THEN [client EXCEPT ![p.id] = CreateObserver(@, p)]
                 ELSE client
    /\ wire' = Tail(wire)
    /\ UNCHANGED <<msg, stage, result, emitted, outbox, nacked,
                   transport, noAck>>

Next ==
    \/ \E m \in Messages :
         \/ TcpHandleMessage(m)
         \/ RmqHandleMessage(m)
         \/ HandlerResolves(m)
         \/ Emit(m)
         \/ FlushTick(m)
    \/ ClientReceives

\* Awaited promises settle, the observable goes on emitting, the tick runs
\* and the client reads its socket: every server step and the client's read
\* are weakly fair.
Fairness ==
    /\ \A m \in Messages :
         /\ WF_vars(TcpHandleMessage(m))
         /\ WF_vars(RmqHandleMessage(m))
         /\ WF_vars(HandlerResolves(m))
         /\ WF_vars(Emit(m))
         /\ WF_vars(FlushTick(m))
    /\ WF_vars(ClientReceives)

Spec == Init /\ [][Next]_vars /\ Fairness

--------------------------------------------------------------------------------
Packets == [id : Messages, response : Values \cup {NoResponse},
            err : BOOLEAN, disposed : BOOLEAN]

TypeOK ==
    /\ msg \in [Messages -> [hasId : BOOLEAN, pattern : Patterns]]
    /\ stage \in [Messages -> {"received", "awaiting", "sending", "done"}]
    /\ \A m \in Messages : result[m] \in Outcomes \cup {<<>>}
    /\ emitted \in [Messages -> 0..MaxEmissions + 1]
    /\ \A m \in Messages : outbox[m] \in Seq(Packets)
    /\ wire \in Seq(Packets)
    /\ nacked \subseteq Messages
    /\ client \in [Messages -> [values : Seq(Values),
                                term : {"none", "complete", "error"}]]
    /\ transport \in Transports
    /\ noAck \in NoAckOptions

Answered(m) == msg[m].hasId /\ client[m].term # "none"

\* The client's stream for a request is what the handler produced: once its
\* observer has terminated it has seen exactly the handler's values in order
\* and terminates the same way; a request with no handler ends in an error;
\* and the observer of an event never sees anything, whatever the order in
\* which the replies of concurrent messages reach the wire.
ClientSeesHandlerResult ==
    \A m \in Messages :
        /\ ~msg[m].hasId => client[m] = [values |-> <<>>, term |-> "none"]
        /\ Answered(m) /\ msg[m].pattern \notin Registered
              => client[m] = [values |-> <<>>, term |-> "error"]
        /\ Answered(m) /\ msg[m].pattern \in Registered
              => /\ client[m].values = Front(result[m])
                 /\ client[m].term = Last(result[m])

\* Spec 3: exactly one terminal packet is written per request id, and no
\* packet of that id follows it on the wire.
OneTerminalPerRequest ==
    \A m \in Messages :
        LET own  == SelectSeq(wire, LAMBDA p : p.id = m)
            term == {i \in DOMAIN own : own[i].err \/ own[i].disposed}
        IN  term # {} => (Cardinality(term) = 1 /\ Max(term) = Len(own))

\* Every request is answered: its client observer terminates.
EveryRequestAnswered ==
    \A m \in Messages : msg[m].hasId ~> client[m].term # "none"

================================================================================
