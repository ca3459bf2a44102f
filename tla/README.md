# TLA+ models of the NestJS microservice transports

This directory holds TLA+ models of the microservice transports under
`src/packages/microservices`, together with the TLC configurations that check
them. The transports are ServerTCP, ServerRMQ and ServerGrpc, and the client
side is ClientProxy. Every module is translated from the JavaScript sources.
`PROJECT.json` maps each definition to the lines it models, and records the
runs, the mutants, the findings and the hazards.

## The system and how its parts interact

A transport server receives packets and resolves a handler for each one by
pattern. It invokes the handler and writes the handler's result back to the
caller.

- **ServerTCP** (`server/server-tcp.js`) owns a `net.Server`.
  - `listen` binds the server. Its `'listening'`, `'error'` and `'close'`
    listeners set the connection status.
  - On a close that `close()` did not ask for, `handleClose` schedules a
    re-listen after `retryDelay`, while the `retryAttempts` budget lasts.
  - Each socket's messages go to `handleMessage`, which either calls
    `handleEvent` or replies through `Server.send`.
- **ServerRMQ** (`server/server-rmq.js`) owns an amqp-connection-manager
  client. That client reconnects on its own and emits `connect`,
  `connectFailed` and `disconnect`.
  - On the first connect, `start` creates a channel. The channel wrapper runs
    `setupChannel` on every (re)connect: assert, bind, prefetch, consume, and
    then the listen callback.
  - `connectFailed` counts attempts against `maxConnectionAttempts`.
  - With wildcards on, `getHandlerByPattern` tries the exact pattern first. It
    then tries the regexes that `convertRoutingKeyToRegex` built, in
    registration order.
  - `handleMessage` nacks unhandled messages when acks are on, and replies on
    the reply-to queue.
- **ServerGrpc** (`server/server-grpc.js`) maps proto services to handlers.
  - A response stream is written by `writeObservableToGrpc`. It respects
    `call.write` returning false and waits for `'drain'`.
  - A client stream goes through `bufferUntilDrained`, a ReplaySubject in
    front of a Subject. The `@GrpcStreamMethod` wrapper
    (`decorators/message-pattern.decorator.js`) calls `drainBuffer()` once the
    handler has returned, so that messages that arrive while guards and
    interceptors run are not lost.
- **ClientProxy** (`client/client-proxy.js`) sends a request and, through
  `createObserver`, turns the response packets of its id back into a stream.
- **The Server base** (`server.js`: `send`, `handleEvent`, `addHandler`) is not
  under `src/`. Nor are the client transports' `handleResponse` and routing
  map. Both are modelled from the spec (4.1 and 4.2), including the
  nextTick flush of `send` (`FlushTick`) and the client's receipt of a
  packet (`ClientReceives`), and are marked `spec_modelled` in the map.

## Modules

| Module | Models | State ↔ code |
|---|---|---|
| `GrpcStream` | abstract promise of a server-streaming call | `produced` values, `sent` prefix, `errorSent`, `ended`, `cancelled` |
| `GrpcWriter` | `writeObservableToGrpc` (191-279) | `valuesWaitingToBeDrained`, `writing`, `shouldResolveAfterDraining`, `shouldErrorAfterDraining` are the closure variables. `wire`, `sinkLen`, `needDrain` and `drainPending` are the grpc-js Writable. Actions: `OnNext`, `OnError`, `OnComplete`, `DeliverDrain`→`Drain`, `Cancel` (cancelHandler), `Flush` (the client reads) |
| `GrpcRequestStream` | `createRequestStreamMethod` (280-305), `bufferUntilDrained` (473-538), the `GrpcStreamMethod` wrapper | `replayBuffer`/`replayState` are the ReplaySubject (or null). `subjectTerm` is the Subject. `hasDrained`, and `immediatePending` for the setImmediate. Actions: `OnData`, `OnEnd`, `OnError` (listeners), `HandlerSubscribes` (an async handler body subscribes to its input before it awaits), `HandlerReturns` (the handler returns, the wrapper calls `DrainBuffer`, and the transport subscribes to the result, all in one step: only microtasks separate them, and the client's events are I/O callbacks), `ReplayToSubject` |
| `RmqConnection` | `start`, `close`, the connect/disconnect listeners, `setupChannel` | `connectionAttempts`, `channel` (null/created/consuming), `connectFailedListener` and `connectListener` (whether each once-listener is still registered), `manager` (the connection manager's state), `registered` (handler patterns in order), `bound` (routing keys bound), `wildcardHandlers`, `listens` and `channelOf` (which listen's client created `this.channel`) |
| `RmqWildcard` | `convertRoutingKeyToRegex`, `getHandlerByPattern` | pure operators. A regex is a sequence of tokens and `RegexMatch` is `regex.test`. The reference `TopicMatch` is AMQP topic matching |
| `TcpServer` | `listen`, `close`, `handleClose`, the three `net.Server` listeners | `server` (idle/binding/listening/closing), `isManuallyTerminated`, `retryAttemptsCount`, `timerPending` (the setTimeout of `handleClose`), `sockets` (open connections, which hold back `'close'`) |
| `GrpcServer` | `listen`/`start`/`bindEvents`, `createClient`, `loadProto` (`getGrpcPackageDefinition`), `lookupPackage`, `createServices`, `collectDeepServices`, `createService`/`getMessageHandler`/`createServiceMethod`, `close` | the options (`package`, the definition source, `gracefulShutdown`) are chosen in Init. `listenPc`, `grpcClient` (the field: undefined/server/null), `server` (the grpc-js server: binding, serving, draining, shutdown), `added` (each added service's methods and their call kind), `callbacks` (the listen callback), `closePc`, `inflight`/`dropped` calls. Discovery and dispatch are recursive operators over a small proto tree. Everything after `bindAsync` up to the callback is one step, because it awaits only settled promises |
| `GrpcUnaryReply` | `createUnaryServiceMethod`, the non-stream tail of `createRequestStreamMethod` (306-313), `createStreamCallMethod` (314-325) | `result` (the handler's signals), `emitted`, `subscribed`, `last`, `microtasks` (awaited `next` callbacks, the `lastValueFrom` resolution), `cancelled`, `replies` (callback invocations), `rejected` (the async method function's promise rejected) |
| `ResponseExchange` | `ServerTCP.handleMessage`, `ServerRMQ.handleMessage`/`handleEvent`/`sendMessage`, `Server.send` (spec), `ClientProxy.createObserver` | per message: `stage`, the handler's `result`, the `outbox` of `send`, `nacked`. One ordered `wire` carries the replies. `client[m]` is what the client observer of `m` saw |

Each `MC*.tla` module gives the constants their values. Each `.cfg` file names
the invariants and properties of one run.

## Runs

| Run | Expect | Checks | Shows |
|---|---|---|---|
| `grpc_writer` | pass | `TypeOK`, `StreamRefinement` (GrpcWriter implements GrpcStream), `SettlesAfterSource`, `BackpressureRespected` | values are written once and in order, then the error or the end; nothing is written while a drain is needed; the call always settles |
| `grpc_client_stream` | violation | `HandlerSeesClientStream` | the handler's input is not the client stream. A message that arrives between `drainBuffer` and the setImmediate replay overtakes the buffered ones; a handler that subscribed to its input before awaiting gets the buffered ones live and again from the replay. An `'end'` before the handler returns makes `cleanup` drop the buffer, so the input never completes. `indexOf('cancelled')` is truthy for every error text not starting with the word, so no client error reaches the handler |
| `rmq_connection` | pass | `TypeOK`, `NoSelfCloseAfterConnect`, `ErrorReportedLast`, `WildcardHandlersCompiledOnce` | reconnects never compile a wildcard pattern twice; after a successful connect, failed reconnections never close the server; once the listen callback gets the connection error, the connection is closed and the callback is never called again |
| `rmq_give_up` | violation | `StartAsSpecified` | with `maxConnectionAttempts = 3` the server never gives up, because the listener is a `once`. Every reconnect reruns `setupChannel`, which ends in the listen callback, so the callback is called once per connect. A wildcard pattern registered after the first setup is bound to the queue on the next reconnect but never gets a regex, because `initializeWildcardHandlersIfExist` returns once the map has entries. `close()` leaves `this.channel` and `connectionAttempts` behind: after a second `listen()` the connect listener returns without a channel, so the new listen never consumes or calls back, and never gives up |
| `rmq_wildcard` | pass | `ResolvesAsTopicExchange` | with `*` patterns, lookup agrees with topic-exchange matching, exact match first and then registration order |
| `rmq_wildcard_hash` | violation | `ResolvesAsTopicExchange` | `*.#` (like `a.#`) does not match `a` |
| `tcp_retry` | pass | `TypeOK`, `RetriesMatchCloses` | exactly one re-listen per unintended close, capped by `retryAttempts`, and the counter is never reset |
| `tcp_close_retry` | violation | `ListenLifecycleAsSpecified` | four obligations of spec 4.2 and 6 fail, each on its own. A re-listen that fails to bind emits `'error'` and no `'close'`, so the retry loop stops with budget left. A retry timer pending when `close()` is called makes the server listen again. The `once('error')` listener survives a successful listen, so a later `EADDRINUSE` calls the listen callback a second time. A spent budget is never reported |
| `response_exchange` | pass | `TypeOK`, `ClientSeesHandlerResult`, `OneTerminalPerRequest`, `EveryRequestAnswered` | with two concurrent messages over TCP or RMQ, acks on or off, each client stream equals its handler's result, each request gets exactly one terminal packet, and every request is answered |
| `grpc_server` | pass | `TypeOK`, `DispatchAsSpecified`, `CloseCompletes` | methods bind as spec 4.4 says, with the path-name retry and the RX handler first; a graceful close returns once the running calls end (a call that never ends is assumed away) |
| `grpc_server_serving` | violation | `ServesOnlyWhileListening` | `close()` while `bindAsync` is pending sees no `grpcClient`, and listen then assigns the server, which serves after close. A bad definition or missing package is found only after the port is bound: listen reports it and the server keeps serving |
| `grpc_unary_once` | violation | `CallSettlesAsSpecified` | a unary handler emitting a value and then an error calls back twice, the error first; one whose result is empty never calls back. On the `GrpcStreamCall` path, a result that errors or is empty makes `lastValueFrom` reject inside the async method function, and nothing catches it |

Every property of a passing run has a mutant in `PROJECT.json`. A mutant is
a plausible bug in the mapped code that TLC must then catch. Examples: writing
while a drain is needed, completing without flushing the queue, an
off-by-one in `handleClose`, testing `isDisposed` before the response in
`createObserver`, and returning without the no-handler reply.

## Bounds and why they suffice

- **GrpcWriter.** 4 values and a high-water mark of 2. This is enough for a
  write to return false, values to queue, and a terminal to arrive while
  values are queued, before and after a drain.
- **GrpcRequestStream.** 2 messages and one or two error kinds. This is enough
  for one message to be buffered and one to arrive between the drain and the
  replay.
- **RmqConnection.** 7 connection events, and three patterns (one exact, `order.*` and `audit.#`) registered in any order before listen or between connects, so a wildcard can arrive after the first setup. Up to two `listen` calls, so a server can be closed and started again. This covers fail, connect,
  disconnect and fail again. The passing run takes `maxConnectionAttempts`
  from {unlimited (-1), 1}. The violation run uses 3, the budget spec 8
  names.
- **RmqWildcard.** Every registration list of up to 2 distinct patterns of up
  to 3 words, and keys of up to 3 words over `a` and `b`.
- **TcpServer.** A retry budget of 4, 5 closes and 3 sockets, so the budget is
  exhausted and one close goes beyond it.
- **GrpcServer.** One package `shop` holding a service, a message, a nested
  namespace with a service and a node whose `service` is false. The package
  option is `shop`, `shop` then a missing package, or the reverse. The
  definition is good or doubled, the bind may fail, and both shutdown modes
  are covered. There are up to 2 calls in flight. The handlers include one
  under the short name, one under the qualified name only, an RX and a PT
  handler for one method, and one of the wrong shape.
- **GrpcUnaryReply.** All three paths. Handlers emit 0 to 2 values from
  {`1`, `0`, undefined} and then complete or fail. This covers the falsy but
  defined value, the undefined last value, the empty result and the
  value-then-error case.
- **ResponseExchange.** Two messages, each an event or a request, to a handled
  or an unhandled pattern. Handlers emit 0 to 2 values and then complete or
  fail. This covers interleaved replies, a disposed flag merged into a
  buffered value or sent on its own, and both transports with both ack
  modes.

## Fairness

- **Writer.** The client reads (`Flush`) and grpc-js emits `'drain'` once the
  buffer empties. Neither the source nor a cancel is fair.
- **Request stream.** The handler pipeline eventually returns, the transport
  subscribes, and the event loop runs the setImmediate. The client gets no
  fairness.
- **GrpcServer.** `bindAsync` answers, the handlers finish and `tryShutdown`
  calls back. Calling `listen`, `close` or a method is the user's choice and
  gets no fairness.
- **TcpServer.** The OS answers every `server.listen` with `'listening'` or
  `'error'`, a closed server with no open connections emits `'close'`, and a
  `setTimeout` fires. Clients, `close()` and closes from outside are not
  fair. `RmqConnection` has almost no fairness: every step is the broker's or the
  user's, except that a connected channel wrapper runs its pending setup (`WF` on `SetupChannel`).
- **GrpcUnaryReply.** The handler's observable goes on and the microtask
  queue runs. A cancel gets no fairness.
- **ResponseExchange.** Awaited promises settle, the handler's observable goes
  on emitting, `process.nextTick` runs, and the client reads its socket. All
  of these are weakly fair.
- **Deadlock.** `CHECK_DEADLOCK FALSE` is set only where the system really
  stops:
  - a finished stream (writer, request stream);
  - a finite set of messages that has been handled (ResponseExchange);
  - an exhausted event bound (RMQ, TCP);
  - the constant-state spec of the wildcard operators.

## Not modelled, and the plan

- **Not modelled yet.**
  - What a `GrpcStreamCall` handler does with the call it owns. The
    transport's part, the await of `lastValueFrom`, is in `GrpcUnaryReply`.
  - Dotted package names in `lookupPackage`, and `onLoadPackageDefinition`.
  - `ServerRMQ.handleMessage`'s null message.
  - A composition of `GrpcServer` with the per-call modules.
- **Left out.**
  - The websockets package, the no-op graph inspector and the MQTT
    serializer. These are bootstrap reflection and pure conversion.
  - The Fastify adapter. What its methods do is decided by fastify,
    find-my-way, middie and Nest core, none of which is in the repository,
    and the spec says nothing of HTTP. Its own state (the middie flag set
    before an await, the version constraint map) would be modelled against
    guessed library behaviour.
  - The `.d.ts` files, which hold no code.
  - Logging, serialization formats and TLS, which no property distinguishes.
