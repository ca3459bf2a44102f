------------------------------ MODULE GrpcServer ------------------------------
(***************************************************************************)
(* ServerGrpc's lifecycle (server-grpc.js 35-158, 317-472): listen creates *)
(* and binds the grpc-js server, then bindEvents loads the proto, looks up *)
(* each configured package, collects its services and adds each one with   *)
(* the methods that have a handler, and calls back; close shuts the server *)
(* down, gracefully (waiting for calls in flight) or by force.  Every      *)
(* await (bindAsync, each createService, tryShutdown) is a point where     *)
(* another step, close() above all, can run.                               *)
(***************************************************************************)
EXTENDS Integers, Sequences, SequencesExt

CONSTANTS
    PackageOptions,  \* values of the package option: sequences of names
    Root,            \* the loaded proto: Root[name] a node, for names in its domain
    SourceOptions,   \* how the definition is given: "protoPath", "packageDefinition", "both", "neither"
    Handlers,        \* registered patterns [service, rpc, streaming]
    BindMayFail,     \* whether bindAsync may fail
    GracefulOptions, \* values of the gracefulShutdown option
    MaxCalls         \* calls in flight at most

NO_STREAMING == "no_stream"
RX_STREAMING == "rx_stream"
PT_STREAMING == "pt_stream"

--------------------------------------------------------------------------------
(* A proto node is [kind, children] with kind "namespace", "service",      *)
(* "message" (has a format) or "disabled" (service: false); a service's   *)
(* children are its methods [requestStream, responseStream, pathService].  *)

\* parseDeepServiceName
ParseDeepServiceName(name, key) ==
    IF name = <<>> THEN <<key>> ELSE name \o <<key>>

\* collectDeepServices: the services under node, with their dotted names;
\* nodes with a format are skipped and every other object is traversed.
RECURSIVE CollectDeepServices(_, _)
CollectDeepServices(name, node) ==
    UNION {LET n == ParseDeepServiceName(name, k)
               d == node.children[k]
           IN  CASE d.kind = "service" -> {[name |-> n, service |-> d]}
                 [] d.kind = "message" -> {}
                 [] OTHER              -> CollectDeepServices(n, d)
           : k \in DOMAIN node.children}

\* createPattern, with the service name as the dotted sequence of words.
CreatePattern(service, methodName, streaming) ==
    [service |-> service, rpc |-> methodName, streaming |-> streaming]

\* No handler: messageHandlers.get misses.
NoHandler == [service |-> <<>>, rpc |-> "", streaming |-> ""]

\* Variant that never retries with the service name of the method's path.
GetMessageHandlerShortOnly(serviceName, methodName, streaming, grpcMethod) ==
    LET p1 == CreatePattern(serviceName, methodName, streaming)
    IN  IF p1 \in Handlers THEN p1 ELSE NoHandler

\* getMessageHandler: the pattern under the collected name, else under the
\* service name of the method's path; NoHandler when neither is registered.
GetMessageHandler(serviceName, methodName, streaming, grpcMethod) ==
    LET p1 == CreatePattern(serviceName, methodName, streaming)
        p2 == CreatePattern(grpcMethod.pathService, methodName, streaming)
    IN  IF p1 \in Handlers THEN p1 ELSE IF p2 \in Handlers THEN p2 ELSE NoHandler

\* createService's choice of handler and streaming type for one method: a
\* request-streaming method takes an RX handler before a PT one.
MethodBinding(name, methodName, m) ==
    IF m.requestStream = "true"
    THEN LET rx == GetMessageHandler(name, methodName, RX_STREAMING, m)
         IN  IF rx # NoHandler THEN [handler |-> rx, streamType |-> RX_STREAMING]
             ELSE [handler |-> GetMessageHandler(name, methodName, PT_STREAMING, m),
                   streamType |-> PT_STREAMING]
    ELSE [handler |-> GetMessageHandler(name, methodName, NO_STREAMING, m),
          streamType |-> NO_STREAMING]

\* createServiceMethod: which call implementation serves the method.
CreateServiceMethod(m, streamType) ==
    IF m.requestStream = "true" /\ streamType = RX_STREAMING THEN "requestStream"
    ELSE IF m.requestStream = "true" /\ streamType = PT_STREAMING THEN "streamCall"
    ELSE IF m.responseStream THEN "serverStream" ELSE "unary"

\* createService: the methods with a handler, each with its implementation.
CreateService(def) ==
    LET methods == def.service.children
        bound   == {k \in DOMAIN methods :
                      MethodBinding(def.name, k, methods[k]).handler # NoHandler}
    IN  [k \in bound |->
           CreateServiceMethod(methods[k], MethodBinding(def.name, k, methods[k]).streamType)]

\* getServiceNames for each package, keyed by the service's qualified path.
ServicesOf(pkg) ==
    {[path |-> <<pkg>> \o d.name, methods |-> CreateService(d)]
       : d \in CollectDeepServices(<<>>, Root[pkg])}

\* getGrpcPackageDefinition: exactly one of protoPath, packageDefinition.
DefinitionLoads(src) == src \in {"protoPath", "packageDefinition"}

\* lookupPackage: the package, or undefined when the root has no such key.
PackageFound(pkg) == pkg \in DOMAIN Root

--------------------------------------------------------------------------------
VARIABLES
    packageOption, \* options.package
    source,        \* how options give the definition
    graceful,      \* options.gracefulShutdown
    listenPc,      \* where listen() is: idle, binding, started, failed, done
    grpcClient,    \* this.grpcClient: "undefined", "server", "null"
    server,        \* the grpc-js Server: none, binding, serving, draining, shutdown
    added,         \* services added with addService: [path, methods]
    callbacks,     \* arguments of the listen callback: "ok" or "error"
    closePc,       \* where close() is: idle, waiting (tryShutdown), done
    inflight,      \* calls the server is running
    dropped        \* calls cut by forceShutdown

vars == <<packageOption, source, graceful, listenPc, grpcClient, server,
          added, callbacks, closePc, inflight, dropped>>

Init ==
    /\ packageOption \in PackageOptions
    /\ source \in SourceOptions
    /\ graceful \in GracefulOptions
    /\ listenPc = "idle"
    /\ grpcClient = "undefined"
    /\ server = "none"
    /\ added = {}
    /\ callbacks = <<>>
    /\ closePc = "idle"
    /\ inflight = 0
    /\ dropped = 0

config == <<packageOption, source, graceful>>

--------------------------------------------------------------------------------
(* listen(): createClient builds the server and awaits bindAsync.          *)
Listen ==
    /\ listenPc = "idle"
    /\ listenPc' = "binding"
    /\ server' = "binding"
    /\ UNCHANGED <<config, grpcClient, added, callbacks, closePc, inflight, dropped>>

(* bindAsync calls back.  On an error listen's catch calls back with it.   *)
(* On success the server serves the port, this.grpcClient is assigned and  *)
(* start() runs bindEvents: from here to the callback every await is on an *)
(* already settled promise (loadSync, createService), so no other macrotask*)
(* runs in between and the rest of listen is one step.  loadProto throws   *)
(* on a bad definition; the package loop adds the services of each package*)
(* in turn and throws at the first one lookupPackage does not find.        *)
BindFailed ==
    /\ BindMayFail
    /\ listenPc = "binding"
    /\ listenPc' = "failed"
    /\ server' = "none"
    /\ callbacks' = Append(callbacks, "error")
    /\ UNCHANGED <<config, grpcClient, added, closePc, inflight, dropped>>

FirstMissing ==
    LET missing == {i \in DOMAIN packageOption : ~PackageFound(packageOption[i])}
    IN  IF missing = {} THEN Len(packageOption) + 1 ELSE Min(missing)

StartupValid == DefinitionLoads(source) /\ FirstMissing > Len(packageOption)

BindEvents ==
    IF ~DefinitionLoads(source) THEN {}
    ELSE UNION {ServicesOf(packageOption[i]) : i \in 1..(FirstMissing - 1)}

\* Variant of start that calls back before awaiting bindEvents.
StartCallingBackFirst ==
    /\ listenPc = "binding"
    /\ listenPc' = "done"
    /\ server' = "serving"
    /\ grpcClient' = "server"
    /\ added' = BindEvents
    /\ callbacks' = IF StartupValid THEN Append(callbacks, "ok")
                    ELSE callbacks \o <<"ok", "error">>
    /\ UNCHANGED <<config, closePc, inflight, dropped>>

Start ==
    /\ listenPc = "binding"
    /\ listenPc' = "done"
    /\ server' = "serving"
    /\ grpcClient' = "server"
    /\ added' = BindEvents
    /\ callbacks' = Append(callbacks, IF StartupValid THEN "ok" ELSE "error")
    /\ UNCHANGED <<config, closePc, inflight, dropped>>

--------------------------------------------------------------------------------
(* close(): with no grpcClient it only sets the field to null.  Graceful:  *)
(* tryShutdown stops new calls and waits for the running ones; close       *)
(* resumes when it calls back.  Otherwise forceShutdown cuts every call.   *)
\* Variant whose graceful shutdown goes on accepting new calls.
CloseStillAccepting ==
    /\ closePc = "idle"
    /\ IF grpcClient = "server" /\ graceful
         THEN /\ closePc' = "waiting"
              /\ UNCHANGED <<server, grpcClient, inflight, dropped>>
         ELSE IF grpcClient = "server"
         THEN /\ server' = "shutdown"
              /\ dropped' = dropped + inflight
              /\ inflight' = 0
              /\ grpcClient' = "null"
              /\ closePc' = "done"
         ELSE /\ grpcClient' = "null"
              /\ closePc' = "done"
              /\ UNCHANGED <<server, inflight, dropped>>
    /\ UNCHANGED <<config, listenPc, added, callbacks>>

Close ==
    /\ closePc = "idle"
    /\ IF grpcClient = "server" /\ graceful
         THEN /\ server' = "draining"
              /\ closePc' = "waiting"
              /\ UNCHANGED <<grpcClient, inflight, dropped>>
         ELSE IF grpcClient = "server"
         THEN /\ server' = "shutdown"
              /\ dropped' = dropped + inflight
              /\ inflight' = 0
              /\ grpcClient' = "null"
              /\ closePc' = "done"
         ELSE /\ grpcClient' = "null"
              /\ closePc' = "done"
              /\ UNCHANGED <<server, inflight, dropped>>
    /\ UNCHANGED <<config, listenPc, added, callbacks>>

(* tryShutdown calls back once no call is running; close sets the field.   *)
ShutdownDone ==
    /\ closePc = "waiting"
    /\ inflight = 0
    /\ server' = "shutdown"
    /\ grpcClient' = "null"
    /\ closePc' = "done"
    /\ UNCHANGED <<config, listenPc, added, callbacks, inflight, dropped>>

(* A client calls a method.  grpc-js runs it only when the server accepts  *)
(* calls and an added service binds it; otherwise it answers UNIMPLEMENTED *)
(* or refuses, with no state change.                                       *)
Call ==
    /\ server = "serving"
    /\ inflight < MaxCalls
    /\ \E s \in added : s.methods # <<>>
    /\ inflight' = inflight + 1
    /\ UNCHANGED <<config, listenPc, grpcClient, server, added, callbacks, closePc, dropped>>

CallEnds ==
    /\ inflight > 0
    /\ inflight' = inflight - 1
    /\ UNCHANGED <<config, listenPc, grpcClient, server, added, callbacks, closePc, dropped>>

Next ==
    \/ Listen
    \/ BindFailed
    \/ Start
    \/ Close
    \/ ShutdownDone
    \/ Call
    \/ CallEnds

\* bindAsync, the rest of listen, tryShutdown and the handlers all finish;
\* when listen and close are called, and whether clients call, is not fair.
Fairness ==
    /\ WF_vars(BindFailed \/ Start)
    /\ WF_vars(ShutdownDone)
    /\ WF_vars(CallEnds)

Spec == Init /\ [][Next]_vars /\ Fairness

--------------------------------------------------------------------------------
TypeOK ==
    /\ listenPc \in {"idle", "binding", "failed", "done"}
    /\ grpcClient \in {"undefined", "server", "null"}
    /\ server \in {"none", "binding", "serving", "draining", "shutdown"}
    /\ closePc \in {"idle", "waiting", "done"}
    /\ inflight \in 0..MaxCalls
    /\ callbacks \in {<<>>, <<"ok">>, <<"error">>}

\* Spec 4.4: each collected service binds a method exactly when a handler is
\* registered for its shape under the short service name or the name on its
\* wire path, and a client-streaming method takes the reactive handler
\* before the pass-through one (createService, getMessageHandler,
\* createServiceMethod).
Registered(n, k, t, m) ==
    \/ CreatePattern(n, k, t) \in Handlers
    \/ CreatePattern(m.pathService, k, t) \in Handlers
SpecShape(n, k, m) ==
    IF m.requestStream # "true"
    THEN IF Registered(n, k, NO_STREAMING, m)
         THEN {IF m.responseStream THEN "serverStream" ELSE "unary"} ELSE {}
    ELSE IF Registered(n, k, RX_STREAMING, m) THEN {"requestStream"}
    ELSE IF Registered(n, k, PT_STREAMING, m) THEN {"streamCall"} ELSE {}
DispatchAsSpecified ==
    \A s \in added :
       \E p \in {i \in DOMAIN packageOption : PackageFound(packageOption[i])} :
       \E d \in CollectDeepServices(<<>>, Root[packageOption[p]]) :
          /\ s.path = <<packageOption[p]>> \o d.name
          /\ LET ms == d.service.children IN
             s.methods = [k \in {k \in DOMAIN ms : SpecShape(d.name, k, ms[k]) # {}} |->
                            CHOOSE x \in SpecShape(d.name, k, ms[k]) : TRUE]

\* A graceful close returns: tryShutdown stops new calls, so the running
\* ones end and it calls back (close).
CloseCompletes == closePc = "waiting" ~> closePc = "done"

\* Spec 5 and 7: the server serves only while listen has not failed and
\* close() has not returned: the handle is torn down on close(), and after
\* a listen error the server does not go on (close racing listen's
\* bindAsync; loadProto and lookupPackage failing after the bind).
ServesOnlyWhileListening ==
    server = "serving" => callbacks # <<"error">> /\ closePc # "done"
================================================================================
