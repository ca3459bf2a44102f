----------------------------- MODULE RmqConnection -----------------------------
(***************************************************************************)
(* ServerRMQ.start/close and its connection listeners (server-rmq.js       *)
(* 46-140): the amqp-connection-manager client emits 'connect',            *)
(* 'connectFailed' and 'disconnect' as it connects, fails and reconnects   *)
(* on its own; the server counts failed attempts, creates its channel on   *)
(* the first connect, and the channel wrapper runs setupChannel on every   *)
(* (re)connect.                                                            *)
(***************************************************************************)
EXTENDS Integers, Sequences, SequencesExt

CONSTANTS
    ConnectionAttemptOptions, \* values the maxConnectionAttempts option may have
    MaxManagerEvents,       \* bound on connection events the broker causes
    MaxListens,             \* bound on listen calls on one ServerRMQ instance
    WildcardsOptions,       \* values the wildcards option may have
    RoutingKeys,            \* patterns a handler may be registered under
    WildcardKeys            \* those containing '*' or '#'

ASSUME WildcardKeys \subseteq RoutingKeys

INFINITE_CONNECTION_ATTEMPTS == -1

VARIABLES
    manager,             \* the connection manager: "connecting" | "connected" | "closed"
    channel,             \* "null" | "created" | "consuming"
    setupPending,        \* the channel wrapper has a setup to run
    status,              \* last value of _status$: "none" | "connected" | "disconnected"
    connectionAttempts,
    connectFailedListener, \* the once('connectFailed') listener is still registered
    connectListener,     \* the once('connect') listener is still registered
    callbacks,           \* invocations of the listen callback: "ok" | "err"
    failuresBeforeConnect, \* 'connectFailed' events before any 'connect' (history)
    everConnected,       \* a 'connect' was emitted (history)
    selfClosed,          \* close() was called by the connectFailed listener
    events,              \* connection events so far
    maxConnectionAttempts, \* the option read by start(), fixed for the run
    wildcards,           \* the wildcards option, fixed for the run
    registered,          \* handler patterns in registration order (messageHandlers)
    bound,               \* routing keys the queue is bound to on the exchange
    wildcardHandlers,    \* patterns of the wildcardHandlers map, in insertion order
    listens,             \* listen calls so far: start() creates a new client each time
    channelOf            \* the listen whose connection created this.channel, 0 if none

vars == <<manager, channel, setupPending, status, connectionAttempts,
          connectFailedListener, connectListener, callbacks,
          failuresBeforeConnect, everConnected, selfClosed, events,
          maxConnectionAttempts, wildcards, registered, bound, wildcardHandlers,
          listens, channelOf>>

handlerVars == <<wildcards, registered, bound, wildcardHandlers>>
listenVars == <<listens, channelOf>>

Init ==
    /\ manager = "connecting"
    /\ channel = "null"
    /\ setupPending = FALSE
    /\ status = "none"
    /\ connectionAttempts = 0
    /\ connectFailedListener = TRUE
    /\ connectListener = TRUE
    /\ callbacks = <<>>
    /\ failuresBeforeConnect = 0
    /\ everConnected = FALSE
    /\ selfClosed = FALSE
    /\ events = 0
    /\ maxConnectionAttempts \in ConnectionAttemptOptions
    /\ wildcards \in WildcardsOptions
    /\ registered = <<>>
    /\ bound = {}
    /\ wildcardHandlers = <<>>
    /\ listens = 1
    /\ channelOf = 0

\* close(): close the channel and the connection; no more events follow.
Close ==
    /\ manager' = "closed"
    /\ setupPending' = FALSE

--------------------------------------------------------------------------------
(* 'connectFailed': the once-listener sets the status, returns when        *)
(* attempts are unlimited or a channel exists, and otherwise counts the    *)
(* attempt, closing and reporting the error on reaching the maximum.  The *)
(* manager keeps retrying.                                                 *)

\* Variant whose listener counts attempts even when they are unlimited.
ConnectFailedIgnoringInfinite ==
    /\ manager = "connecting"
    /\ events < MaxManagerEvents
    /\ events' = events + 1
    /\ failuresBeforeConnect' = IF everConnected THEN failuresBeforeConnect
                                ELSE failuresBeforeConnect + 1
    /\ IF connectFailedListener
         THEN /\ connectFailedListener' = FALSE
              /\ status' = "disconnected"
              /\ IF channel # "null"
                   THEN UNCHANGED <<connectionAttempts, manager, setupPending,
                                    selfClosed, callbacks>>
                   ELSE /\ connectionAttempts' = connectionAttempts + 1
                        /\ IF connectionAttempts + 1 = maxConnectionAttempts
                             THEN /\ Close
                                  /\ selfClosed' = TRUE
                                  /\ callbacks' = Append(callbacks, "err")
                             ELSE UNCHANGED <<manager, setupPending, selfClosed,
                                              callbacks>>
         ELSE UNCHANGED <<connectFailedListener, status, connectionAttempts,
                          manager, setupPending, selfClosed, callbacks>>
    /\ UNCHANGED <<channel, connectListener, everConnected, maxConnectionAttempts,
                   handlerVars, listenVars>>

\* Variant whose listener does not treat an existing channel as reconnecting.
ConnectFailedCountingReconnects ==
    /\ manager = "connecting"
    /\ events < MaxManagerEvents
    /\ events' = events + 1
    /\ failuresBeforeConnect' = IF everConnected THEN failuresBeforeConnect
                                ELSE failuresBeforeConnect + 1
    /\ IF connectFailedListener /\ maxConnectionAttempts # INFINITE_CONNECTION_ATTEMPTS
         THEN /\ connectFailedListener' = FALSE
              /\ status' = "disconnected"
              /\ connectionAttempts' = connectionAttempts + 1
              /\ IF connectionAttempts + 1 = maxConnectionAttempts
                   THEN /\ Close
                        /\ selfClosed' = TRUE
                        /\ callbacks' = Append(callbacks, "err")
                   ELSE UNCHANGED <<manager, setupPending, selfClosed, callbacks>>
         ELSE UNCHANGED <<connectFailedListener, status, connectionAttempts,
                          manager, setupPending, selfClosed, callbacks>>
    /\ UNCHANGED <<channel, connectListener, everConnected, maxConnectionAttempts,
                   handlerVars, listenVars>>

\* Variant that reports the error but leaves the connection open.
ConnectFailedReportingWithoutClose ==
    /\ manager = "connecting"
    /\ events < MaxManagerEvents
    /\ events' = events + 1
    /\ failuresBeforeConnect' = IF everConnected THEN failuresBeforeConnect
                                ELSE failuresBeforeConnect + 1
    /\ IF connectFailedListener
         THEN /\ connectFailedListener' = FALSE
              /\ status' = "disconnected"
              /\ IF maxConnectionAttempts = INFINITE_CONNECTION_ATTEMPTS
                    \/ channel # "null"
                   THEN UNCHANGED <<connectionAttempts, selfClosed, callbacks>>
                   ELSE /\ connectionAttempts' = connectionAttempts + 1
                        /\ IF connectionAttempts + 1 = maxConnectionAttempts
                             THEN /\ selfClosed' = TRUE
                                  /\ callbacks' = Append(callbacks, "err")
                             ELSE UNCHANGED <<selfClosed, callbacks>>
         ELSE UNCHANGED <<connectFailedListener, status, connectionAttempts,
                          selfClosed, callbacks>>
    /\ UNCHANGED <<manager, setupPending, channel, connectListener,
                   everConnected, maxConnectionAttempts, handlerVars, listenVars>>

ConnectFailed ==
    /\ manager = "connecting"
    /\ events < MaxManagerEvents
    /\ events' = events + 1
    /\ failuresBeforeConnect' = IF everConnected THEN failuresBeforeConnect
                                ELSE failuresBeforeConnect + 1
    /\ IF connectFailedListener
         THEN /\ connectFailedListener' = FALSE
              /\ status' = "disconnected"
              /\ IF maxConnectionAttempts = INFINITE_CONNECTION_ATTEMPTS
                    \/ channel # "null"
                   THEN UNCHANGED <<connectionAttempts, manager, setupPending,
                                    selfClosed, callbacks>>
                   ELSE /\ connectionAttempts' = connectionAttempts + 1
                        /\ IF connectionAttempts + 1 = maxConnectionAttempts
                             THEN /\ Close
                                  /\ selfClosed' = TRUE
                                  /\ callbacks' = Append(callbacks, "err")
                             ELSE UNCHANGED <<manager, setupPending, selfClosed,
                                              callbacks>>
         ELSE UNCHANGED <<connectFailedListener, status, connectionAttempts,
                          manager, setupPending, selfClosed, callbacks>>
    /\ UNCHANGED <<channel, connectListener, everConnected, maxConnectionAttempts,
                   handlerVars, listenVars>>

(* 'connect': the once-listener creates the channel on the first connect;  *)
(* the permanent listener sets the status; the channel wrapper then runs   *)
(* its setup on this connection.                                           *)
Connect ==
    /\ manager = "connecting"
    /\ events < MaxManagerEvents
    /\ events' = events + 1
    /\ manager' = "connected"
    /\ everConnected' = TRUE
    /\ connectListener' = FALSE
    /\ IF connectListener /\ channel = "null"
         THEN /\ channel' = "created"
              /\ channelOf' = listens
         ELSE UNCHANGED <<channel, channelOf>>
    /\ status' = "connected"
    \* The channel wrapper sets up on the connections of its own client only.
    /\ setupPending' = (channel' # "null" /\ channelOf' = listens)
    /\ UNCHANGED <<connectionAttempts, connectFailedListener, callbacks,
                   failuresBeforeConnect, selfClosed, maxConnectionAttempts,
                   handlerVars, listens>>

(* initializeWildcardHandlersIfExist: unless the map already has entries, *)
(* add one entry per registered pattern that converts to a regex, in the  *)
(* order of messageHandlers.                                               *)

\* Variant without the early return: every setup adds the entries again,
\* under new RegExp keys.
InitializeWildcardHandlersAlways ==
    wildcardHandlers \o SelectSeq(registered, LAMBDA k : k \in WildcardKeys)

InitializeWildcardHandlersIfExist ==
    IF wildcardHandlers # <<>> THEN wildcardHandlers
    ELSE SelectSeq(registered, LAMBDA k : k \in WildcardKeys)

(* setupChannel: assert queue/exchange, bind, prefetch, consume, then the  *)
(* listen callback.  With wildcards on, the queue is bound to every        *)
(* registered pattern and the wildcard handlers are initialised.           *)
SetupChannel ==
    /\ setupPending
    /\ manager = "connected"
    /\ setupPending' = FALSE
    /\ channel' = "consuming"
    /\ callbacks' = Append(callbacks, "ok")
    /\ IF wildcards
         THEN /\ bound' = bound \cup ToSet(registered)
              /\ wildcardHandlers' = InitializeWildcardHandlersIfExist
         ELSE UNCHANGED <<bound, wildcardHandlers>>
    /\ UNCHANGED <<manager, status, connectionAttempts, connectFailedListener,
                   connectListener, failuresBeforeConnect, everConnected,
                   selfClosed, events, maxConnectionAttempts, wildcards,
                   registered, listenVars>>

(* addHandler (Server base): a handler registered under a new pattern is  *)
(* appended to messageHandlers, before listen or while the server runs.   *)
AddHandler ==
    \E k \in RoutingKeys \ ToSet(registered) :
        /\ registered' = Append(registered, k)
        /\ UNCHANGED <<manager, channel, setupPending, status,
                       connectionAttempts, connectFailedListener,
                       connectListener, callbacks, failuresBeforeConnect,
                       everConnected, selfClosed, events,
                       maxConnectionAttempts, wildcards, bound,
                       wildcardHandlers, listenVars>>

(* 'disconnect': the listener sets the status; the manager reconnects.    *)
Disconnect ==
    /\ manager = "connected"
    /\ events < MaxManagerEvents
    /\ events' = events + 1
    /\ manager' = "connecting"
    /\ status' = "disconnected"
    /\ setupPending' = FALSE
    /\ UNCHANGED <<channel, connectionAttempts, connectFailedListener,
                   connectListener, callbacks, failuresBeforeConnect,
                   everConnected, selfClosed, maxConnectionAttempts, handlerVars, listenVars>>

(* The application calls close().                                          *)
UserClose ==
    /\ manager # "closed"
    /\ Close
    /\ UNCHANGED <<channel, status, connectionAttempts, connectFailedListener,
                   connectListener, callbacks, failuresBeforeConnect,
                   everConnected, selfClosed, events, maxConnectionAttempts, handlerVars, listenVars>>

(* listen(callback) again on a closed server: start() creates a new client *)
(* and registers the once-listeners again.  close() left this.channel (the *)
(* closed wrapper of the old client) and connectionAttempts as they were.  *)
(* The new callback's invocations are recorded afresh, as is the history  *)
(* of this listen.                                                         *)
Relisten ==
    /\ manager = "closed"
    /\ listens < MaxListens
    /\ listens' = listens + 1
    /\ manager' = "connecting"
    /\ connectListener' = TRUE
    /\ connectFailedListener' = TRUE
    /\ callbacks' = <<>>
    /\ failuresBeforeConnect' = 0
    /\ everConnected' = FALSE
    /\ selfClosed' = FALSE
    /\ UNCHANGED <<channel, channelOf, setupPending, status, connectionAttempts,
                   events, maxConnectionAttempts, handlerVars>>

Next ==
    \/ Relisten
    \/ ConnectFailed
    \/ Connect
    \/ SetupChannel
    \/ Disconnect
    \/ UserClose
    \/ AddHandler

\* Once connected, the channel wrapper runs its pending setup (the broker
\* answers the asserts, binds and prefetch); broker events and the user's
\* calls get no fairness.
Spec == Init /\ [][Next]_vars /\ WF_vars(SetupChannel)

--------------------------------------------------------------------------------
\* Attempts are counted only against a finite budget, by the once-listener
\* of each listen: at most one per listen, and never reset.
AttemptRange ==
    IF maxConnectionAttempts = INFINITE_CONNECTION_ATTEMPTS THEN {0}
    ELSE 0..listens

TypeOK ==
    /\ manager \in {"connecting", "connected", "closed"}
    /\ channel \in {"null", "created", "consuming"}
    /\ listens \in 1..MaxListens
    /\ channelOf \in 0..MaxListens
    /\ setupPending \in BOOLEAN
    /\ status \in {"none", "connected", "disconnected"}
    /\ connectionAttempts \in AttemptRange
    /\ connectFailedListener \in BOOLEAN
    /\ connectListener \in BOOLEAN
    /\ callbacks \in Seq({"ok", "err"})
    /\ failuresBeforeConnect \in 0..MaxManagerEvents
    /\ everConnected \in BOOLEAN
    /\ selfClosed \in BOOLEAN
    /\ events \in 0..MaxManagerEvents
    /\ maxConnectionAttempts \in ConnectionAttemptOptions
    /\ wildcards \in BOOLEAN
    /\ registered \in Seq(RoutingKeys)
    /\ bound \subseteq RoutingKeys
    /\ wildcardHandlers \in Seq(WildcardKeys)

\* Spec 4.3/6/8: with a finite maxConnectionAttempts, once that many
\* attempts have failed with no successful connect in between, the server
\* has closed itself and reported the error through the listen callback;
\* and the listen callback, called at the end of the one-time channel setup,
\* is called once: setupChannel ends in callback() and the channel wrapper
\* reruns it on every reconnect; and (spec 4.3, "test the incoming routing
\* key against each registered wildcard regex") every wildcard pattern the
\* queue is bound to has its regex among the wildcard handlers, though the
\* handlers are built only by the first setup that finds one and a pattern
\* registered later is bound on the next reconnect but never matched; and
\* a listen whose connection connects sets up its channel and calls back,
\* though after close() and a new listen the once('connect') listener finds
\* the old, closed this.channel and returns.
StartAsSpecified ==
    /\ (/\ maxConnectionAttempts # INFINITE_CONNECTION_ATTEMPTS
        /\ ~everConnected
        /\ failuresBeforeConnect >= maxConnectionAttempts)
          ~> (manager = "closed" /\ "err" \in {callbacks[i] : i \in DOMAIN callbacks})
    /\ <>[](Len(callbacks) <= 1)
    /\ \A k \in WildcardKeys :
          (k \in bound) ~> (k \in ToSet(wildcardHandlers))
    /\ (manager = "connected")
          ~> (manager # "connected" \/ "ok" \in ToSet(callbacks))

\* Spec 6: a server that reports reconnection exhaustion through the listen
\* callback has closed itself and does not silently continue: the error is
\* the last thing the callback receives and the connection is closed.
\* The connectFailed listener awaits close() before calling back.
ErrorReportedLast ==
    \A i \in DOMAIN callbacks :
        callbacks[i] = "err" => i = Len(callbacks) /\ manager = "closed"

\* A server that has connected once is never closed by failed reconnection
\* attempts: after a disconnect the manager's own retries are tolerated,
\* whatever the attempt budget.
NoSelfCloseAfterConnect == everConnected => ~selfClosed

\* Spec 4.3/5: each registered wildcard pattern is compiled once: however
\* many reconnects rerun setupChannel, the wildcard handlers hold each
\* pattern at most once and only patterns registered with a handler.  The
\* map is keyed by a new RegExp object per build, so only the early return
\* of initializeWildcardHandlersIfExist keeps a rebuild from duplicating.
WildcardHandlersCompiledOnce ==
    /\ IsInjective(wildcardHandlers)
    /\ ToSet(wildcardHandlers) \subseteq ToSet(registered)
================================================================================
