------------------------------- MODULE TcpServer -------------------------------
(***************************************************************************)
(* ServerTCP's listening lifecycle (server-tcp.js 30-45, 77-87, 101-135):  *)
(* listen(callback), close(), and the listeners registered on the          *)
(* net.Server: 'listening' sets the status, 'error' reports bind errors,   *)
(* and 'close' runs handleClose, which schedules a re-listen after         *)
(* retryDelay while the retry budget lasts.                                *)
(*                                                                         *)
(* The net.Server is "idle" (not bound), "binding" (listen() in progress), *)
(* "listening", or "closing" (server.close() called, 'close' pending).     *)
(* A close not asked for by ServerTCP.close() is an environment step       *)
(* (e.g. server.close() through unwrap()).                                 *)
(***************************************************************************)
EXTENDS Integers, Sequences, FiniteSetsExt

CONSTANTS
    RetryAttempts,  \* the retryAttempts option; 0 when not set
    MaxCloses,      \* bound on closes the environment causes
    MaxSockets      \* bound on client connections open at once

BindErrors == {"EADDRINUSE", "ECONNREFUSED", "EACCES"}

VARIABLES
    server,               \* "idle" | "binding" | "listening" | "closing"
    isManuallyTerminated,
    retryAttemptsCount,
    timerPending,         \* a re-listen is scheduled with setTimeout
    status,               \* last value of _status$
    listenCalled,         \* listen(callback) was called
    errorListener,        \* the once('error') listener of listen() is registered
    callbacks,            \* invocations of the listen callback
    unintendedCloses,     \* 'close' events before close() was called (history)
    sockets               \* accepted client connections still open

vars == <<server, isManuallyTerminated, retryAttemptsCount, timerPending,
          status, listenCalled, errorListener, callbacks, unintendedCloses,
          sockets>>

Init ==
    /\ server = "idle"
    /\ isManuallyTerminated = FALSE
    /\ retryAttemptsCount = 0
    /\ timerPending = FALSE
    /\ status = "none"
    /\ listenCalled = FALSE
    /\ errorListener = FALSE
    /\ callbacks = <<>>
    /\ unintendedCloses = 0
    /\ sockets = 0

--------------------------------------------------------------------------------
(* listen(callback): register once('error'), then server.listen with the   *)
(* callback as a 'listening' listener.                                     *)
Listen ==
    /\ ~listenCalled
    /\ server = "idle"
    /\ listenCalled' = TRUE
    /\ errorListener' = TRUE
    /\ server' = "binding"
    /\ UNCHANGED <<isManuallyTerminated, retryAttemptsCount, timerPending,
                   status, callbacks, unintendedCloses, sockets>>

(* 'listening': status connected; listen() passed its callback to         *)
(* server.listen, which runs it once, on the first 'listening'.            *)
Listening ==
    /\ server = "binding"
    /\ server' = "listening"
    /\ status' = "connected"
    /\ callbacks' = IF \E i \in DOMAIN callbacks : callbacks[i] = "ok"
                    THEN callbacks ELSE Append(callbacks, "ok")
    /\ UNCHANGED <<isManuallyTerminated, retryAttemptsCount, timerPending,
                   listenCalled, errorListener, unintendedCloses, sockets>>

(* 'error' while binding: the once-listener reports EADDRINUSE and         *)
(* ECONNREFUSED to the callback with status disconnected; the permanent    *)
(* listener sets disconnected on ECONNREFUSED.  No 'close' follows.        *)
BindError ==
    /\ server = "binding"
    /\ \E code \in BindErrors :
         /\ server' = "idle"
         /\ errorListener' = FALSE
         /\ IF errorListener /\ code \in {"EADDRINUSE", "ECONNREFUSED"}
              THEN /\ status' = "disconnected"
                   /\ callbacks' = Append(callbacks, "err")
              ELSE /\ status' = IF code = "ECONNREFUSED" THEN "disconnected" ELSE status
                   /\ UNCHANGED callbacks
    /\ UNCHANGED <<isManuallyTerminated, retryAttemptsCount, timerPending,
                   listenCalled, unintendedCloses, sockets>>

--------------------------------------------------------------------------------
(* handleClose: unless terminated by close(), the option unset, or the     *)
(* budget used up, count the attempt and schedule server.listen.           *)

\* Variant that allows one retry more than the budget.
HandleCloseOffByOne ==
    IF isManuallyTerminated \/ RetryAttempts = 0
       \/ retryAttemptsCount > RetryAttempts
    THEN UNCHANGED <<retryAttemptsCount, timerPending>>
    ELSE /\ retryAttemptsCount' = retryAttemptsCount + 1
         /\ timerPending' = TRUE

\* Variant that retries after close() too.
HandleCloseIgnoringTermination ==
    IF RetryAttempts = 0 \/ retryAttemptsCount >= RetryAttempts
    THEN UNCHANGED <<retryAttemptsCount, timerPending>>
    ELSE /\ retryAttemptsCount' = retryAttemptsCount + 1
         /\ timerPending' = TRUE

HandleClose ==
    IF isManuallyTerminated \/ RetryAttempts = 0
       \/ retryAttemptsCount >= RetryAttempts
    THEN UNCHANGED <<retryAttemptsCount, timerPending>>
    ELSE /\ retryAttemptsCount' = retryAttemptsCount + 1
         /\ timerPending' = TRUE

(* The environment closes the listening server behind ServerTCP's back.    *)
ExternalClose ==
    /\ server = "listening"
    /\ unintendedCloses < MaxCloses
    /\ server' = "closing"
    /\ UNCHANGED <<isManuallyTerminated, retryAttemptsCount, timerPending,
                   status, listenCalled, errorListener, callbacks,
                   unintendedCloses, sockets>>

(* A client connects to the listening server (bindHandler wraps the       *)
(* socket), or an open connection ends.                                    *)
Accept ==
    /\ server = "listening"
    /\ sockets < MaxSockets
    /\ sockets' = sockets + 1
    /\ UNCHANGED <<server, isManuallyTerminated, retryAttemptsCount,
                   timerPending, status, listenCalled, errorListener,
                   callbacks, unintendedCloses>>

SocketEnd ==
    /\ sockets > 0
    /\ sockets' = sockets - 1
    /\ UNCHANGED <<server, isManuallyTerminated, retryAttemptsCount,
                   timerPending, status, listenCalled, errorListener,
                   callbacks, unintendedCloses>>

(* 'close', emitted by a closed net.Server once its last connection has    *)
(* ended: status disconnected, then handleClose.                           *)
CloseEvent ==
    /\ server = "closing"
    /\ sockets = 0
    /\ server' = "idle"
    /\ status' = "disconnected"
    /\ unintendedCloses' = IF isManuallyTerminated THEN unintendedCloses
                           ELSE unintendedCloses + 1
    /\ HandleClose
    /\ UNCHANGED <<isManuallyTerminated, listenCalled, errorListener, callbacks,
                   sockets>>

(* The retry timer fires: server.listen(port, host) without a callback.    *)
(* listen() on a bound server throws ERR_SERVER_ALREADY_LISTEN; the model  *)
(* lets it bind only when idle.                                            *)
RetryTimer ==
    /\ timerPending
    /\ timerPending' = FALSE
    /\ server' = IF server = "idle" THEN "binding" ELSE server
    /\ UNCHANGED <<isManuallyTerminated, retryAttemptsCount, status,
                   listenCalled, errorListener, callbacks, unintendedCloses,
                   sockets>>

(* close(): mark manual termination and close the server; a server that is *)
(* not listening just reports ERR_SERVER_NOT_RUNNING to no one.  The       *)
(* retry timer is not cleared.                                             *)
Close ==
    /\ listenCalled
    /\ ~isManuallyTerminated
    /\ isManuallyTerminated' = TRUE
    /\ server' = IF server = "listening" THEN "closing" ELSE server
    /\ UNCHANGED <<retryAttemptsCount, timerPending, status, listenCalled,
                   errorListener, callbacks, unintendedCloses, sockets>>

Next ==
    \/ Listen
    \/ Listening
    \/ BindError
    \/ Accept
    \/ SocketEnd
    \/ ExternalClose
    \/ CloseEvent
    \/ RetryTimer
    \/ Close

(* The operating system answers every server.listen with 'listening' or   *)
(* 'error', a closed server with no connections emits 'close', and a       *)
(* setTimeout fires: these steps are weakly fair.  Clients, close() and   *)
(* external closes are not obliged to happen.                              *)
Fairness ==
    /\ WF_vars(Listening \/ BindError)
    /\ WF_vars(CloseEvent)
    /\ WF_vars(RetryTimer)

Spec == Init /\ [][Next]_vars /\ Fairness

--------------------------------------------------------------------------------
TypeOK ==
    /\ server \in {"idle", "binding", "listening", "closing"}
    /\ isManuallyTerminated \in BOOLEAN
    /\ retryAttemptsCount \in 0..RetryAttempts
    /\ timerPending \in BOOLEAN
    /\ status \in {"none", "connected", "disconnected"}
    /\ listenCalled \in BOOLEAN
    /\ errorListener \in BOOLEAN
    /\ callbacks \in Seq({"ok", "err"})
    /\ unintendedCloses \in 0..MaxCloses
    /\ sockets \in 0..MaxSockets

\* Spec 4.2/8: every close not asked for by close() schedules one re-listen
\* while the budget lasts, and none after: the attempts made are exactly the
\* unintended closes, capped at retryAttempts, and never reset.
RetriesMatchCloses ==
    retryAttemptsCount = Min({unintendedCloses, RetryAttempts})

\* The listen lifecycle of spec 4.2 and 6, as four obligations:
\*  - a re-listen scheduled by handleClose ends listening again, unless
\*    close() intervenes or the retry budget is spent ("the attempt counter
\*    increments per failed cycle"): a re-listen that fails to bind emits
\*    'error' and no 'close', so handleClose is never reached again;
\*  - after close() the server eventually stops listening for good ("close()
\*    suppresses the retry path"), though a retry timer already set by
\*    handleClose is not cleared and re-binds the server;
\*  - the listen callback is invoked at most once ("reported once"), though
\*    the once('error') listener survives a successful listen and reports a
\*    later re-listen EADDRINUSE to the same callback;
\*  - a spent retry budget is reported through the listen callback (spec 6,
\*    "reconnection exhaustion ... reports the terminal error").
ListenLifecycleAsSpecified ==
    /\ (timerPending /\ ~isManuallyTerminated)
          ~> (server = "listening" \/ isManuallyTerminated
              \/ retryAttemptsCount = RetryAttempts)
    /\ isManuallyTerminated ~> [](server # "listening")
    /\ listenCalled ~> [](Len(callbacks) <= 1)
    /\ (/\ RetryAttempts > 0 /\ retryAttemptsCount = RetryAttempts
        /\ server = "idle" /\ ~timerPending /\ ~isManuallyTerminated)
          ~> \E i \in DOMAIN callbacks : callbacks[i] = "err"
================================================================================
