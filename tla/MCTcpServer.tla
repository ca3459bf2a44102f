------------------------------ MODULE MCTcpServer ------------------------------
(* Model-checking instances of TcpServer.                                   *)
EXTENDS TcpServer

\* Spec section 8 uses retryAttempts = 2; four retries and five closes let
\* the budget run out with closes to spare.
MCRetryAttempts == 4
MCMaxCloses == 5

\* Three connections: a closed server waits for all to end before 'close'.
MCMaxSockets == 3
================================================================================
