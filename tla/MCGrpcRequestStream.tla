-------------------------- MODULE MCGrpcRequestStream --------------------------
(* Model-checking instances of GrpcRequestStream.                           *)
EXTENDS GrpcRequestStream

CONSTANTS errCancelled, errUnavailable

\* Two messages suffice for a reordering or a duplicate to show.
MCMaxMessages == 2

\* The messages grpc-js gives a cancelled and a failed call:
\* "1 CANCELLED: Cancelled on client", "14 UNAVAILABLE: Connection dropped".
MCErrorMessage ==
    [e \in {errCancelled, errUnavailable} |->
        IF e = errCancelled THEN <<"1", "cancelled:", "cancelled", "on", "client">>
                            ELSE <<"14", "unavailable:", "connection", "dropped">>]

\* The client only sends messages and ends.
MCBothErrors == {errCancelled, errUnavailable}
================================================================================
