----------------------------- MODULE MCGrpcWriter -----------------------------
(* Model-checking instance of GrpcWriter.                                   *)
EXTENDS GrpcWriter

\* Four values against a high-water mark of two: writes are both accepted
\* and refused, values queue behind a refused write, and a drain can stop
\* half way through the queue.
MCMaxValues == 4
MCHighWaterMark == 2
================================================================================
