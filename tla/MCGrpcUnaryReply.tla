--------------------------- MODULE MCGrpcUnaryReply ---------------------------
(* The three single-reply paths; a handler emits up to two values among a truthy one,  *)
(* the falsy 0 and undefined.                                              *)
EXTENDS GrpcUnaryReply

MCModes        == {"unary", "clientStream", "streamCall"}
MCValues       == {"1", "0", "undefined"}
MCMaxEmissions == 2
================================================================================
