-------------------------- MODULE MCResponseExchange --------------------------
(* Two concurrent messages over a pattern with a handler and one without;  *)
(* handlers emit up to two values; both transports, acks on and off.      *)
EXTENDS ResponseExchange

CONSTANTS m1, m2

MCMessages     == {m1, m2}
MCPatterns     == {"sum", "unknown"}
MCRegistered   == {"sum"}
MCMaxEmissions == 2

MCTransports   == {"tcp", "rmq"}
MCNoAckOptions == BOOLEAN
================================================================================
