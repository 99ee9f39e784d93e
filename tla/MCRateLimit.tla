---------------------------- MODULE MCRateLimit ----------------------------
(***************************************************************************)
(* RateLimit for TLC: a bucket of two requests that takes three ticks to   *)
(* refill for one, two ticks to the second.                                *)
(***************************************************************************)
EXTENDS RateLimit

MCCapacity == [k \in Keys |-> 6]
MCRate     == [k \in Keys |-> 1]

\* One process ahead of the other by half a second.
OneAhead == [p \in Processes |-> IF p = "api2" THEN 1 ELSE 0]
=============================================================================
