------------------------- MODULE MCCircuitBreaker -------------------------
(* An instance of CircuitBreaker for TLC. *)
EXTENDS CircuitBreaker

CONSTANTS c1, c2, i1

MCHome == [c \in Calls |-> i1]

(* As for geocoding, an isolate opens earlier than the object, and closes    *)
(* after fewer successes.                                                    *)
MCFailureThreshold == [h \in Hosts |-> IF h = Object THEN 2 ELSE 1]
MCSuccessThreshold == [h \in Hosts |-> IF h = Object THEN 2 ELSE 1]
=============================================================================
