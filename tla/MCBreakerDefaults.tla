--------------------------- MODULE MCBreakerDefaults ---------------------------
(* The circuit breaker with the configuration it has unless it is given another. *)
EXTENDS CircuitBreaker

MCDefaults == {[failureThreshold |-> 5, resetTimeout |-> 2, halfOpenMaxRequests |-> 1,
                successThreshold |-> 3]}
================================================================================
