--------------------------- MODULE MCCircuitBreaker ---------------------------
(* Small values of the constants of CircuitBreaker for TLC.                 *)
EXTENDS CircuitBreaker

\* Zero disables the drawdown check; 9 against 10 is exactly the limit of 10%,
\* 8 is beyond it.
MCValues == {0, 8, 9, 10}
=============================================================================
