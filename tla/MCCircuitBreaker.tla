-------------------------- MODULE MCCircuitBreaker --------------------------
\* CircuitBreaker for TLC; the configuration gives the constants.
EXTENDS CircuitBreaker
=============================================================================
