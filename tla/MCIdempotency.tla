--------------------------- MODULE MCIdempotency ---------------------------
EXTENDS Idempotency, TLC

CONSTANTS q1, q2, q3, q4

\* Any two requests can be exchanged: nothing names one of them.
Anyone == Permutations(Requests)
=============================================================================
