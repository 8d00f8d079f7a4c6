--------------------------- MODULE MCRateLimiter ---------------------------
(* Instances of RateLimiter for TLC: two threads.                          *)
EXTENDS RateLimiter

CONSTANTS t1, t2

MCCallers == {t1, t2}
=============================================================================
