--------------------------- MODULE MCRateLimiter ---------------------------
(* Model values for checking RateLimiter: two keys, a limiter that is off  *)
(* or admits two events in a window of two, and time for three windows, so *)
(* that events expire one at a time and together.                          *)
EXTENDS RateLimiter, TLC
CONSTANTS k1, k2

MCKeys == {k1, k2}

MCSymmetry == Permutations(MCKeys)
=============================================================================
