-------------------------- MODULE MCRateLimiter --------------------------
(* A small instance of RateLimiter: two requests per window of two ticks,   *)
(* and a clock that runs for two windows.                                  *)
EXTENDS RateLimiter

CONSTANTS k1, a1

OneApiKey == {k1}
OneAddress == {a1}
Limits == [k \in {k1, a1} |-> 2]

=============================================================================
