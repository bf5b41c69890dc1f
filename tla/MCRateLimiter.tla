--------------------------- MODULE MCRateLimiter ---------------------------
(* Small instances of RateLimiterTokens: two calls of WaitN, one of them   *)
(* with a context that may be cancelled.                                   *)
EXTENDS RateLimiterTokens

CONSTANTS v, w

MCWaiters == {v, w}
MCNeed == [x \in {v, w} |-> IF x = v THEN 2 ELSE 3]
MCCancellable == {w}
=============================================================================
