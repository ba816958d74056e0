--------------------------- MODULE MCRateLimiter ---------------------------
(* The callers are interchangeable.                                        *)
EXTENDS RateLimiter, TLC

CallerSymmetry == Permutations(Caller)
=============================================================================
