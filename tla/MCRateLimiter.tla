--------------------------- MODULE MCRateLimiter ---------------------------
(* Constants that a configuration file cannot write, for model checking    *)
(* RateLimiter.                                                            *)
EXTENDS RateLimiter, TLC

CONSTANTS c1, c2

CallerSymmetry == Permutations(Callers)
============================================================================
