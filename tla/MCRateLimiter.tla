--------------------------- MODULE MCRateLimiter ---------------------------
(* An instance of RateLimiter for TLC.  The requests are interchangeable,  *)
(* and only invariants are checked.                                        *)
EXTENDS RateLimiter, TLC

CONSTANTS c1, c2, c3, c4

CallSymmetry == Permutations(Calls)
=============================================================================
