---------------------------- MODULE MCRateLimiter ----------------------------
(* RateLimiter on small clocks.                                              *)
EXTENDS RateLimiterProps, TLC

Symmetry == Permutations(Workers)
=============================================================================
