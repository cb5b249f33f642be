---------------------------- MODULE MCRateLimiter ----------------------------
(* RateLimiter for TLC: threads are alike, and so are the buckets that are  *)
(* not watched.                                                             *)
EXTENDS RateLimiter, TLC

LimiterSymmetry ==
  Permutations(Threads) \cup Permutations(Buckets \ {Watched})
=============================================================================
