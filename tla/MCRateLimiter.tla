---------------------------- MODULE MCRateLimiter ----------------------------
(* The instances of RateLimiter that TLC checks: the cfg files give the       *)
(* constants; requests are interchangeable.                                   *)
EXTENDS RateLimiter, TLC

Symmetry == Permutations(Requests)
=============================================================================
