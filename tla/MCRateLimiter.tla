---------------------------- MODULE MCRateLimiter ----------------------------
(* RateLimiter for TLC: clients are interchangeable.                       *)
EXTENDS RateLimiter, TLC

Symmetry == Permutations(Clients)

=============================================================================
