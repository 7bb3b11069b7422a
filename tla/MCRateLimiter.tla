---------------------------- MODULE MCRateLimiter ----------------------------
(* TLC instances of RateLimiter. *)
EXTENDS RateLimiter, TLC

\* All addresses in shard 1: two addresses make the loops of the sweep run twice.
OneShard == [ip \in IPs |-> 1]

Symmetry == Permutations(Requests) \cup Permutations(Buckets) \cup Permutations(IPs)
=============================================================================
