------------------------------ MODULE MCRateMeter ------------------------------
(* An instance of RateMeter for TLC. *)
EXTENDS RateMeter

\* A shard for each of two addresses, so that the sweep has an order to follow.
TwoShards == CHOOSE f \in [IPs -> 1..2] : \A i, j \in IPs : f[i] = f[j] => i = j
=============================================================================
