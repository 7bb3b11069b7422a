---------------------------- MODULE MCWaitingRoom ----------------------------
(* TLC instances of WaitingRoom. *)
EXTENDS WaitingRoom, TLC

CONSTANT Cores  \* GOMAXPROCS

\* Requests are interchangeable: nothing orders them but the queue.
Symmetry == Permutations(Requests)

\* "The overshoot is bounded to at most GOMAXPROCS additional requests".
\* Broken by goroutines that were signalled and have not been scheduled yet:
\* each release frees the counter for a direct admission and signals a waiter,
\* which later claims its slot without looking at the limit.
OvershootWithinCores == Cardinality(In({"backend"})) <= MaxConcurrent + Cores
=============================================================================
