------------------------------- MODULE MCServer -------------------------------
(* Environments for TLC, in units of 15 s: every combination of short timeouts, *)
(* and every other variable set to what validate refuses, or to text.          *)
EXTENDS Server

\* bound: the longest timeout that is set
CONSTANT MaxSetting

MCDefault ==
    [n \in Names |->
       CASE n = "WriteTimeout" -> 4
         [] n = "QueueTimeout" -> 2
         [] n = "MaxConcurrent" -> Limit
         [] n = "QueueSize" -> Room
         [] n = "StripThreshold" -> 0
         [] OTHER -> 1]

MCEnvironments ==
    [value : UNION {[D -> 0..MaxSetting] : D \in SUBSET Durations}
             \cup {[m \in {n} |-> i] : n \in Limits, i \in {-1, 0}}
             \cup {[m \in {"StripThreshold"} |-> Limit]},
     malformed : {{}}]
    \cup {[value |-> [m \in {n} |-> 1], malformed |-> {n}] : n \in Names}
=============================================================================
