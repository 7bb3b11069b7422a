----------------------------- MODULE TokenBuckets -----------------------------
(***************************************************************************)
(* What the rate limiter promises, without maps, locks or lazy refills: a   *)
(* token bucket per address that fills by itself as time passes, and every  *)
(* request is answered from the bucket of its address.                      *)
(*                                                                         *)
(* The one exception is what a deleted bucket costs: a request that was in  *)
(* progress while its address was forgotten may be answered from nowhere.   *)
(***************************************************************************)
EXTENDS Integers

CONSTANTS
    IPs, Requests,
    Full,       \* the capacity of a bucket
    Rate, Cost, \* what flows in per tick, what a request costs
    Slack,      \* what a clock that is set back can hide from a bucket
    Nobody      \* not an address

VARIABLES
    level,      \* level[ip]: what the bucket of ip holds
    answer,     \* answer[r]: "asked", or what r was told
    client,     \* client[r]: the address r comes from, Nobody when r does not ask
    excused     \* requests whose address was forgotten while they were asking

vars == <<level, answer, client, excused>>

Answers == {"ready", "asked", "allowed", "refused"}

Init ==
    /\ level = [ip \in IPs |-> Full]
    /\ answer = [r \in Requests |-> "ready"]
    /\ client = [r \in Requests |-> Nobody]
    /\ excused = {}

Asking(r) == answer[r] = "asked"

Tell(r, a) ==
    /\ answer' = [answer EXCEPT ![r] = a]
    /\ client' = [client EXCEPT ![r] = Nobody]

Ask(r, ip) ==
    /\ ~Asking(r)
    /\ answer' = [answer EXCEPT ![r] = "asked"]
    /\ client' = [client EXCEPT ![r] = ip]
    /\ UNCHANGED <<level, excused>>

Allow(r) ==
    /\ Asking(r) /\ r \notin excused
    /\ level[client[r]] >= Cost
    /\ level' = [level EXCEPT ![client[r]] = @ - Cost]
    /\ Tell(r, "allowed")
    /\ UNCHANGED excused

Refuse(r) ==
    /\ Asking(r) /\ r \notin excused
    /\ level[client[r]] < Cost
    /\ Tell(r, "refused")
    /\ UNCHANGED <<level, excused>>

AnswerExcused(r) ==
    /\ Asking(r) /\ r \in excused
    /\ \E a \in {"allowed", "refused"} : Tell(r, a)
    /\ excused' = excused \ {r}
    /\ UNCHANGED level

\* Only an address whose bucket is full is forgotten, so nothing is given away
\* but the answers to the requests in progress.
Forget(ip) ==
    /\ level[ip] >= Full - Slack
    /\ level' = [level EXCEPT ![ip] = Full]
    /\ \E S \in SUBSET {r \in Requests : Asking(r) /\ client[r] = ip} :
          excused' = excused \cup S
    /\ UNCHANGED <<answer, client>>

Filled(l) == IF l + Rate > Full THEN Full ELSE l + Rate

\* Time passes; for a while after the clock was set back nothing flows in.
Elapse ==
    /\ level' \in [IPs -> 0..Full]
    /\ \A ip \in IPs :
          \/ level'[ip] = Filled(level[ip])
          \/ Slack > 0 /\ level'[ip] = level[ip]
    /\ UNCHANGED <<answer, client, excused>>

\* The clock is set back: what has flowed in since may have to flow in again.
SetBack ==
    /\ Slack > 0
    /\ level' \in [IPs -> 0..Full]
    /\ \A ip \in IPs : level'[ip] <= level[ip] /\ level'[ip] >= level[ip] - Slack
    /\ UNCHANGED <<answer, client, excused>>

Next ==
    \/ Elapse
    \/ SetBack
    \/ \E ip \in IPs : Forget(ip)
    \/ \E r \in Requests :
          \/ \E ip \in IPs : Ask(r, ip)
          \/ Allow(r)
          \/ Refuse(r)
          \/ AnswerExcused(r)

Spec == Init /\ [][Next]_vars
=============================================================================
