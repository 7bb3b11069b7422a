------------------------------- MODULE RateMeter -------------------------------
(***************************************************************************)
(* The rate that config.go promises per address, as somebody measures it    *)
(* who starts to count at any moment: the limiter of RateLimiter with a       *)
(* meter beside it.  The meter only observes; its window opens whenever it    *)
(* likes, and time is reckoned in ticks that have really passed, which is     *)
(* what the wall clock shows plus what it has been set back.                  *)
(***************************************************************************)
EXTENDS RateLimiter

CONSTANT Watched    \* the addresses that are measured

ASSUME WatchedAssumption == Watched \subseteq IPs

VARIABLES
    opened,     \* when the window was opened
    granted,    \* granted[ip]: calls that the bucket of ip has paid for since
    forgotten   \* forgotten[ip]: how often the sweep has deleted it since

meterVars == <<opened, granted, forgotten>>

\* A call returns true, from the bucket of its address.
Paid(r, ip) ==
    /\ pc[r] = "consume" /\ pc'[r] = "allowed"
    /\ client[r] = ip /\ held[r] = buckets[ip]

Forgets(ip) == Tracked(ip) /\ ~Tracked(ip)'

Observe ==
    /\ granted' = [ip \in Watched |-> IF \E r \in Requests : Paid(r, ip)
                                    THEN granted[ip] + 1 ELSE granted[ip]]
    /\ forgotten' = [ip \in Watched |-> IF Forgets(ip) THEN forgotten[ip] + 1 ELSE forgotten[ip]]
    /\ UNCHANGED opened

OpenWindow ==
    /\ opened' = clock + skew
    /\ granted' = [ip \in Watched |-> 0] /\ forgotten' = [ip \in Watched |-> 0]
    /\ UNCHANGED vars

MeterInit ==
    /\ Init
    /\ opened = 0
    /\ granted = [ip \in Watched |-> 0] /\ forgotten = [ip \in Watched |-> 0]

MeterNext == (Next /\ Observe) \/ OpenWindow

MeterSpec == MeterInit /\ [][MeterNext]_<<vars, meterVars>>

\* The sweep is as fair as in FairSpec, whatever the meter does.
FairMeterSpec == MeterSpec /\ WF_vars(Sweep)

\* In any window an address is allowed its burst and what has flowed in since, and no
\* more, however its calls race with one another and with the sweep, and however
\* long it was silent before.  Only a clock that is set back lets a deleted bucket
\* come back with up to Slack that it did not hold.
WithinRate ==
    \A ip \in Watched :
       Cost * granted[ip] <= Full + Rate * (clock + skew - opened) + Slack * forgotten[ip]
=============================================================================
