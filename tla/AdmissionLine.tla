---------------------------- MODULE AdmissionLine ----------------------------
(***************************************************************************)
(* What the waiting room promises to clients, without its counters, ticket  *)
(* buffers and cleanup goroutines: a backend with a limit for those who     *)
(* walk straight in, and a bounded line from which one client is called for *)
(* every one that leaves.                                                   *)
(*                                                                         *)
(* The promise is weaker than a semaphore, as the code is.  Clients who     *)
(* walk in see the limit, clients who are called do not; so somebody can    *)
(* walk in between a departure and the entry of the one called for it.      *)
(***************************************************************************)
EXTENDS Integers, Sequences, FiniteSets

CONSTANTS Clients, Limit, Room

VARIABLES
    stage,      \* stage[c]: how far client c is
    line,       \* the places in line, also of those who have since given up
    vouchers    \* departures for which nobody has been called yet

vars == <<stage, line, vouchers>>

Stages == {"outside", "deciding", "waiting", "called", "served"}

InLine(c) == \E i \in 1..Len(line) : line[i] = c

Move(c, from, to) ==
    /\ stage[c] = from
    /\ stage' = [stage EXCEPT ![c] = to]

Init ==
    /\ stage = [c \in Clients |-> "outside"]
    /\ line = <<>>
    /\ vouchers = 0

WalkIn(c) ==
    /\ ~InLine(c)
    /\ Cardinality({d \in Clients : stage[d] = "served"}) < Limit
    /\ Move(c, "outside", "served")
    /\ UNCHANGED <<line, vouchers>>

Hesitate(c) ==
    /\ ~InLine(c)
    /\ Move(c, "outside", "deciding")
    /\ UNCHANGED <<line, vouchers>>

Join(c) ==
    /\ Len(line) < Room
    /\ line' = Append(line, c)
    /\ Move(c, "deciding", "waiting")
    /\ UNCHANGED vouchers

TurnAway(c) ==
    /\ Len(line) = Room
    /\ Move(c, "deciding", "outside")
    /\ UNCHANGED <<line, vouchers>>

\* A voucher calls the first in line.
Call(c) ==
    /\ vouchers > 0
    /\ line # <<>> /\ c = Head(line)
    /\ line' = Tail(line)
    /\ vouchers' = vouchers - 1
    /\ Move(c, "waiting", "called")

\* The first in line has given up: the voucher goes on to the next...
Skip ==
    /\ vouchers > 0
    /\ line # <<>> /\ stage[Head(line)] # "waiting"
    /\ line' = Tail(line)
    /\ vouchers' \in {vouchers - 1, vouchers}
    /\ UNCHANGED stage

\* ...and it may lapse, on the way or because the line is empty.
Lapse ==
    /\ vouchers > 0
    /\ vouchers' = vouchers - 1
    /\ UNCHANGED <<stage, line>>

GiveUp(c) ==
    /\ Move(c, "waiting", "outside")
    /\ UNCHANGED <<line, vouchers>>

Decline(c) ==
    /\ Move(c, "called", "outside")
    /\ vouchers' = vouchers + 1
    /\ UNCHANGED line

Enter(c) ==
    /\ Move(c, "called", "served")
    /\ UNCHANGED <<line, vouchers>>

Leave(c) ==
    /\ Move(c, "served", "outside")
    /\ vouchers' = vouchers + 1
    /\ UNCHANGED line

Next ==
    \/ Skip
    \/ Lapse
    \/ \E c \in Clients :
          \/ WalkIn(c)
          \/ Hesitate(c)
          \/ Join(c)
          \/ TurnAway(c)
          \/ Call(c)
          \/ GiveUp(c)
          \/ Decline(c)
          \/ Enter(c)
          \/ Leave(c)

Spec == Init /\ [][Next]_vars
=============================================================================
