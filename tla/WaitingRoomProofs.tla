-------------------------- MODULE WaitingRoomProofs --------------------------
(***************************************************************************)
(* Proofs about WaitingRoom for any number of requests, any MaxConcurrent   *)
(* and any QueueSize.                                                       *)
(*                                                                         *)
(* The two invariants about tickets need each other: that a ticket in the   *)
(* queue has an empty buffer is what keeps a signal and its reader paired,  *)
(* and that pairing keeps a ticket from being queued twice.  With TypeOK    *)
(* they are inductive (TicketInv).  The counters follow the places of the   *)
(* goroutines (Move) and need no more than TypeOK.  Together, IInv, they    *)
(* give what each step does to the holders of slots (SlotStep) and to the   *)
(* abstract line (LineStep): the counters bound the direct admissions, the  *)
(* tickets say where the signal of a step goes.                             *)
(***************************************************************************)
EXTENDS WaitingRoom, FiniteSetTheorems, TLAPS

\* Appending a member and taking the first one off keep a queue a queue.
LEMMA QueueOps ==
  ASSUME NEW q \in Seq(Requests)
  PROVE  /\ \A r \in Requests :
              /\ Append(q, r) \in Seq(Requests)
              /\ Len(Append(q, r)) = Len(q) + 1
              /\ \A i \in 1..Len(q) : Append(q, r)[i] = q[i]
              /\ Append(q, r)[Len(q) + 1] = r
         /\ Len(q) \in Nat
         /\ \A i \in 1..Len(q) : q[i] \in Requests
         /\ q # <<>> => /\ Len(q) > 0
                        /\ Head(q) = q[1]
                        /\ Tail(q) \in Seq(Requests)
                        /\ Len(Tail(q)) = Len(q) - 1
                        /\ \A i \in 1..(Len(q) - 1) : Tail(q)[i] = q[i + 1]
  OBVIOUS

\* Every action keeps the types of the variables.
LEMMA TypeStep == TypeOK /\ [Next]_vars => TypeOK'
<1> SUFFICES ASSUME TypeOK, [Next]_vars
             PROVE  TypeOK'
  OBVIOUS
<1> USE DEF TypeOK, Places, Goto
<1>u. CASE UNCHANGED vars
  BY <1>u DEF vars
<1>1. ASSUME NEW r \in Requests, AdmitDirect(r) PROVE TypeOK'
  BY <1>1 DEF AdmitDirect
<1>2. ASSUME NEW r \in Requests, Overload(r) PROVE TypeOK'
  BY <1>2 DEF Overload
<1>3. ASSUME NEW r \in Requests, UndoIncrement(r) PROVE TypeOK'
  BY <1>3 DEF UndoIncrement
<1>4. ASSUME NEW r \in Requests, TakePosition(r) PROVE TypeOK'
  BY <1>4 DEF TakePosition
<1>5. ASSUME NEW r \in Requests, Enqueue(r) PROVE TypeOK'
  BY <1>5, QueueOps DEF Enqueue
<1>6. ASSUME NEW r \in Requests, QueueFull(r) PROVE TypeOK'
  BY <1>6 DEF QueueFull
<1>7. ASSUME NEW r \in Requests, TurnAway(r) PROVE TypeOK'
  BY <1>7 DEF TurnAway
<1>8. ASSUME NEW r \in Requests, Receive(r) PROVE TypeOK'
  BY <1>8 DEF Receive
<1>9. ASSUME NEW r \in Requests, QueueTimeout(r) PROVE TypeOK'
  BY <1>9 DEF QueueTimeout
<1>10. ASSUME NEW r \in Requests, LeaveQueue(r) PROVE TypeOK'
  BY <1>10 DEF LeaveQueue
<1>11. ASSUME NEW r \in Requests, LeavePosition(r) PROVE TypeOK'
  BY <1>11 DEF LeavePosition
<1>12. ASSUME NEW r \in Requests, PassOn(r) PROVE TypeOK'
  BY <1>12 DEF PassOn
<1>13. ASSUME NEW r \in Requests, ClaimSlot(r) PROVE TypeOK'
  BY <1>13 DEF ClaimSlot
<1>14. ASSUME NEW r \in Requests, ReleaseSlot(r) PROVE TypeOK'
  BY <1>14 DEF ReleaseSlot
<1>15. ASSUME NEW r \in Requests, SignalNext(r) PROVE TypeOK'
  BY <1>15, QueueOps DEF SignalNext
<1>16. ASSUME NEW r \in Requests, SignalNobody(r) PROVE TypeOK'
  BY <1>16 DEF SignalNobody
<1>17. ASSUME NEW r \in Requests, DrainReceive(r) PROVE TypeOK'
  BY <1>17 DEF DrainReceive
<1>18. ASSUME NEW r \in Requests, DrainForward(r) PROVE TypeOK'
  BY <1>18 DEF DrainForward
<1>19. ASSUME NEW r \in Requests, DrainExpire(r) PROVE TypeOK'
  BY <1>19 DEF DrainExpire
<1>20. ASSUME NEW r \in Requests, DrainExit(r) PROVE TypeOK'
  BY <1>20 DEF DrainExit
<1>21. ASSUME NEW r \in Requests, Disconnect(r) PROVE TypeOK'
  BY <1>21 DEF Disconnect
<1> QED
  BY <1>u, <1>1, <1>2, <1>3, <1>4, <1>5, <1>6, <1>7, <1>8, <1>9, <1>10,
     <1>11, <1>12, <1>13, <1>14, <1>15, <1>16, <1>17, <1>18, <1>19, <1>20, <1>21
     DEF Next, Step, Timer

\* The type invariant holds for every number of requests and every limit.
THEOREM TypeCorrect == Spec => []TypeOK
<1>1. Init => TypeOK
  BY DEF Init, TypeOK, Places
<1> QED  BY <1>1, TypeStep, PTL DEF Spec

\* What SignalNeverBlocks and TicketReachable need of each other.
TicketInv == TypeOK /\ SignalNeverBlocks /\ TicketReachable

\* Tickets keep their place: the two invariants about tickets are inductive
\* together.
LEMMA TicketStep ==
  TicketInv /\ [Next]_vars => SignalNeverBlocks' /\ TicketReachable'
<1> SUFFICES ASSUME TypeOK, SignalNeverBlocks, TicketReachable, [Next]_vars
             PROVE  SignalNeverBlocks' /\ TicketReachable'
  BY DEF TicketInv
<1> USE DEF TypeOK, SignalNeverBlocks, TicketReachable, InQueue, Goto
<1>0. Len(queue) \in Nat /\ \A i \in 1..Len(queue) : queue[i] \in Requests
  BY QueueOps
<1>u. CASE UNCHANGED vars
  BY <1>u DEF vars
<1>1. ASSUME NEW r \in Requests, AdmitDirect(r)
      PROVE  SignalNeverBlocks' /\ TicketReachable'
  BY <1>1 DEF AdmitDirect, Free
<1>2. ASSUME NEW r \in Requests, Overload(r)
      PROVE  SignalNeverBlocks' /\ TicketReachable'
  BY <1>2 DEF Overload, Free
<1>3. ASSUME NEW r \in Requests, UndoIncrement(r)
      PROVE  SignalNeverBlocks' /\ TicketReachable'
  BY <1>3 DEF UndoIncrement
<1>4. ASSUME NEW r \in Requests, TakePosition(r)
      PROVE  SignalNeverBlocks' /\ TicketReachable'
  BY <1>4 DEF TakePosition
<1>5. ASSUME NEW r \in Requests, Enqueue(r)
      PROVE  SignalNeverBlocks' /\ TicketReachable'
  <2>1. /\ queue' \in Seq(Requests)
        /\ Len(queue') = Len(queue) + 1
        /\ \A i \in 1..Len(queue) : queue'[i] = queue[i]
        /\ queue'[Len(queue) + 1] = r
    BY <1>5, QueueOps DEF Enqueue
  <2>2. ~InQueue(r) /\ buffer[r] = 0 /\ buffer' = buffer
    BY <1>5 DEF Enqueue
  <2>3. pc' = [pc EXCEPT ![r] = "parked"]
    BY <1>5 DEF Enqueue
  <2>4. \A t \in Requests : InQueue(t)' <=> InQueue(t) \/ t = r
    <3>1. \A i \in 1..Len(queue') : i = Len(queue) + 1 \/ i \in 1..Len(queue)
      BY <1>0, <2>1
    <3>2. \A i \in 1..Len(queue) : i \in 1..Len(queue')
      BY <1>0, <2>1
    <3>3. Len(queue) + 1 \in 1..Len(queue')
      BY <1>0, <2>1
    <3> QED  BY <2>1, <3>1, <3>2, <3>3
  <2>5. SignalNeverBlocks'
    <3>1. \A i, j \in 1..Len(queue') : queue'[i] = queue'[j] => i = j
      <4> SUFFICES ASSUME NEW i \in 1..Len(queue'), NEW j \in 1..Len(queue'),
                          queue'[i] = queue'[j]
                   PROVE  i = j
        OBVIOUS
      <4>1. \A k \in 1..Len(queue') : k = Len(queue) + 1 \/ k \in 1..Len(queue)
        BY <1>0, <2>1
      <4>2. \A k \in 1..Len(queue) : queue'[k] # r
        BY <2>1, <2>2
      <4>3. CASE i \in 1..Len(queue) /\ j \in 1..Len(queue)
        BY <2>1, <4>3
      <4>4. CASE i = Len(queue) + 1 \/ j = Len(queue) + 1
        BY <2>1, <4>1, <4>2, <4>4
      <4> QED  BY <4>1, <4>3, <4>4
    <3>2. \A i \in 1..Len(queue') : buffer'[queue'[i]] = 0
      BY <1>0, <2>1, <2>2
    <3> QED  BY <2>2, <3>1, <3>2
  <2>6. TicketReachable'
    <3>1. Len(queue') <= QueueSize
      BY <1>0, <1>5, <2>1, RoomAssumption DEF Enqueue
    <3> QED  BY <2>2, <2>3, <2>4, <3>1 DEF InQueue
  <2> QED  BY <2>5, <2>6
<1>6. ASSUME NEW r \in Requests, QueueFull(r)
      PROVE  SignalNeverBlocks' /\ TicketReachable'
  BY <1>6 DEF QueueFull
<1>7. ASSUME NEW r \in Requests, TurnAway(r)
      PROVE  SignalNeverBlocks' /\ TicketReachable'
  BY <1>7 DEF TurnAway
<1>8. ASSUME NEW r \in Requests, Receive(r)
      PROVE  SignalNeverBlocks' /\ TicketReachable'
  BY <1>8 DEF Receive
<1>9. ASSUME NEW r \in Requests, QueueTimeout(r)
      PROVE  SignalNeverBlocks' /\ TicketReachable'
  BY <1>9 DEF QueueTimeout
<1>10. ASSUME NEW r \in Requests, LeaveQueue(r)
      PROVE  SignalNeverBlocks' /\ TicketReachable'
  BY <1>10 DEF LeaveQueue
<1>11. ASSUME NEW r \in Requests, LeavePosition(r)
      PROVE  SignalNeverBlocks' /\ TicketReachable'
  BY <1>11 DEF LeavePosition
<1>12. ASSUME NEW r \in Requests, PassOn(r)
      PROVE  SignalNeverBlocks' /\ TicketReachable'
  BY <1>12 DEF PassOn
<1>13. ASSUME NEW r \in Requests, ClaimSlot(r)
      PROVE  SignalNeverBlocks' /\ TicketReachable'
  BY <1>13 DEF ClaimSlot
<1>14. ASSUME NEW r \in Requests, ReleaseSlot(r)
      PROVE  SignalNeverBlocks' /\ TicketReachable'
  BY <1>14 DEF ReleaseSlot
<1>15. ASSUME NEW r \in Requests, SignalNext(r)
      PROVE  SignalNeverBlocks' /\ TicketReachable'
  <2>0. PICK t \in Requests : t = Head(queue)
    BY <1>0, <1>15, QueueOps DEF SignalNext
  <2>1. /\ t \in Requests
        /\ t = queue[1] /\ 1 \in 1..Len(queue)
        /\ Len(queue') = Len(queue) - 1
        /\ \A i \in 1..Len(queue') : queue'[i] = queue[i + 1] /\ i + 1 \in 1..Len(queue)
    BY <1>15, <2>0, QueueOps DEF SignalNext
  <2>2. InQueue(t) /\ ~InQueue(t)'
    <3>1. \A i \in 1..Len(queue') : i + 1 # 1
      BY <1>0, <2>1
    <3> QED  BY <2>1, <3>1
  <2>3. \A u \in Requests : u # t => (InQueue(u)' <=> InQueue(u))
    <3>1. \A i \in 1..Len(queue) : i # 1 => \E j \in 1..Len(queue') : i = j + 1
      <4> TAKE i \in 1..Len(queue)
      <4> HAVE i # 1
      <4>1. i - 1 \in 1..Len(queue') /\ i = (i - 1) + 1
        BY <1>0, <2>1
      <4> QED  BY <4>1
    <3>2. ASSUME NEW u \in Requests, u # t, InQueue(u)
          PROVE  InQueue(u)'
      <4>1. PICK i \in 1..Len(queue) : queue[i] = u
        BY <3>2
      <4>2. i # 1
        BY <2>1, <3>2, <4>1
      <4>3. PICK j \in 1..Len(queue') : i = j + 1
        BY <3>1, <4>2
      <4> QED  BY <2>1, <4>1, <4>3
    <3>3. ASSUME NEW u \in Requests, InQueue(u)'
          PROVE  InQueue(u)
      BY <2>1, <3>3
    <3> QED  BY <3>2, <3>3
  <2>4. ~InQueue(r) /\ pc[r] = "signal"
    BY <1>15 DEF SignalNext
  <2>5. buffer[t] = 0 /\ buffer' = [buffer EXCEPT ![t] = 1]
    <3>1. buffer[t] = 0
      BY <2>1
    <3>2. buffer' = [buffer EXCEPT ![t] = buffer[t] + 1]
      BY <1>15, <2>0 DEF SignalNext
    <3> QED  BY <3>1, <3>2
  <2>6. pc' = [pc EXCEPT ![r] = "idle"]
    BY <1>15 DEF SignalNext
  <2>7. SignalNeverBlocks'
    <3>1. \A i, j \in 1..Len(queue') : queue'[i] = queue'[j] => i = j
      <4> TAKE i, j \in 1..Len(queue')
      <4> HAVE queue'[i] = queue'[j]
      <4>1. queue[i + 1] = queue[j + 1]
        BY <2>1
      <4>2. i + 1 = j + 1
        BY <2>1, <4>1
      <4> QED  BY <1>0, <2>1, <4>2
    <3>2. \A i \in 1..Len(queue') : queue'[i] \in Requests /\ queue'[i] # t
      BY <1>0, <2>1, <2>2
    <3>3. \A i \in 1..Len(queue') : buffer'[queue'[i]] = 0
      BY <2>1, <2>5, <3>2
    <3> QED  BY <2>5, <3>1, <3>3
  <2>8. TicketReachable'
    <3>1. Len(queue') <= QueueSize
      BY <1>0, <2>1, RoomAssumption
    <3>2. pc[t] \in {"parked", "drain", "expired", "idle"} /\ t # r
      BY <2>1, <2>2, <2>4
    <3>3. ASSUME NEW u \in Requests
          PROVE  /\ pc'[u] \in {"parked", "drain"} => (InQueue(u)' <=> buffer'[u] = 0)
                 /\ pc'[u] \notin {"parked", "drain", "expired", "idle"} =>
                       ~InQueue(u)' /\ buffer'[u] = 0
      <4>1. /\ pc[u] \in {"parked", "drain"} => (InQueue(u) <=> buffer[u] = 0)
            /\ pc[u] \notin {"parked", "drain", "expired", "idle"} =>
                  ~InQueue(u) /\ buffer[u] = 0
        OBVIOUS
      <4> HIDE DEF TypeOK, SignalNeverBlocks, TicketReachable, InQueue
      <4>2. pc \in [Requests -> Places] /\ buffer \in [Requests -> Nat]
        BY DEF TypeOK
      <4>3. CASE u = r
        <5> QED  BY <2>6, <4>2, <4>3
      <4>4. CASE u = t
        <5>1. pc'[u] = pc[u] /\ buffer'[u] = 1
          BY <2>5, <2>6, <3>2, <4>2, <4>4
        <5> QED  BY <2>2, <3>2, <4>4, <5>1
      <4>5. CASE u # r /\ u # t
        <5>1. pc'[u] = pc[u] /\ buffer'[u] = buffer[u]
          BY <2>5, <2>6, <4>2, <4>5
        <5> QED  BY <2>3, <4>1, <4>5, <5>1
      <4> QED  BY <4>3, <4>4, <4>5
    <3> QED  BY <3>1, <3>3
  <2> QED  BY <2>7, <2>8
<1>16. ASSUME NEW r \in Requests, SignalNobody(r)
      PROVE  SignalNeverBlocks' /\ TicketReachable'
  BY <1>16 DEF SignalNobody
<1>17. ASSUME NEW r \in Requests, DrainReceive(r)
      PROVE  SignalNeverBlocks' /\ TicketReachable'
  BY <1>17 DEF DrainReceive
<1>18. ASSUME NEW r \in Requests, DrainForward(r)
      PROVE  SignalNeverBlocks' /\ TicketReachable'
  BY <1>18 DEF DrainForward
<1>19. ASSUME NEW r \in Requests, DrainExpire(r)
      PROVE  SignalNeverBlocks' /\ TicketReachable'
  BY <1>19 DEF DrainExpire
<1>20. ASSUME NEW r \in Requests, DrainExit(r)
      PROVE  SignalNeverBlocks' /\ TicketReachable'
  BY <1>20 DEF DrainExit
<1>21. ASSUME NEW r \in Requests, Disconnect(r)
      PROVE  SignalNeverBlocks' /\ TicketReachable'
  BY <1>21 DEF Disconnect
<1> QED
  BY <1>u, <1>1, <1>2, <1>3, <1>4, <1>5, <1>6, <1>7, <1>8, <1>9, <1>10,
     <1>11, <1>12, <1>13, <1>14, <1>15, <1>16, <1>17, <1>18, <1>19, <1>20, <1>21
     DEF Next, Step, Timer

LEMMA TicketInit == Init => TicketInv
  BY RoomAssumption
     DEF Init, TicketInv, TypeOK, Places, SignalNeverBlocks, TicketReachable,
         InQueue

\* The two invariants about tickets: the send in signalNext never blocks, and
\* every signal goes to a ticket that somebody reads.
THEOREM TicketsCorrect == Spec => [](SignalNeverBlocks /\ TicketReachable)
<1>1. TicketInv /\ [Next]_vars => TicketInv'
  BY TypeStep, TicketStep DEF TicketInv
<1>2. TicketInv => SignalNeverBlocks /\ TicketReachable
  BY DEF TicketInv
<1> QED  BY TicketInit, <1>1, <1>2, PTL DEF Spec

\* Whoever waits in the queue can be reached by exactly one signal: its ticket is
\* in the queue, or its signal is already in the ticket's buffer.
THEOREM TicketReachability == Spec => []TicketReachable
<1>1. SignalNeverBlocks /\ TicketReachable => TicketReachable
  OBVIOUS
<1> QED  BY TicketsCorrect, <1>1, PTL

-----------------------------------------------------------------------------
\* A goroutine that enters or leaves a set of places is counted in or out.
LEMMA Move ==
  ASSUME NEW r \in Requests, NEW place, NEW places,
         pc \in [Requests -> Places], Goto(r, place)
  PROVE  LET n == Cardinality(In(places)) IN
         /\ n \in Nat
         /\ place \in places /\ pc[r] \notin places => n' = n + 1
         /\ place \notin places /\ pc[r] \in places => n' = n - 1
         /\ (place \in places <=> pc[r] \in places) => n' = n
<1> DEFINE S == In(places)
           T == {q \in Requests : pc[q] \in places /\ q # r}
<1>1. IsFiniteSet(S) /\ IsFiniteSet(T)
  BY FS_Subset, RoomAssumption DEF In
<1>2. Cardinality(S) \in Nat /\ Cardinality(T) \in Nat
  BY <1>1, FS_CardinalityType
<1>3. Cardinality(T \cup {r}) = Cardinality(T) + 1
  BY <1>1, FS_AddElement
<1>4. S = IF pc[r] \in places THEN T \cup {r} ELSE T
  BY DEF In
<1>5. In(places)' = IF place \in places THEN T \cup {r} ELSE T
  BY DEF In, Goto
<1> HIDE DEF T
<1> QED  BY <1>2, <1>3, <1>4, <1>5

\* The counters follow every move.
LEMMA CountersStep == TypeOK /\ CountersExact /\ [Next]_vars => CountersExact'
<1> SUFFICES ASSUME TypeOK, CountersExact, [Next]_vars
             PROVE  CountersExact'
  OBVIOUS
<1> DEFINE counted == {"overload", "backend"}
           positioned == {"enqueue", "full", "parked", "admitted", "drain",
                          "drained", "expired"}
<1>0. ASSUME NEW r \in Requests, NEW place, Goto(r, place)
      PROVE  LET n == Cardinality(Counted)
                 m == Cardinality(Positioned) IN
             /\ place \in counted /\ pc[r] \notin counted => n' = n + 1
             /\ place \notin counted /\ pc[r] \in counted => n' = n - 1
             /\ (place \in counted <=> pc[r] \in counted) => n' = n
             /\ place \in positioned /\ pc[r] \notin positioned => m' = m + 1
             /\ place \notin positioned /\ pc[r] \in positioned => m' = m - 1
             /\ (place \in positioned <=> pc[r] \in positioned) => m' = m
  BY <1>0, Move DEF TypeOK, Counted, Positioned
<1>u. CASE UNCHANGED vars
  BY <1>u DEF vars, CountersExact, Counted, Positioned, In
<1> USE DEF CountersExact
<1>1. ASSUME NEW r \in Requests, AdmitDirect(r) PROVE CountersExact'
  BY <1>0, <1>1 DEF AdmitDirect, Free
<1>2. ASSUME NEW r \in Requests, Overload(r) PROVE CountersExact'
  BY <1>0, <1>2 DEF Overload, Free
<1>3. ASSUME NEW r \in Requests, UndoIncrement(r) PROVE CountersExact'
  BY <1>0, <1>3 DEF UndoIncrement
<1>4. ASSUME NEW r \in Requests, TakePosition(r) PROVE CountersExact'
  BY <1>0, <1>4 DEF TakePosition
<1>5. ASSUME NEW r \in Requests, Enqueue(r) PROVE CountersExact'
  BY <1>0, <1>5 DEF Enqueue
<1>6. ASSUME NEW r \in Requests, QueueFull(r) PROVE CountersExact'
  BY <1>0, <1>6 DEF QueueFull
<1>7. ASSUME NEW r \in Requests, TurnAway(r) PROVE CountersExact'
  BY <1>0, <1>7 DEF TurnAway
<1>8. ASSUME NEW r \in Requests, Receive(r) PROVE CountersExact'
  BY <1>0, <1>8 DEF Receive
<1>9. ASSUME NEW r \in Requests, QueueTimeout(r) PROVE CountersExact'
  BY <1>0, <1>9 DEF QueueTimeout
<1>10. ASSUME NEW r \in Requests, LeaveQueue(r) PROVE CountersExact'
  BY <1>0, <1>10 DEF LeaveQueue
<1>11. ASSUME NEW r \in Requests, LeavePosition(r) PROVE CountersExact'
  BY <1>0, <1>11 DEF LeavePosition
<1>12. ASSUME NEW r \in Requests, PassOn(r) PROVE CountersExact'
  BY <1>0, <1>12 DEF PassOn
<1>13. ASSUME NEW r \in Requests, ClaimSlot(r) PROVE CountersExact'
  BY <1>0, <1>13 DEF ClaimSlot
<1>14. ASSUME NEW r \in Requests, ReleaseSlot(r) PROVE CountersExact'
  BY <1>0, <1>14 DEF ReleaseSlot
<1>15. ASSUME NEW r \in Requests, SignalNext(r) PROVE CountersExact'
  BY <1>0, <1>15 DEF SignalNext
<1>16. ASSUME NEW r \in Requests, SignalNobody(r) PROVE CountersExact'
  BY <1>0, <1>16 DEF SignalNobody
<1>17. ASSUME NEW r \in Requests, DrainReceive(r) PROVE CountersExact'
  BY <1>0, <1>17 DEF DrainReceive
<1>18. ASSUME NEW r \in Requests, DrainForward(r) PROVE CountersExact'
  BY <1>0, <1>18 DEF DrainForward
<1>19. ASSUME NEW r \in Requests, DrainExpire(r) PROVE CountersExact'
  BY <1>0, <1>19 DEF DrainExpire
<1>20. ASSUME NEW r \in Requests, DrainExit(r) PROVE CountersExact'
  BY <1>0, <1>20 DEF DrainExit
<1>21. ASSUME NEW r \in Requests, Disconnect(r) PROVE CountersExact'
  BY <1>21 DEF Disconnect, Counted, Positioned, In
<1> QED
  BY <1>u, <1>1, <1>2, <1>3, <1>4, <1>5, <1>6, <1>7, <1>8, <1>9, <1>10,
     <1>11, <1>12, <1>13, <1>14, <1>15, <1>16, <1>17, <1>18, <1>19, <1>20, <1>21
     DEF Next, Step, Timer

LEMMA CountersInit == Init => CountersExact
<1>1. ASSUME Init PROVE Counted = {} /\ Positioned = {}
  BY <1>1 DEF Init, Counted, Positioned, In
<1> QED  BY <1>1, FS_EmptySet DEF Init, CountersExact

\* The counters are exact whatever way requests leave, and never negative.
THEOREM CountersCorrect == Spec => []CountersExact
<1>1. TypeOK /\ CountersExact /\ [Next]_vars => (TypeOK /\ CountersExact)'
  BY TypeStep, CountersStep
<1>2. Init => TypeOK /\ CountersExact
  BY TicketInit, CountersInit DEF TicketInv
<1> QED  BY <1>1, <1>2, PTL DEF Spec

-----------------------------------------------------------------------------
\* What the conservation of slots rests on.
IInv == TicketInv /\ CountersExact

\* IInv is inductive.
LEMMA Inductive == Spec => []IInv
<1>1. Init => IInv
  BY TicketInit, CountersInit DEF IInv
<1>2. IInv /\ [Next]_vars => IInv'
  BY TypeStep, TicketStep, CountersStep DEF IInv, TicketInv
<1> QED  BY <1>1, <1>2, PTL DEF Spec

\* r signals t, the first in the queue.
Signalled(r, t) ==
    /\ queue # <<>> /\ t = Head(queue) /\ queue' = Tail(queue)
    /\ pc[r] = "signal" /\ pc' = [pc EXCEPT ![r] = "idle"]
    /\ t # r /\ pc[t] \in {"parked", "drain", "expired", "idle"}
    /\ buffer[t] = 0 /\ buffer' = [buffer EXCEPT ![t] = 1]

\* The signal reaches another goroutine, and its ticket has room for it.
LEMMA SignalledStep ==
  ASSUME TicketInv, NEW r \in Requests, SignalNext(r)
  PROVE  \E t \in Requests : Signalled(r, t)
<1> USE DEF TicketInv, TypeOK
<1>1. PICK t \in Requests : t = Head(queue) /\ t = queue[1] /\ 1 \in 1..Len(queue)
  BY QueueOps DEF SignalNext
<1>2. InQueue(t) /\ buffer[t] = 0
  BY <1>1 DEF InQueue, SignalNeverBlocks
<1>3. pc[t] \in {"parked", "drain", "expired", "idle"} /\ pc[r] = "signal"
  BY <1>2 DEF SignalNext, TicketReachable
<1>4. buffer' = [buffer EXCEPT ![t] = buffer[t] + 1]
  BY <1>1 DEF SignalNext
<1>5. buffer' = [buffer EXCEPT ![t] = 1]
  BY <1>2, <1>4
<1> QED  BY <1>1, <1>2, <1>3, <1>5 DEF SignalNext, Signalled, Goto

\* Every step of the room hands each slot on whole.
LEMMA SlotStep == IInv /\ [Next]_vars => [SlotsKept]_vars
<1> SUFFICES ASSUME TypeOK, SignalNeverBlocks, TicketReachable, CountersExact,
                    Next
             PROVE  SlotsKept
  BY DEF IInv, TicketInv
<1> USE DEF TypeOK, Goto, SlotsKept
<1>0. IsFiniteSet(SlotHolders) /\ Cardinality(SlotHolders) \in Nat
  BY FS_Subset, FS_CardinalityType, RoomAssumption DEF SlotHolders
<1>1. ASSUME NEW r \in Requests, AdmitDirect(r) PROVE SlotsKept
  <2>1. pc[r] = "idle" /\ pc'[r] = "backend"
    BY <1>1 DEF AdmitDirect, Free
  <2>2. SlotHolders' = SlotHolders \cup {r}
    BY <1>1 DEF AdmitDirect, Free, SlotHolders
  <2>3. Cardinality(In({"backend"})') <= MaxConcurrent
    <3>1. In({"backend"})' \subseteq Counted' /\ IsFiniteSet(Counted')
      BY FS_Subset, RoomAssumption DEF In, Counted
    <3>2. Cardinality(In({"backend"})') <= Cardinality(Counted')
      BY <3>1, FS_Subset
    <3>3. Cardinality(Counted') = activeRequests' /\ activeRequests' <= MaxConcurrent
      BY <1>1, CountersStep DEF AdmitDirect, CountersExact
    <3>4. Cardinality(In({"backend"})') \in Nat /\ Cardinality(Counted') \in Nat
      BY <3>1, FS_Subset, FS_CardinalityType
    <3> QED  BY <3>2, <3>3, <3>4, RoomAssumption
  <2> QED  BY <2>1, <2>2, <2>3 DEF DirectEntry
<1>2. ASSUME NEW r \in Requests, Overload(r) PROVE SlotsKept
  <2>1. SlotHolders' = SlotHolders
    BY <1>2 DEF Overload, Free, SlotHolders
  <2> QED  BY <2>1
<1>3. ASSUME NEW r \in Requests, UndoIncrement(r) PROVE SlotsKept
  <2>1. SlotHolders' = SlotHolders
    BY <1>3 DEF UndoIncrement, SlotHolders
  <2> QED  BY <2>1
<1>4. ASSUME NEW r \in Requests, TakePosition(r) PROVE SlotsKept
  <2>1. SlotHolders' = SlotHolders
    BY <1>4 DEF TakePosition, SlotHolders
  <2> QED  BY <2>1
<1>5. ASSUME NEW r \in Requests, Enqueue(r) PROVE SlotsKept
  <2>1. pc[r] = "enqueue" /\ buffer[r] = 0
    BY <1>5 DEF Enqueue, TicketReachable
  <2>2. pc' = [pc EXCEPT ![r] = "parked"] /\ buffer' = buffer
    BY <1>5 DEF Enqueue
  <2>3. SlotHolders' = SlotHolders
    BY <2>1, <2>2 DEF SlotHolders
  <2> QED  BY <2>3
<1>6. ASSUME NEW r \in Requests, QueueFull(r) PROVE SlotsKept
  <2>1. SlotHolders' = SlotHolders
    BY <1>6 DEF QueueFull, SlotHolders
  <2> QED  BY <2>1
<1>7. ASSUME NEW r \in Requests, TurnAway(r) PROVE SlotsKept
  <2>1. SlotHolders' = SlotHolders
    BY <1>7 DEF TurnAway, SlotHolders
  <2> QED  BY <2>1
<1>8. ASSUME NEW r \in Requests, Receive(r) PROVE SlotsKept
  <2>1. SlotHolders' = SlotHolders
    BY <1>8 DEF Receive, SlotHolders
  <2> QED  BY <2>1
<1>9. ASSUME NEW r \in Requests, QueueTimeout(r) PROVE SlotsKept
  <2>1. SlotHolders' = SlotHolders
    BY <1>9 DEF QueueTimeout, SlotHolders
  <2> QED  BY <2>1
<1>10. ASSUME NEW r \in Requests, LeaveQueue(r) PROVE SlotsKept
  <2>1. SlotHolders' = SlotHolders
    BY <1>10 DEF LeaveQueue, SlotHolders
  <2> QED  BY <2>1
<1>11. ASSUME NEW r \in Requests, LeavePosition(r) PROVE SlotsKept
  <2>1. SlotHolders' = SlotHolders
    BY <1>11 DEF LeavePosition, SlotHolders
  <2> QED  BY <2>1
<1>12. ASSUME NEW r \in Requests, PassOn(r) PROVE SlotsKept
  <2>1. SlotHolders' = SlotHolders
    BY <1>12 DEF PassOn, SlotHolders
  <2> QED  BY <2>1
<1>13. ASSUME NEW r \in Requests, ClaimSlot(r) PROVE SlotsKept
  <2>1. SlotHolders' = SlotHolders
    BY <1>13 DEF ClaimSlot, SlotHolders
  <2> QED  BY <2>1
<1>14. ASSUME NEW r \in Requests, ReleaseSlot(r) PROVE SlotsKept
  <2>1. SlotHolders' = SlotHolders
    BY <1>14 DEF ReleaseSlot, SlotHolders
  <2> QED  BY <2>1
<1>15. ASSUME NEW r \in Requests, SignalNext(r) PROVE SlotsKept
  <2>1. PICK t \in Requests : Signalled(r, t)
    BY <1>15, SignalledStep DEF TicketInv
  <2> USE DEF Signalled
  <2>2. r \in SlotHolders /\ t \notin SlotHolders /\ t # r
    BY <2>1 DEF SlotHolders
  <2>3. CASE pc[t] \in {"parked", "drain"}
    <3>1. SlotHolders' = (SlotHolders \ {r}) \cup {t}
      BY <2>1, <2>3 DEF SlotHolders
    <3>2. Cardinality(SlotHolders') = Cardinality(SlotHolders)
      <4>1. /\ IsFiniteSet(SlotHolders \ {r})
            /\ Cardinality(SlotHolders \ {r}) = Cardinality(SlotHolders) - 1
        BY <1>0, <2>2, FS_RemoveElement
      <4>2. Cardinality(SlotHolders') = Cardinality(SlotHolders \ {r}) + 1
        BY <2>2, <3>1, <4>1, FS_AddElement
      <4> QED  BY <1>0, <4>1, <4>2
    <3> QED  BY <3>2
  <2>4. CASE pc[t] \in {"expired", "idle"}
    <3>1. SlotHolders' = SlotHolders \ {r}
      BY <2>1, <2>4 DEF SlotHolders
    <3>2. pc'[t] \in {"expired", "idle"} /\ buffer'[t] > 0
      BY <2>1, <2>4
    <3> QED  BY <3>1, <3>2 DEF SlotSwallowed
  <2> QED  BY <2>1, <2>3, <2>4
<1>16. ASSUME NEW r \in Requests, SignalNobody(r) PROVE SlotsKept
  <2>1. SlotHolders' = SlotHolders \ {r}
    BY <1>16 DEF SignalNobody, SlotHolders
  <2> QED  BY <1>16, <2>1 DEF SignalNobody, SlotReturned
<1>17. ASSUME NEW r \in Requests, DrainReceive(r) PROVE SlotsKept
  <2>1. SlotHolders' = SlotHolders
    BY <1>17 DEF DrainReceive, SlotHolders
  <2> QED  BY <2>1
<1>18. ASSUME NEW r \in Requests, DrainForward(r) PROVE SlotsKept
  <2>1. SlotHolders' = SlotHolders
    BY <1>18 DEF DrainForward, SlotHolders
  <2> QED  BY <2>1
<1>19. ASSUME NEW r \in Requests, DrainExpire(r) PROVE SlotsKept
  <2>1. CASE buffer[r] = 0
    <3>1. SlotHolders' = SlotHolders
      BY <1>19, <2>1 DEF DrainExpire, SlotHolders
    <3> QED  BY <3>1
  <2>2. CASE buffer[r] > 0
    <3>1. SlotHolders' = SlotHolders \ {r}
      BY <1>19, <2>2 DEF DrainExpire, SlotHolders
    <3>2. pc'[r] = "expired" /\ buffer'[r] > 0
      BY <1>19, <2>2 DEF DrainExpire
    <3> QED  BY <3>1, <3>2 DEF SlotSwallowed
  <2> QED  BY <2>1, <2>2
<1>20. ASSUME NEW r \in Requests, DrainExit(r) PROVE SlotsKept
  <2>1. SlotHolders' = SlotHolders
    BY <1>20 DEF DrainExit, SlotHolders
  <2> QED  BY <2>1
<1>21. ASSUME NEW r \in Requests, Disconnect(r) PROVE SlotsKept
  <2>1. SlotHolders' = SlotHolders
    BY <1>21 DEF Disconnect, SlotHolders
  <2> QED  BY <2>1
<1> QED
  BY <1>1, <1>2, <1>3, <1>4, <1>5, <1>6, <1>7, <1>8, <1>9, <1>10,
     <1>11, <1>12, <1>13, <1>14, <1>15, <1>16, <1>17, <1>18, <1>19, <1>20, <1>21
     DEF Next, Step, Timer

\* Slots are neither duplicated nor dropped but where the safety timeout gave a
\* ticket up, for every number of requests and every limit.
THEOREM SlotsConserved == Spec => SlotConservation
<1>1. IInv /\ [Next]_vars => [SlotsKept]_vars
  BY SlotStep
<1> QED  BY <1>1, Inductive, PTL DEF Spec, SlotConservation

-----------------------------------------------------------------------------
\* A step that changes neither stages nor the line nor the vouchers is a stutter.
LEMMA Unmoved ==
  ASSUME [r \in Requests |-> Stage(r)]' = [r \in Requests |-> Stage(r)],
         Vouchers' = Vouchers, queue' = queue
  PROVE  UNCHANGED Promise!vars
BY DEF Promise!vars

\* The stage of r changes and no other.
Moves(r, from, to) ==
    /\ Stage(r) = from
    /\ Stage(r)' = to
    /\ \A q \in Requests \ {r} : Stage(q)' = Stage(q)

LEMMA StageMove ==
  ASSUME NEW r \in Requests, NEW from, NEW to, Moves(r, from, to)
  PROVE  Promise!Move(r, from, to)
BY DEF Moves, Promise!Move

\* Every step of the room is a step of the admission line or a stutter.
LEMMA LineStep == IInv /\ [Next]_vars => [Promise!Next]_(Promise!vars)
<1> SUFFICES ASSUME TypeOK, SignalNeverBlocks, TicketReachable, CountersExact,
                    [Next]_vars
             PROVE  Promise!Next \/ UNCHANGED Promise!vars
  BY DEF IInv, TicketInv
<1> DEFINE stages == [r \in Requests |-> Stage(r)]
<1> USE DEF TypeOK, Goto
<1>0. IsFiniteSet(Vouchers) /\ Cardinality(Vouchers) \in Nat
  BY FS_Subset, FS_CardinalityType, RoomAssumption DEF Vouchers
<1>v. ASSUME NEW r \in Vouchers, Vouchers' = Vouchers \ {r},
             stages' = stages, queue' = queue
      PROVE  Promise!Next
  <2>1. /\ Cardinality(Vouchers)' = Cardinality(Vouchers) - 1
        /\ Cardinality(Vouchers) > 0
    <3>1. Vouchers # {}
      BY <1>v
    <3>2. Cardinality(Vouchers \ {r}) = Cardinality(Vouchers) - 1
      BY <1>0, FS_RemoveElement
    <3> QED  BY <1>0, <1>v, <3>1, <3>2, FS_EmptySet
  <2>2. Promise!Lapse
    BY <1>v, <2>1 DEF Promise!Lapse
  <2> QED  BY <2>2 DEF Promise!Next
<1>u. CASE UNCHANGED vars
  <2>1. stages' = stages /\ Vouchers' = Vouchers /\ queue' = queue
    BY <1>u DEF vars, Stage, Vouchers
  <2> QED  BY <2>1, Unmoved
<1>1. ASSUME NEW r \in Requests, AdmitDirect(r)
      PROVE  Promise!Next \/ UNCHANGED Promise!vars
  <2>1. Promise!Move(r, "outside", "served")
    <3>1. Moves(r, "outside", "served")
      BY <1>1 DEF AdmitDirect, Free, Stage, Moves
    <3> QED  BY <3>1, StageMove
  <2>2. Vouchers' = Vouchers
    BY <1>1 DEF AdmitDirect, Free, Vouchers
  <2> DEFINE served == {d \in Requests : stages[d] = "served"}
  <2>3. Cardinality(served) < MaxConcurrent
    <3>1. served \subseteq Counted /\ IsFiniteSet(Counted)
      BY FS_Subset, RoomAssumption DEF Stage, Counted, In
    <3>2. Cardinality(served) <= Cardinality(Counted) /\ IsFiniteSet(served)
      BY <3>1, FS_Subset
    <3>3. Cardinality(served) \in Nat /\ Cardinality(Counted) \in Nat
      BY <3>1, <3>2, FS_CardinalityType
    <3>4. Cardinality(Counted) < MaxConcurrent
      BY <1>1, <3>3, RoomAssumption DEF AdmitDirect, CountersExact
    <3>5. \A n, m \in Nat : n <= m /\ m < MaxConcurrent => n < MaxConcurrent
      BY RoomAssumption
    <3> HIDE DEF served
    <3> QED  BY <3>2, <3>3, <3>4, <3>5
  <2>4. Promise!Cardinality(served) = Cardinality(served)
    BY DEF Promise!Cardinality, Cardinality
  <2>5. Promise!WalkIn(r)
    BY <1>1, <2>1, <2>2, <2>3, <2>4
       DEF AdmitDirect, Free, InQueue, Promise!WalkIn, Promise!InLine
  <2> QED  BY <2>5 DEF Promise!Next
<1>2. ASSUME NEW r \in Requests, Overload(r)
      PROVE  Promise!Next \/ UNCHANGED Promise!vars
  <2>1. Promise!Move(r, "outside", "deciding")
    <3>1. Moves(r, "outside", "deciding")
      BY <1>2 DEF Overload, Free, Stage, Moves
    <3> QED  BY <3>1, StageMove
  <2>2. Vouchers' = Vouchers
    BY <1>2 DEF Overload, Free, Vouchers
  <2>3. Promise!Hesitate(r)
    BY <1>2, <2>1, <2>2 DEF Overload, Free, Promise!Hesitate, Promise!InLine, InQueue
  <2> QED  BY <2>3 DEF Promise!Next
<1>3. ASSUME NEW r \in Requests, UndoIncrement(r)
      PROVE  Promise!Next \/ UNCHANGED Promise!vars
  <2>1. stages' = stages /\ Vouchers' = Vouchers /\ queue' = queue
    BY <1>3 DEF UndoIncrement, Stage, Vouchers
  <2> QED  BY <2>1, Unmoved
<1>4. ASSUME NEW r \in Requests, TakePosition(r)
      PROVE  Promise!Next \/ UNCHANGED Promise!vars
  <2>1. stages' = stages /\ Vouchers' = Vouchers /\ queue' = queue
    BY <1>4 DEF TakePosition, Stage, Vouchers
  <2> QED  BY <2>1, Unmoved
<1>5. ASSUME NEW r \in Requests, Enqueue(r)
      PROVE  Promise!Next \/ UNCHANGED Promise!vars
  <2>1. pc[r] = "enqueue" /\ buffer[r] = 0
    BY <1>5 DEF Enqueue, TicketReachable
  <2>2. pc' = [pc EXCEPT ![r] = "parked"] /\ buffer' = buffer
    BY <1>5 DEF Enqueue
  <2>3. Promise!Move(r, "deciding", "waiting")
    <3>1. Moves(r, "deciding", "waiting")
      BY <2>1, <2>2 DEF Stage, Moves
    <3> QED  BY <3>1, StageMove
  <2>4. Vouchers' = Vouchers
    BY <2>1, <2>2 DEF Vouchers
  <2>5. Promise!Join(r)
    BY <1>5, <2>3, <2>4 DEF Enqueue, Promise!Join
  <2> QED  BY <2>5 DEF Promise!Next
<1>6. ASSUME NEW r \in Requests, QueueFull(r)
      PROVE  Promise!Next \/ UNCHANGED Promise!vars
  <2>1. Promise!Move(r, "deciding", "outside")
    <3>1. Moves(r, "deciding", "outside")
      BY <1>6 DEF QueueFull, Stage, Moves
    <3> QED  BY <3>1, StageMove
  <2>2. Vouchers' = Vouchers
    BY <1>6 DEF QueueFull, Vouchers
  <2>3. Len(queue) = QueueSize
    BY <1>6, QueueOps, RoomAssumption DEF QueueFull, TicketReachable
  <2>4. Promise!TurnAway(r)
    BY <1>6, <2>1, <2>2, <2>3 DEF QueueFull, Promise!TurnAway
  <2> QED  BY <2>4 DEF Promise!Next
<1>7. ASSUME NEW r \in Requests, TurnAway(r)
      PROVE  Promise!Next \/ UNCHANGED Promise!vars
  <2>1. stages' = stages /\ Vouchers' = Vouchers /\ queue' = queue
    BY <1>7 DEF TurnAway, Stage, Vouchers
  <2> QED  BY <2>1, Unmoved
<1>8. ASSUME NEW r \in Requests, Receive(r)
      PROVE  Promise!Next \/ UNCHANGED Promise!vars
  <2>1. stages' = stages /\ Vouchers' = Vouchers /\ queue' = queue
    BY <1>8 DEF Receive, Stage, Vouchers
  <2> QED  BY <2>1, Unmoved
<1>9. ASSUME NEW r \in Requests, QueueTimeout(r)
      PROVE  Promise!Next \/ UNCHANGED Promise!vars
  <2>1. CASE buffer[r] = 0
    <3>1. Promise!Move(r, "waiting", "outside")
      <4>1. Moves(r, "waiting", "outside")
        BY <1>9, <2>1 DEF QueueTimeout, Stage, Moves
      <4> QED  BY <4>1, StageMove
    <3>2. Vouchers' = Vouchers
      BY <1>9, <2>1 DEF QueueTimeout, Vouchers
    <3>3. Promise!GiveUp(r)
      BY <1>9, <3>1, <3>2 DEF QueueTimeout, Promise!GiveUp
    <3> QED  BY <3>3 DEF Promise!Next
  <2>2. CASE buffer[r] > 0
    <3>1. Promise!Move(r, "called", "outside")
      <4>1. Moves(r, "called", "outside")
        BY <1>9, <2>2 DEF QueueTimeout, Stage, Moves
      <4> QED  BY <4>1, StageMove
    <3>2. Vouchers' = Vouchers \cup {r} /\ r \notin Vouchers
      BY <1>9, <2>2 DEF QueueTimeout, Vouchers
    <3>3. Cardinality(Vouchers)' = Cardinality(Vouchers) + 1
      BY <1>0, <3>2, FS_AddElement
    <3>4. Promise!Decline(r)
      BY <1>9, <3>1, <3>3 DEF QueueTimeout, Promise!Decline
    <3> QED  BY <3>4 DEF Promise!Next
  <2> QED  BY <2>1, <2>2
<1>10. ASSUME NEW r \in Requests, LeaveQueue(r)
      PROVE  Promise!Next \/ UNCHANGED Promise!vars
  <2>1. CASE buffer[r] = 0
    <3>1. Promise!Move(r, "waiting", "outside")
      <4>1. Moves(r, "waiting", "outside")
        BY <1>10, <2>1 DEF LeaveQueue, Stage, Moves
      <4> QED  BY <4>1, StageMove
    <3>2. Vouchers' = Vouchers
      BY <1>10, <2>1 DEF LeaveQueue, Vouchers
    <3>3. Promise!GiveUp(r)
      BY <1>10, <3>1, <3>2 DEF LeaveQueue, Promise!GiveUp
    <3> QED  BY <3>3 DEF Promise!Next
  <2>2. CASE buffer[r] > 0
    <3>1. Promise!Move(r, "called", "outside")
      <4>1. Moves(r, "called", "outside")
        BY <1>10, <2>2 DEF LeaveQueue, Stage, Moves
      <4> QED  BY <4>1, StageMove
    <3>2. Vouchers' = Vouchers \cup {r} /\ r \notin Vouchers
      BY <1>10, <2>2 DEF LeaveQueue, Vouchers
    <3>3. Cardinality(Vouchers)' = Cardinality(Vouchers) + 1
      BY <1>0, <3>2, FS_AddElement
    <3>4. Promise!Decline(r)
      BY <1>10, <3>1, <3>3 DEF LeaveQueue, Promise!Decline
    <3> QED  BY <3>4 DEF Promise!Next
  <2> QED  BY <2>1, <2>2
<1>11. ASSUME NEW r \in Requests, LeavePosition(r)
      PROVE  Promise!Next \/ UNCHANGED Promise!vars
  <2>1. stages' = stages /\ Vouchers' = Vouchers /\ queue' = queue
    BY <1>11 DEF LeavePosition, Stage, Vouchers
  <2> QED  BY <2>1, Unmoved
<1>12. ASSUME NEW r \in Requests, PassOn(r)
      PROVE  Promise!Next \/ UNCHANGED Promise!vars
  <2>1. Promise!Move(r, "called", "outside")
    <3>1. Moves(r, "called", "outside")
      BY <1>12 DEF PassOn, Stage, Moves
    <3> QED  BY <3>1, StageMove
  <2>2. Vouchers' = Vouchers \cup {r} /\ r \notin Vouchers
    BY <1>12 DEF PassOn, Vouchers
  <2>3. Cardinality(Vouchers)' = Cardinality(Vouchers) + 1
    BY <1>0, <2>2, FS_AddElement
  <2>4. Promise!Decline(r)
    BY <1>12, <2>1, <2>3 DEF PassOn, Promise!Decline
  <2> QED  BY <2>4 DEF Promise!Next
<1>13. ASSUME NEW r \in Requests, ClaimSlot(r)
      PROVE  Promise!Next \/ UNCHANGED Promise!vars
  <2>1. Promise!Move(r, "called", "served")
    <3>1. Moves(r, "called", "served")
      BY <1>13 DEF ClaimSlot, Stage, Moves
    <3> QED  BY <3>1, StageMove
  <2>2. Vouchers' = Vouchers
    BY <1>13 DEF ClaimSlot, Vouchers
  <2>3. Promise!Enter(r)
    BY <1>13, <2>1, <2>2 DEF ClaimSlot, Promise!Enter
  <2> QED  BY <2>3 DEF Promise!Next
<1>14. ASSUME NEW r \in Requests, ReleaseSlot(r)
      PROVE  Promise!Next \/ UNCHANGED Promise!vars
  <2>1. Promise!Move(r, "served", "outside")
    <3>1. Moves(r, "served", "outside")
      BY <1>14 DEF ReleaseSlot, Stage, Moves
    <3> QED  BY <3>1, StageMove
  <2>2. Vouchers' = Vouchers \cup {r} /\ r \notin Vouchers
    BY <1>14 DEF ReleaseSlot, Vouchers
  <2>3. Cardinality(Vouchers)' = Cardinality(Vouchers) + 1
    BY <1>0, <2>2, FS_AddElement
  <2>4. Promise!Leave(r)
    BY <1>14, <2>1, <2>3 DEF ReleaseSlot, Promise!Leave
  <2> QED  BY <2>4 DEF Promise!Next
<1>15. ASSUME NEW r \in Requests, SignalNext(r)
      PROVE  Promise!Next \/ UNCHANGED Promise!vars
  <2>1. PICK t \in Requests : Signalled(r, t)
    BY <1>15, SignalledStep DEF TicketInv
  <2> USE DEF Signalled
  <2>2. r \in Vouchers /\ t \notin Vouchers
    BY <2>1 DEF Vouchers
  <2>3. /\ IsFiniteSet(Vouchers \ {r})
        /\ Cardinality(Vouchers \ {r}) = Cardinality(Vouchers) - 1
        /\ Cardinality(Vouchers) > 0
    <3>1. Vouchers # {}
      BY <2>2
    <3> QED  BY <1>0, <2>2, <3>1, FS_RemoveElement, FS_EmptySet
  <2>4. CASE pc[t] = "parked"
    <3>1. Promise!Move(t, "waiting", "called")
      <4>1. Moves(t, "waiting", "called")
        BY <2>1, <2>4 DEF Stage, Moves
      <4> QED  BY <4>1, StageMove
    <3>2. Vouchers' = Vouchers \ {r}
      BY <2>1, <2>4 DEF Vouchers
    <3>3. Promise!Call(t)
      BY <1>15, <2>1, <2>3, <3>1, <3>2
         DEF SignalNext, Promise!Call
    <3> QED  BY <3>3 DEF Promise!Next
  <2>5. CASE pc[t] # "parked"
    <3>1. stages[t] # "waiting" /\ stages' = stages
      BY <2>1, <2>5 DEF Stage
    <3>2. Vouchers' \in {Vouchers \ {r}, (Vouchers \ {r}) \cup {t}}
      <4>1. CASE pc[t] = "drain"
        <5>1. Vouchers' = (Vouchers \ {r}) \cup {t}
          BY <2>1, <4>1 DEF Vouchers
        <5> QED  BY <5>1
      <4>2. CASE pc[t] \in {"expired", "idle"}
        <5>1. Vouchers' = Vouchers \ {r}
          BY <2>1, <4>2 DEF Vouchers
        <5> QED  BY <5>1
      <4> QED  BY <2>1, <2>5, <4>1, <4>2
    <3>3. Cardinality((Vouchers \ {r}) \cup {t}) = Cardinality(Vouchers)
      <4>1. Cardinality((Vouchers \ {r}) \cup {t}) = Cardinality(Vouchers \ {r}) + 1
        BY <2>2, <2>3, FS_AddElement
      <4> QED  BY <1>0, <2>3, <4>1
    <3>4. Cardinality(Vouchers)' \in {Cardinality(Vouchers) - 1, Cardinality(Vouchers)}
      BY <2>3, <3>2, <3>3
    <3>5. Promise!Skip
      BY <1>15, <2>1, <2>3, <3>1, <3>4 DEF SignalNext, Promise!Skip
    <3> QED  BY <3>5 DEF Promise!Next
  <2> QED  BY <2>4, <2>5
<1>16. ASSUME NEW r \in Requests, SignalNobody(r)
      PROVE  Promise!Next \/ UNCHANGED Promise!vars
  <2>1. stages' = stages /\ queue' = queue
    BY <1>16 DEF SignalNobody, Stage
  <2>2. Vouchers' = Vouchers \ {r} /\ r \in Vouchers
    BY <1>16 DEF SignalNobody, Vouchers
  <2> QED  BY <1>v, <2>1, <2>2
<1>17. ASSUME NEW r \in Requests, DrainReceive(r)
      PROVE  Promise!Next \/ UNCHANGED Promise!vars
  <2>1. stages' = stages /\ Vouchers' = Vouchers /\ queue' = queue
    BY <1>17 DEF DrainReceive, Stage, Vouchers
  <2> QED  BY <2>1, Unmoved
<1>18. ASSUME NEW r \in Requests, DrainForward(r)
      PROVE  Promise!Next \/ UNCHANGED Promise!vars
  <2>1. stages' = stages /\ Vouchers' = Vouchers /\ queue' = queue
    BY <1>18 DEF DrainForward, Stage, Vouchers
  <2> QED  BY <2>1, Unmoved
<1>19. ASSUME NEW r \in Requests, DrainExpire(r)
      PROVE  Promise!Next \/ UNCHANGED Promise!vars
  <2>1. stages' = stages /\ queue' = queue
    BY <1>19 DEF DrainExpire, Stage
  <2>2. CASE buffer[r] = 0
    <3>1. Vouchers' = Vouchers
      BY <1>19, <2>2 DEF DrainExpire, Vouchers
    <3> QED  BY <2>1, <3>1, Unmoved
  <2>3. CASE buffer[r] > 0
    <3>1. Vouchers' = Vouchers \ {r} /\ r \in Vouchers
      BY <1>19, <2>3 DEF DrainExpire, Vouchers
    <3> QED  BY <1>v, <2>1, <3>1
  <2> QED  BY <2>2, <2>3
<1>20. ASSUME NEW r \in Requests, DrainExit(r)
      PROVE  Promise!Next \/ UNCHANGED Promise!vars
  <2>1. stages' = stages /\ Vouchers' = Vouchers /\ queue' = queue
    BY <1>20 DEF DrainExit, Stage, Vouchers
  <2> QED  BY <2>1, Unmoved
<1>21. ASSUME NEW r \in Requests, Disconnect(r)
      PROVE  Promise!Next \/ UNCHANGED Promise!vars
  <2>1. stages' = stages /\ Vouchers' = Vouchers /\ queue' = queue
    BY <1>21 DEF Disconnect, Stage, Vouchers
  <2> QED  BY <2>1, Unmoved
<1> QED
  BY <1>u, <1>1, <1>2, <1>3, <1>4, <1>5, <1>6, <1>7, <1>8, <1>9, <1>10,
     <1>11, <1>12, <1>13, <1>14, <1>15, <1>16, <1>17, <1>18, <1>19, <1>20, <1>21
     DEF Next, Step, Timer

\* The waiting room implements the admission line.
THEOREM RoomRefinesLine == Spec => RefinesAdmissionLine
<1>1. Init => Promise!Init
  <2> SUFFICES ASSUME Init PROVE Promise!Init
    OBVIOUS
  <2>1. Vouchers = {}
    BY DEF Init, Vouchers
  <2>2. \A r \in Requests : Stage(r) = "outside"
    BY DEF Init, Stage
  <2> QED  BY <2>1, <2>2, FS_EmptySet DEF Init, Promise!Init
<1>2. IInv /\ [Next]_vars => [Promise!Next]_(Promise!vars)
  BY LineStep
<1> QED  BY <1>1, <1>2, Inductive, PTL DEF Spec, RefinesAdmissionLine, Promise!Spec
=============================================================================
