----------------------------- MODULE WaitingRoom -----------------------------
(***************************************************************************)
(* The waiting room (waitingroom/waitingroom.go): the circuit breaker that  *)
(* lets at most about MaxConcurrent requests through to the backend and     *)
(* parks the others in a FIFO channel of one-slot "ticket" channels.        *)
(*                                                                         *)
(* Every request runs in a goroutine of its own, and the only shared state  *)
(* is two atomic counters, the queue channel and the ticket buffers.  One   *)
(* action is one atomic operation on that state, so TLC explores every      *)
(* interleaving the Go scheduler can produce.                               *)
(*                                                                         *)
(* An element of Requests names one live request, its ticket, and the       *)
(* goroutine it leaves behind (drainTicket, go signalNext).  A name is used *)
(* again for a new request once all of those are gone and the ticket is out *)
(* of the queue, so runs are unbounded although Requests is finite.         *)
(***************************************************************************)
EXTENDS Integers, Sequences, FiniteSets

CONSTANTS
    Requests,       \* names of the requests that can be alive at once
    MaxConcurrent,  \* cfg.MaxConcurrent
    QueueSize       \* cfg.QueueSize, the capacity of the queue channel

\* config.validate refuses zero and negative limits.
ASSUME RoomAssumption ==
    /\ IsFiniteSet(Requests)
    /\ MaxConcurrent \in Nat \ {0}
    /\ QueueSize \in Nat \ {0}

VARIABLES
    activeRequests, \* wr.activeRequests
    queueDepth,     \* wr.queueDepth
    queue,          \* wr.queue: the tickets sent and not yet dequeued
    buffer,         \* buffer[r]: signals in the buffer of r's ticket
    disconnected,   \* the requests whose context is done
    pc              \* pc[r]: where the goroutine of r is

vars == <<activeRequests, queueDepth, queue, buffer, disconnected, pc>>

-----------------------------------------------------------------------------
(* The places where a goroutine can be between two atomic operations:       *)
(*   idle      no such request                                              *)
(*   overload  its increment of activeRequests exceeded the limit           *)
(*   position  undone; about to make a ticket and increment queueDepth      *)
(*   enqueue   about to send its ticket to the queue                        *)
(*   full      the send found the queue full; queueDepth still counts it    *)
(*   parked    in the three-way select                                      *)
(*   admitted  received from its ticket; queueDepth still counts it         *)
(*   resume    about to look at its context and to claim the slot           *)
(*   backend   in next.ServeHTTP                                            *)
(*   signal    about to call signalNext                                     *)
(*   drain     gone; its drainTicket goroutine waits                        *)
(*   drained   drainTicket received; queueDepth still counts it             *)
(*   expired   drainTicket ran into the safety timeout, as above            *)
Places == {"idle", "overload", "position", "enqueue", "full", "parked",
           "admitted", "resume", "backend", "signal", "drain", "drained",
           "expired"}

In(places) == {r \in Requests : pc[r] \in places}

Goto(r, place) == pc' = [pc EXCEPT ![r] = place]

InQueue(t) == \E i \in 1..Len(queue) : queue[i] = t

\* r's goroutine and ticket are gone, and a new request may take the name.
Free(r) == pc[r] = "idle" /\ ~InQueue(r)

\* The handler of r still runs on behalf of a client that can hang up.
Serving(r) == pc[r] \in {"overload", "position", "enqueue", "full", "parked",
                         "admitted", "resume", "backend"}

Init ==
    /\ activeRequests = 0
    /\ queueDepth = 0
    /\ queue = <<>>
    /\ buffer = [r \in Requests |-> 0]
    /\ disconnected = {}
    /\ pc = [r \in Requests |-> "idle"]

-----------------------------------------------------------------------------
(* Path A: optimistic direct admission.                                     *)

\* Faulty variant: the limit is compared with the counter before the increment.
AdmitDirectLate(r) ==
    /\ Free(r)
    /\ activeRequests <= MaxConcurrent
    /\ activeRequests' = activeRequests + 1
    /\ buffer' = [buffer EXCEPT ![r] = 0]
    /\ Goto(r, "backend")
    /\ UNCHANGED <<queueDepth, queue, disconnected>>

\* The increment lands within the limit: the request owns a slot.
AdmitDirect(r) ==
    /\ Free(r)
    /\ activeRequests + 1 <= MaxConcurrent
    /\ activeRequests' = activeRequests + 1
    /\ buffer' = [buffer EXCEPT ![r] = 0]
    /\ Goto(r, "backend")
    /\ UNCHANGED <<queueDepth, queue, disconnected>>

\* The increment exceeds the limit; until it is undone it counts all the same.
Overload(r) ==
    /\ Free(r)
    /\ activeRequests + 1 > MaxConcurrent
    /\ activeRequests' = activeRequests + 1
    /\ buffer' = [buffer EXCEPT ![r] = 0]
    /\ Goto(r, "overload")
    /\ UNCHANGED <<queueDepth, queue, disconnected>>

UndoIncrement(r) ==
    /\ pc[r] = "overload"
    /\ activeRequests' = activeRequests - 1
    /\ Goto(r, "position")
    /\ UNCHANGED <<queueDepth, queue, buffer, disconnected>>

-----------------------------------------------------------------------------
(* Path B: the queue.                                                       *)

TakePosition(r) ==
    /\ pc[r] = "position"
    /\ queueDepth' = queueDepth + 1
    /\ Goto(r, "enqueue")
    /\ UNCHANGED <<activeRequests, queue, buffer, disconnected>>

\* Faulty variant: the newest ticket goes to the front (a stack, not a channel).
EnqueueInFront(r) ==
    /\ pc[r] = "enqueue"
    /\ Len(queue) < QueueSize
    /\ queue' = <<r>> \o queue
    /\ Goto(r, "parked")
    /\ UNCHANGED <<activeRequests, queueDepth, buffer, disconnected>>

\* The non-blocking send succeeds while the channel has room.
Enqueue(r) ==
    /\ pc[r] = "enqueue"
    /\ Len(queue) < QueueSize
    /\ queue' = Append(queue, r)
    /\ Goto(r, "parked")
    /\ UNCHANGED <<activeRequests, queueDepth, buffer, disconnected>>

QueueFull(r) ==
    /\ pc[r] = "enqueue"
    /\ Len(queue) >= QueueSize
    /\ Goto(r, "full")
    /\ UNCHANGED <<activeRequests, queueDepth, queue, buffer, disconnected>>

\* Faulty variant: the position is not given back.
TurnAwayCounted(r) ==
    /\ pc[r] = "full"
    /\ disconnected' = disconnected \ {r}
    /\ Goto(r, "idle")
    /\ UNCHANGED <<activeRequests, queueDepth, queue, buffer>>

\* Gives the position back and serves the wait page (503).
TurnAway(r) ==
    /\ pc[r] = "full"
    /\ queueDepth' = queueDepth - 1
    /\ disconnected' = disconnected \ {r}
    /\ Goto(r, "idle")
    /\ UNCHANGED <<activeRequests, queue, buffer>>

\* Faulty variant: the request goes on without a signal.
ReceiveAnyway(r) ==
    /\ pc[r] = "parked"
    /\ buffer' = [buffer EXCEPT ![r] = @ - 1]
    /\ Goto(r, "admitted")
    /\ UNCHANGED <<activeRequests, queueDepth, queue, disconnected>>

\* Event 1 of the select: the admission signal.
Receive(r) ==
    /\ pc[r] = "parked"
    /\ buffer[r] > 0
    /\ buffer' = [buffer EXCEPT ![r] = @ - 1]
    /\ Goto(r, "admitted")
    /\ UNCHANGED <<activeRequests, queueDepth, queue, disconnected>>

\* Faulty variant: the request queues again with the ticket it has.
QueueTimeoutRetries(r) ==
    /\ pc[r] = "parked"
    /\ Goto(r, "enqueue")
    /\ UNCHANGED <<activeRequests, queueDepth, queue, buffer, disconnected>>

\* Event 2: time.After(QueueTimeout), possible in any parked state.  The wait
\* page is served (503) while drainTicket takes the ticket over.
QueueTimeout(r) ==
    /\ pc[r] = "parked"
    /\ disconnected' = disconnected \ {r}
    /\ Goto(r, "drain")
    /\ UNCHANGED <<activeRequests, queueDepth, queue, buffer>>

\* Event 3: the client has disconnected.
LeaveQueue(r) ==
    /\ pc[r] = "parked"
    /\ r \in disconnected
    /\ disconnected' = disconnected \ {r}
    /\ Goto(r, "drain")
    /\ UNCHANGED <<activeRequests, queueDepth, queue, buffer>>

LeavePosition(r) ==
    /\ pc[r] = "admitted"
    /\ queueDepth' = queueDepth - 1
    /\ Goto(r, "resume")
    /\ UNCHANGED <<activeRequests, queue, buffer, disconnected>>

\* Faulty variant: the handler returns and signals nobody.
PassOnNothing(r) ==
    /\ pc[r] = "resume"
    /\ r \in disconnected
    /\ disconnected' = disconnected \ {r}
    /\ Goto(r, "idle")
    /\ UNCHANGED <<activeRequests, queueDepth, queue, buffer>>

\* Admitted, but the client hung up: go wr.signalNext().
PassOn(r) ==
    /\ pc[r] = "resume"
    /\ r \in disconnected
    /\ disconnected' = disconnected \ {r}
    /\ Goto(r, "signal")
    /\ UNCHANGED <<activeRequests, queueDepth, queue, buffer>>

\* Admitted: the increment is unconditional, there is no second look at the
\* limit.
ClaimSlot(r) ==
    /\ pc[r] = "resume"
    /\ r \notin disconnected
    /\ activeRequests' = activeRequests + 1
    /\ Goto(r, "backend")
    /\ UNCHANGED <<queueDepth, queue, buffer, disconnected>>

-----------------------------------------------------------------------------
(* Slots coming back.                                                       *)

\* next.ServeHTTP returns or panics; the deferred releaseSlot decrements.
ReleaseSlot(r) ==
    /\ pc[r] = "backend"
    /\ activeRequests' = activeRequests - 1
    /\ disconnected' = disconnected \ {r}
    /\ Goto(r, "signal")
    /\ UNCHANGED <<queueDepth, queue, buffer>>

\* Faulty variant: with an unbuffered ticket and a non-blocking send, the signal
\* is gone unless the request is parked.
SignalNextUnbuffered(r) ==
    /\ pc[r] = "signal"
    /\ queue # <<>>
    /\ queue' = Tail(queue)
    /\ buffer' = [buffer EXCEPT ![Head(queue)] =
                     IF pc[Head(queue)] = "parked" THEN @ + 1 ELSE @]
    /\ Goto(r, "idle")
    /\ UNCHANGED <<activeRequests, queueDepth, disconnected>>

\* signalNext dequeues the front ticket and sends to it.  Nobody else can see
\* the ticket between the two, and the send finds room (SignalNeverBlocks), so
\* they are one step.
SignalNext(r) ==
    /\ pc[r] = "signal"
    /\ queue # <<>>
    /\ queue' = Tail(queue)
    /\ buffer' = [buffer EXCEPT ![Head(queue)] = @ + 1]
    /\ Goto(r, "idle")
    /\ UNCHANGED <<activeRequests, queueDepth, disconnected>>

SignalNobody(r) ==
    /\ pc[r] = "signal"
    /\ queue = <<>>
    /\ Goto(r, "idle")
    /\ UNCHANGED <<activeRequests, queueDepth, queue, buffer, disconnected>>

\* drainTicket receives the signal meant for a request that has left...
DrainReceive(r) ==
    /\ pc[r] = "drain"
    /\ buffer[r] > 0
    /\ buffer' = [buffer EXCEPT ![r] = @ - 1]
    /\ Goto(r, "drained")
    /\ UNCHANGED <<activeRequests, queueDepth, queue, disconnected>>

\* ...gives the position back and forwards the signal.
DrainForward(r) ==
    /\ pc[r] = "drained"
    /\ queueDepth' = queueDepth - 1
    /\ Goto(r, "signal")
    /\ UNCHANGED <<activeRequests, queue, buffer, disconnected>>

\* Faulty variant: drainTicket has no safety timeout.
DrainNeverExpires(r) == pc[r] = "drain" /\ FALSE

\* The safety timeout; the select may choose it although a signal is there.
DrainExpire(r) ==
    /\ pc[r] = "drain"
    /\ Goto(r, "expired")
    /\ UNCHANGED <<activeRequests, queueDepth, queue, buffer, disconnected>>

\* The goroutine ends; the ticket stays wherever it is.
DrainExit(r) ==
    /\ pc[r] = "expired"
    /\ queueDepth' = queueDepth - 1
    /\ Goto(r, "idle")
    /\ UNCHANGED <<activeRequests, queue, buffer, disconnected>>

-----------------------------------------------------------------------------
\* The client of r closes its connection: r.Context() is done.
Disconnect(r) ==
    /\ Serving(r)
    /\ r \notin disconnected
    /\ disconnected' = disconnected \cup {r}
    /\ UNCHANGED <<activeRequests, queueDepth, queue, buffer, pc>>

\* The timers of the two parked selects.
Timer(r) == QueueTimeout(r) \/ DrainExpire(r)

\* What the goroutines of r do when they run.
Step(r) ==
    \/ UndoIncrement(r)
    \/ TakePosition(r)
    \/ Enqueue(r)
    \/ QueueFull(r)
    \/ TurnAway(r)
    \/ Receive(r)
    \/ LeaveQueue(r)
    \/ LeavePosition(r)
    \/ PassOn(r)
    \/ ClaimSlot(r)
    \/ ReleaseSlot(r)
    \/ SignalNext(r)
    \/ SignalNobody(r)
    \/ DrainReceive(r)
    \/ DrainForward(r)
    \/ DrainExit(r)

Next ==
    \E r \in Requests :
        \/ AdmitDirect(r)
        \/ Overload(r)
        \/ Disconnect(r)
        \/ Timer(r)
        \/ Step(r)

Spec == Init /\ [][Next]_vars

\* The Go scheduler runs every goroutine that can run, and http.Client.Timeout
\* ends every call to the backend.  Nothing makes clients come or hang up.
FairSpec == Spec /\ \A r \in Requests : WF_vars(Step(r))

\* A select that stays parked sees its timer fire.
TimersFire == \A r \in Requests : WF_vars(Timer(r))

-----------------------------------------------------------------------------
(* Properties.                                                              *)

TypeOK ==
    /\ activeRequests \in Int
    /\ queueDepth \in Int
    /\ queue \in Seq(Requests)
    /\ buffer \in [Requests -> Nat]
    /\ disconnected \subseteq Requests
    /\ pc \in [Requests -> Places]

\* The goroutines whose increment of a counter is outstanding.
Counted == In({"overload", "backend"})

Positioned == In({"enqueue", "full", "parked", "admitted", "drain", "drained",
                  "expired"})

\* The two counters are exactly the increments that have not been taken back,
\* whatever way each request left: directly, from the queue, turned away, timed
\* out, disconnected or by the safety timeout.  Neither can go negative, and both
\* are 0 when nobody is left (what the stress test asserts after 5000 requests).
CountersExact ==
    /\ activeRequests = Cardinality(Counted)
    /\ queueDepth = Cardinality(Positioned)

\* A ticket is in the queue at most once and has an empty buffer while it is
\* there, so the send in signalNext always finds room in the one-slot buffer and
\* the releasing goroutine never blocks in its defer.
SignalNeverBlocks ==
    /\ \A i, j \in 1..Len(queue) : queue[i] = queue[j] => i = j
    /\ \A i \in 1..Len(queue) : buffer[queue[i]] = 0
    /\ \A r \in Requests : buffer[r] <= 1

\* A parked request, and a drainTicket that waits, can be reached by a signal in
\* exactly one way: its ticket is in the queue or the signal is in its buffer.
\* Any other live goroutine has neither, so no signal goes where nobody reads.
TicketReachable ==
    /\ Len(queue) <= QueueSize
    /\ \A r \in Requests :
          /\ pc[r] \in {"parked", "drain"} => (InQueue(r) <=> buffer[r] = 0)
          /\ pc[r] \notin {"parked", "drain", "expired", "idle"} =>
                ~InQueue(r) /\ buffer[r] = 0

\* Who holds a backend slot, or the right to one on its way from a completed
\* request to the next: signalled, being admitted, or about to signal.
SlotHolders ==
    {r \in Requests :
        \/ pc[r] \in {"backend", "admitted", "resume", "signal", "drained"}
        \/ pc[r] \in {"parked", "drain"} /\ buffer[r] > 0}

\* r comes in directly, and with it the backend is within its limit.
DirectEntry(r) ==
    /\ pc[r] = "idle" /\ pc'[r] = "backend"
    /\ SlotHolders' = SlotHolders \cup {r}
    /\ Cardinality(In({"backend"})') <= MaxConcurrent

\* r signals although nobody waits, and the slot is back with the free ones.
SlotReturned(r) ==
    /\ queue = <<>>
    /\ pc[r] = "signal" /\ pc'[r] = "idle"
    /\ SlotHolders' = SlotHolders \ {r}

\* The signal has gone to a ticket whose drainTicket hit the safety timeout.
SlotSwallowed ==
    \E r, t \in Requests :
        /\ pc'[t] \in {"idle", "expired"} /\ buffer'[t] > 0
        /\ SlotHolders' = SlotHolders \ {r}

\* A slot is handed on whole.  Releases, signals, forwarded signals, timeouts and
\* disconnections neither duplicate nor drop a right to enter the backend: the
\* number of holders grows only by a direct admission within the limit, and
\* falls only when the queue is empty or at a ticket drainTicket has given up.
SlotsKept ==
    \/ Cardinality(SlotHolders') = Cardinality(SlotHolders)
    \/ \E r \in Requests : DirectEntry(r) \/ SlotReturned(r)
    \/ SlotSwallowed

SlotConservation == [][SlotsKept]_vars

\* Every goroutine the room starts for a request ends, so requests and orphaned
\* tickets cannot pile up: this is what the safety timeout is for.
EveryGoroutineEnds ==
    TimersFire => \A r \in Requests : pc[r] # "idle" ~> pc[r] = "idle"

Waiting(r) == pc[r] = "parked" /\ buffer[r] = 0

\* Newcomers can overtake the queue by direct admission, yet they starve nobody:
\* as long as anybody holds a slot, a waiting request is called sooner or later,
\* even if its timer never fires.
NoStarvation ==
    \A r \in Requests :
        Waiting(r) /\ SlotHolders # {} ~> ~Waiting(r) \/ SlotHolders = {}

-----------------------------------------------------------------------------
(* What comments and tests say, and the code does not do.                   *)

\* "signalNext ... Queue is empty - no goroutines are waiting": whenever a live
\* request waits in the queue, some goroutine holds a slot or a signal and will
\* call signalNext.  Broken by a request that saw the limit reached and enqueues
\* after the last release looked at the queue.
NoStrandedWaiter ==
    (\E r \in Requests : Waiting(r)) => SlotHolders # {}

-----------------------------------------------------------------------------
(* The promise of AdmissionLine, read off the state of the room.            *)

Stage(r) ==
    CASE pc[r] \in {"overload", "position", "enqueue"} -> "deciding"
      [] pc[r] = "parked" /\ buffer[r] = 0 -> "waiting"
      [] pc[r] = "parked" /\ buffer[r] > 0 -> "called"
      [] pc[r] \in {"admitted", "resume"} -> "called"
      [] pc[r] = "backend" -> "served"
      [] OTHER -> "outside"

\* The goroutines that will call signalNext for somebody who has left.
Vouchers ==
    {r \in Requests : \/ pc[r] \in {"signal", "drained"}
                      \/ pc[r] = "drain" /\ buffer[r] > 0}

Promise == INSTANCE AdmissionLine
             WITH Clients  <- Requests,
                  Limit    <- MaxConcurrent,
                  Room     <- QueueSize,
                  stage    <- [r \in Requests |-> Stage(r)],
                  line     <- queue,
                  vouchers <- Cardinality(Vouchers)

\* The room implements the abstract admission line: a client enters the backend
\* either directly while fewer than MaxConcurrent are served, or because it was
\* called; calls go in order of joining; and each call was paid for by exactly
\* one client that left the backend or declined.
RefinesAdmissionLine == Promise!Spec
=============================================================================
