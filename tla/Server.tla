-------------------------------- MODULE Server --------------------------------
(***************************************************************************)
(* The process (main.go): it loads its configuration, starts two servers,   *)
(* and on a signal shuts them down while requests are on their way through   *)
(* the chain of rate limiter, waiting room, stripper and proxy.              *)
(*                                                                         *)
(* The waiting room is its abstract promise, AdmissionLine.  What is added   *)
(* is time: how long requests wait and are served, how old they are when     *)
(* they are answered, and what the servers' and main's own deadlines do to   *)
(* them.  Code takes no time: the clock ticks only when nothing is due.      *)
(***************************************************************************)
EXTENDS Config, Sequences, FiniteSets

CONSTANTS
    Clients,    \* names of the client connections that can be open at once
    Limit,      \* MaxConcurrent of the waiting room
    Room,       \* QueueSize of the waiting room
    Margin,     \* what main adds to the two timeouts for writing: 15 s
    Grace       \* what main gives the servers to shut down: 15 s

ASSUME ServerAssumption ==
    /\ IsFiniteSet(Clients)
    /\ Limit \in Nat \ {0} /\ Room \in Nat \ {0}
    /\ Margin \in Nat \ {0} /\ Grace \in Nat \ {0}

VARIABLES
    main,           \* how far main has come
    exit,           \* how the process has ended, or "no"
    cfg,            \* the configuration
    writeTimeout,   \* proxyServer.WriteTimeout
    listener,       \* listener[s]: ListenAndServe of server s
    shutdown,       \* shutdown[s]: Shutdown of server s
    grace,          \* time since main asked the servers to shut down, up to Grace
    scraping,       \* a request to the metrics server is being answered
    conn,           \* the clients whose connection to the proxy server is open
    stage, line, vouchers,  \* the waiting room, see AdmissionLine
    age,            \* age[c]: time since the header of the request was read
    since,          \* since[c]: time the request has waited, or been served
    reply           \* reply[c]: the answer to c that has been begun

processVars == <<main, exit, cfg, writeTimeout, listener, shutdown, scraping>>
lineVars == <<stage, line, vouchers>>
timeVars == <<grace, age, since>>
vars == <<main, exit, cfg, writeTimeout, listener, shutdown, grace, scraping,
          conn, stage, line, vouchers, age, since, reply>>

Servers == {"proxy", "metrics"}

Line == INSTANCE AdmissionLine

Outside == {c \in Clients : stage[c] = "outside"}

Init ==
    /\ main = "loading" /\ exit = "no"
    /\ cfg = Default /\ writeTimeout = 0
    /\ listener = [s \in Servers |-> "new"]
    /\ shutdown = [s \in Servers |-> "no"]
    /\ scraping = FALSE
    /\ conn = {}
    /\ Line!Init
    /\ grace = 0
    /\ age = [c \in Clients |-> 0] /\ since = [c \in Clients |-> 0]
    /\ reply = [c \in Clients |-> "none"]

-----------------------------------------------------------------------------
(* main: from the start to the signal.                                      *)

MainStep == UNCHANGED <<conn, lineVars, timeVars, reply>>

\* Faulty variant: the timeout that was configured and validated is used.
ServerTimeoutConfigured(c) == c["WriteTimeout"]

\* The proxy server is not built with the WriteTimeout that Load has validated.
ServerTimeout(c) == c["QueueTimeout"] + c["BackendTimeout"] + Margin

\* Load the configuration, build the modules and the servers, start listening.
Start ==
    /\ main = "loading" /\ exit = "no"
    /\ \E env \in Environments :
          /\ Load(env)
          /\ cfg' = Loaded(env)
          /\ writeTimeout' = ServerTimeout(Loaded(env))
    /\ main' = "starting"
    /\ UNCHANGED <<exit, listener, shutdown, scraping>> /\ MainStep

\* Load or proxy.New fails.
RefuseToStart ==
    /\ main = "loading" /\ exit = "no"
    /\ \E env \in Environments : ~Load(env)
    /\ exit' = "error"
    /\ UNCHANGED <<main, cfg, writeTimeout, listener, shutdown, scraping>> /\ MainStep

\* ListenAndServe looks for a shutdown, then binds the address and serves.
ListenAndServe(s) ==
    /\ main # "loading" /\ exit = "no"
    /\ listener[s] \in {"new", "binding"}
    /\ listener' = [listener EXCEPT ![s] =
                       IF shutdown[s] # "no" THEN "closed"
                       ELSE IF @ = "new" THEN "binding" ELSE "open"]
    /\ UNCHANGED <<main, exit, cfg, writeTimeout, shutdown, scraping>> /\ MainStep

\* The address cannot be bound, or Accept fails: os.Exit, whatever else goes on.
ListenerFails(s) ==
    /\ exit = "no"
    /\ listener[s] \in {"binding", "open"}
    /\ exit' = "error"
    /\ UNCHANGED <<main, cfg, writeTimeout, listener, shutdown, scraping>> /\ MainStep

\* From signal.Notify on, a signal does not kill the process.
Notify ==
    /\ main = "starting" /\ exit = "no"
    /\ main' = "serving"
    /\ UNCHANGED <<exit, cfg, writeTimeout, listener, shutdown, scraping>> /\ MainStep

Killed ==
    /\ main \in {"loading", "starting"} /\ exit = "no"
    /\ exit' = "killed"
    /\ UNCHANGED <<main, cfg, writeTimeout, listener, shutdown, scraping>> /\ MainStep

\* SIGINT or SIGTERM.  Further signals stay in the channel, which nobody reads.
Signal ==
    /\ main = "serving" /\ exit = "no"
    /\ main' = "stopping"
    /\ UNCHANGED <<exit, cfg, writeTimeout, listener, shutdown, scraping>> /\ MainStep

-----------------------------------------------------------------------------
(* main: shutting down.                                                     *)

\* No connection is left, and no handler runs.
Quiet(s) ==
    IF s = "metrics" THEN ~scraping ELSE conn = {} /\ Outside = Clients

\* One of the two goroutines that main starts: the listener is closed first.
BeginShutdown(s) ==
    /\ main = "stopping" /\ exit = "no" /\ shutdown[s] = "no"
    /\ shutdown' = [shutdown EXCEPT ![s] = "closing"]
    /\ listener' = [listener EXCEPT ![s] = IF @ = "open" THEN "closed" ELSE @]
    /\ UNCHANGED <<main, exit, cfg, writeTimeout, scraping>> /\ MainStep

\* Faulty variant: the context that Shutdown is given does not expire.
GraceOverNever == FALSE

GraceOver == grace = Grace

\* Shutdown returns when all is quiet, or when its context expires.
EndShutdown(s) ==
    /\ exit = "no" /\ shutdown[s] = "closing"
    /\ Quiet(s) \/ GraceOver
    /\ shutdown' = [shutdown EXCEPT ![s] = "done"]
    /\ UNCHANGED <<main, exit, cfg, writeTimeout, listener, scraping>> /\ MainStep

\* Faulty variant: main waits for one of the two.
ReturnEarly ==
    /\ main = "stopping" /\ exit = "no"
    /\ \E s \in Servers : shutdown[s] = "done"
    /\ exit' = "returned"
    /\ UNCHANGED <<main, cfg, writeTimeout, listener, shutdown, scraping>> /\ MainStep

\* wg.Wait, and the process ends with whatever still runs in it.
Return ==
    /\ main = "stopping" /\ exit = "no"
    /\ \A s \in Servers : shutdown[s] = "done"
    /\ exit' = "returned"
    /\ UNCHANGED <<main, cfg, writeTimeout, listener, shutdown, scraping>> /\ MainStep

\* A request to the metrics server begins or ends.
Scrape ==
    /\ exit = "no" /\ (scraping \/ listener["metrics"] = "open")
    /\ scraping' = ~scraping
    /\ UNCHANGED <<main, exit, cfg, writeTimeout, listener, shutdown>> /\ MainStep

-----------------------------------------------------------------------------
(* Connections.  A connection is busy with one request at a time.           *)

Connect(c) ==
    /\ exit = "no" /\ listener["proxy"] = "open"
    /\ c \in Outside \ conn
    /\ conn' = conn \cup {c}
    /\ reply' = [reply EXCEPT ![c] = "none"]
    /\ UNCHANGED <<processVars, lineVars, timeVars>>

\* The client closes its connection; the context of its request is done.
HangUp(c) ==
    /\ exit = "no" /\ c \in conn
    /\ conn' = conn \ {c}
    /\ UNCHANGED <<processVars, lineVars, timeVars, reply>>

\* Shutdown closes the connections that are idle.
CloseIdle(c) ==
    /\ exit = "no" /\ shutdown["proxy"] = "closing"
    /\ c \in conn \cap Outside
    /\ conn' = conn \ {c}
    /\ UNCHANGED <<processVars, lineVars, timeVars, reply>>

\* A request arrives, as it may until its connection is closed.  A client that
\* left has had its voucher used: releaseSlot is done before its answer ends.
Arrive(c) ==
    /\ exit = "no" /\ c \in conn
    /\ vouchers < Cardinality(Outside)
    /\ reply' = [reply EXCEPT ![c] = "none"]
    /\ UNCHANGED <<processVars, conn, timeVars>>

\* The answer reaches the client if the server's deadline for it has not passed.
Reply(c, what) ==
    reply' = [reply EXCEPT ![c] = IF age[c] < writeTimeout THEN what ELSE "cut"]

\* After a request the connection is kept for the next, except while shutting down.
KeepAlive(c) == conn' = IF shutdown["proxy"] = "no" THEN conn ELSE conn \ {c}

\* The handler returns.
ResetClocks(c) ==
    /\ age' = [age EXCEPT ![c] = 0]
    /\ since' = [since EXCEPT ![c] = 0]
    /\ UNCHANGED <<processVars, grace>>

-----------------------------------------------------------------------------
(* Requests, on their way through the chain.                                *)

\* The rate limiter comes first: what it refuses never sees the waiting room.
LimitRate(c) ==
    /\ exit = "no" /\ c \in conn \cap Outside
    /\ reply' = [reply EXCEPT ![c] = "refused"]
    /\ KeepAlive(c)
    /\ UNCHANGED <<processVars, lineVars, timeVars>>

WalkIn(c) == Arrive(c) /\ Line!WalkIn(c)

Hesitate(c) == Arrive(c) /\ Line!Hesitate(c)

Join(c) ==
    /\ exit = "no" /\ Line!Join(c)
    /\ UNCHANGED <<processVars, conn, timeVars, reply>>

TurnAway(c) ==
    /\ exit = "no" /\ Line!TurnAway(c)
    /\ Reply(c, "wait") /\ KeepAlive(c)
    /\ ResetClocks(c)

\* The room hands on what was given back.
HandOn ==
    /\ exit = "no"
    /\ Line!Skip \/ Line!Lapse \/ \E c \in Clients : Line!Call(c)
    /\ UNCHANGED <<processVars, conn, timeVars, reply>>

QueueTimeout(c) ==
    /\ exit = "no" /\ since[c] = cfg["QueueTimeout"] /\ Line!GiveUp(c)
    /\ Reply(c, "wait") /\ KeepAlive(c)
    /\ ResetClocks(c)

LeaveQueue(c) ==
    /\ exit = "no" /\ c \notin conn /\ Line!GiveUp(c)
    /\ ResetClocks(c) /\ UNCHANGED <<conn, reply>>

\* A client that was called claims its slot, or passes it on if it is gone.
Enter(c) ==
    /\ exit = "no" /\ c \in conn /\ Line!Enter(c)
    /\ since' = [since EXCEPT ![c] = 0]
    /\ UNCHANGED <<processVars, conn, grace, age, reply>>

Decline(c) ==
    /\ exit = "no" /\ c \notin conn /\ Line!Decline(c)
    /\ ResetClocks(c) /\ UNCHANGED <<conn, reply>>

\* The exchange with the backend yields an answer, and writing it begins.
Answer(c) ==
    /\ exit = "no" /\ c \in conn
    /\ stage[c] = "served" /\ reply[c] = "none"
    /\ Reply(c, "answer")
    /\ UNCHANGED <<processVars, conn, lineVars, timeVars>>

\* Faulty variant: the exchange has no deadline, like http.Client by default.
BackendTimeoutNever(c) == FALSE

\* BackendTimeout ends an exchange that has not begun to answer: with an error, or
\* with the part of a page that the stripper has so far held back.
BackendTimeout(c) ==
    /\ stage[c] = "served" /\ reply[c] = "none"
    /\ since[c] = cfg["BackendTimeout"]

AnswerError(c) ==
    /\ exit = "no" /\ c \in conn
    /\ BackendTimeout(c)
    /\ Line!Leave(c) /\ Reply(c, "error") /\ KeepAlive(c)
    /\ ResetClocks(c)

\* The client has read the answer to its end.
Finish(c) ==
    /\ exit = "no" /\ c \in conn
    /\ reply[c] # "none" /\ Line!Leave(c)
    /\ KeepAlive(c)
    /\ ResetClocks(c) /\ UNCHANGED reply

\* The writing is not done when the server's deadline for it passes.
Overdue(c) == stage[c] = "served" /\ reply[c] # "none" /\ age[c] >= writeTimeout

\* It has not, and its writes fail.
WriteFails(c) ==
    /\ exit = "no" /\ c \in conn
    /\ Overdue(c)
    /\ Line!Leave(c) /\ conn' = conn \ {c}
    /\ ResetClocks(c) /\ UNCHANGED reply

\* The client is gone: reading from the backend and writing to it both fail.
Abandon(c) ==
    /\ exit = "no" /\ c \notin conn
    /\ Line!Leave(c)
    /\ ResetClocks(c) /\ UNCHANGED <<conn, reply>>

-----------------------------------------------------------------------------
(* Time.                                                                    *)

\* Code is about to run: for a request, in the room, or in main.
Due ==
    \/ vouchers > 0
    \/ \E c \in Clients :
          \/ stage[c] \in {"deciding", "called"}
          \/ stage[c] = "waiting" /\ (since[c] = cfg["QueueTimeout"] \/ c \notin conn)
          \/ stage[c] = "served" /\ c \notin conn
          \/ BackendTimeout(c)
          \/ Overdue(c)
    \/ main = "stopping" /\ \E s \in Servers :
          shutdown[s] = "no" \/ (shutdown[s] = "closing" /\ GraceOver)
    \/ \A s \in Servers : shutdown[s] = "done"

Older(clock) == [c \in Clients |-> IF c \in Outside THEN clock[c] ELSE clock[c] + 1]

Tick ==
    /\ exit = "no" /\ main # "loading" /\ ~Due
    /\ grace' = IF main = "stopping" /\ grace < Grace THEN grace + 1 ELSE grace
    /\ age' = Older(age)
    /\ since' = Older(since)
    /\ UNCHANGED <<processVars, conn, lineVars, reply>>

\* What the goroutine that serves c does without its client or the backend.
Proceed(c) ==
    \/ CloseIdle(c)
    \/ Join(c) \/ TurnAway(c) \/ QueueTimeout(c) \/ LeaveQueue(c)
    \/ Enter(c) \/ Decline(c)
    \/ AnswerError(c) \/ WriteFails(c) \/ Abandon(c)

\* The process has ended.
Ended == exit # "no" /\ UNCHANGED vars

Next ==
    \/ Start \/ RefuseToStart \/ Notify \/ Killed \/ Signal \/ Return
    \/ Scrape
    \/ \E s \in Servers :
          \/ ListenAndServe(s) \/ ListenerFails(s)
          \/ BeginShutdown(s) \/ EndShutdown(s)
    \/ \E c \in Clients :
          \/ Connect(c) \/ HangUp(c)
          \/ LimitRate(c) \/ WalkIn(c) \/ Hesitate(c)
          \/ Answer(c) \/ Finish(c)
          \/ Proceed(c)
    \/ HandOn
    \/ Tick
    \/ Ended

Spec == Init /\ [][Next]_vars

\* The scheduler runs every goroutine that can run, and time passes when nothing
\* is due.  Clients, the backend and listeners owe nothing.
FairSpec ==
    /\ Spec
    /\ WF_vars(Return) /\ WF_vars(HandOn) /\ WF_vars(Tick)
    /\ \A s \in Servers : WF_vars(BeginShutdown(s)) /\ WF_vars(EndShutdown(s))
    /\ \A c \in Clients : WF_vars(Proceed(c))

-----------------------------------------------------------------------------
(* Properties.                                                              *)

\* Values that the variables can have.  What runs was configured with positive
\* limits and a threshold below MaxConcurrent: what the modules for the waiting
\* room, the stripper and the limiter assume is what validate leaves through.
TypeOK ==
    /\ main \in {"loading", "starting", "serving", "stopping"}
    /\ exit \in {"no", "error", "killed", "returned"}
    /\ cfg \in [Names -> Int]
    /\ \A n \in Limits \cup Durations : cfg[n] > 0
    /\ cfg["StripThreshold"] < cfg["MaxConcurrent"]
    /\ writeTimeout \in Nat
    /\ listener \in [Servers -> {"new", "binding", "open", "closed"}]
    /\ shutdown \in [Servers -> {"no", "closing", "done"}]
    /\ grace \in 0..Grace
    /\ scraping \in BOOLEAN
    /\ conn \subseteq Clients
    /\ stage \in [Clients -> Line!Stages]
    /\ line \in Seq(Clients)
    /\ vouchers \in 0..Cardinality(Clients)
    /\ age \in [Clients -> Nat] /\ since \in [Clients -> Nat]
    /\ reply \in [Clients -> {"none", "refused", "wait", "answer", "error", "cut"}]

\* However long a request has waited and its exchange has taken, in every accepted
\* configuration the answer or the wait page is begun before the server's
\* deadline for writing passes: nobody waits in line to be hung up on.
AnswerInTime == \A c \in Clients : reply[c] # "cut"

\* No request, whatever its client and the backend do, is in the process for longer
\* than WriteTimeout; the place or slot it holds is free by then.
NoneOutlivesDeadline ==
    \A c \in Clients \ Outside : age[c] <= writeTimeout

\* If main returns before the grace period is over, then no request is cut off,
\* neither on the way through the chain nor at the metrics server, and nobody is
\* connected who could send another.
DrainedBeforeReturn ==
    exit = "returned" /\ grace < Grace => \A s \in Servers : Quiet(s)

\* Once it has been signalled the process ends, whatever clients and backend do.
StopEnds == main = "stopping" ~> exit # "no"
=============================================================================
