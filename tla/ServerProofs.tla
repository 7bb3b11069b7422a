------------------------------ MODULE ServerProofs ------------------------------
(***************************************************************************)
(* Proofs about Server: any number of clients, any limits, any environment. *)
(*                                                                         *)
(* The three safety properties rest on one invariant each.  Timed bounds     *)
(* the two clocks of a client by the timeouts that are due at its stage;      *)
(* Closing says what a shutdown has closed and found quiet.  Both need that   *)
(* nothing goes on before the configuration is loaded (Loading), and the     *)
(* type of vouchers that no more are given back than clients are outside.   *)
(***************************************************************************)
EXTENDS Server, FiniteSetTheorems, TLAPS

-----------------------------------------------------------------------------
(* The invariants.                                                          *)

\* Who left is outside until its voucher is used.
Backed == vouchers <= Cardinality(Outside)

\* Nothing listens before Load is done; then WriteTimeout is what main has computed.
Loading ==
    IF main = "loading"
      THEN /\ \A s \in Servers : listener[s] = "new"
           /\ conn = {} /\ Outside = Clients
      ELSE writeTimeout = ServerTimeout(cfg)

\* Until its answer begins a request is QueueTimeout in line and BackendTimeout in
\* its exchange at most, and it ends when the server's deadline passes.
Timed(c) ==
    /\ stage[c] \in {"outside", "deciding"} => age[c] = 0 /\ since[c] = 0
    /\ stage[c] \in {"waiting", "called"} =>
          age[c] = since[c] /\ since[c] <= cfg["QueueTimeout"]
    /\ stage[c] = "served" =>
          /\ age[c] <= since[c] + cfg["QueueTimeout"]
          /\ age[c] <= writeTimeout
          /\ reply[c] = "none" => since[c] <= cfg["BackendTimeout"]
    /\ reply[c] # "cut"

OnTime == \A c \in Clients : Timed(c)

\* What is being shut down does not listen, and a shutdown that is done within the
\* grace period has left nothing behind.
Closing ==
    /\ main # "stopping" => \A s \in Servers : shutdown[s] = "no"
    /\ exit = "returned" => \A s \in Servers : shutdown[s] = "done"
    /\ \A s \in Servers :
          /\ shutdown[s] # "no" => listener[s] # "open"
          /\ shutdown[s] = "done" /\ grace < Grace => Quiet(s)

IInv == TypeOK /\ Backed /\ Loading /\ OnTime /\ Closing
-----------------------------------------------------------------------------
(* Lemmas.                                                                  *)

\* What Load lets through has positive limits and timeouts, for any environment.
LEMMA LoadedConfig ==
  ASSUME NEW env \in Environments, Load(env)
  PROVE  LET c == Loaded(env)
         IN  /\ c \in [Names -> Int]
             /\ \A n \in Limits \cup Durations : c[n] > 0
             /\ c["StripThreshold"] < c["MaxConcurrent"]
<1>1. /\ DOMAIN env.value \subseteq Names
      /\ \A n \in DOMAIN env.value : env.value[n] \in Int
      /\ Default \in [Names -> Int]
  BY ConfigAssumption
<1>2. Loaded(env) \in [Names -> Int]
  BY <1>1 DEF Loaded
<1>3. ASSUME NEW n \in Durations PROVE Loaded(env)[n] > 0
  <2>1. n \in Names
    BY DEF Names
  <2>2. CASE n \in DOMAIN env.value
    <3>1. ~(env.value[n] <= 0) /\ env.value[n] \in Int
      BY <1>1, <2>2 DEF Load, Unparsable
    <3> QED  BY <2>1, <2>2, <3>1 DEF Loaded
  <2>3. CASE n \notin DOMAIN env.value
    BY <2>1, <2>3, ConfigAssumption DEF Loaded
  <2> QED  BY <2>2, <2>3
<1> QED  BY <1>2, <1>3 DEF Load, validate

\* The timeouts of a running process, and its deadline for writing.
LEMMA Timeouts ==
  ASSUME TypeOK, Loading
  PROVE  /\ cfg["QueueTimeout"] \in Nat \ {0} /\ cfg["BackendTimeout"] \in Nat \ {0}
         /\ main # "loading" =>
               /\ writeTimeout = cfg["QueueTimeout"] + cfg["BackendTimeout"] + Margin
               /\ cfg["QueueTimeout"] + cfg["BackendTimeout"] < writeTimeout
<1>1. cfg["QueueTimeout"] \in Nat \ {0} /\ cfg["BackendTimeout"] \in Nat \ {0}
  BY DEF TypeOK, Durations, Names
<1>2. Margin \in Nat \ {0}
  BY ServerAssumption
<1> QED  BY <1>1, <1>2 DEF Loading, ServerTimeout

\* One client moves.
LEMMA Moved ==
  ASSUME stage \in [Clients -> Line!Stages],
         NEW c \in Clients, NEW from \in Line!Stages, NEW to \in Line!Stages,
         Line!Move(c, from, to)
  PROVE  /\ stage' \in [Clients -> Line!Stages]
         /\ stage[c] = from /\ stage'[c] = to
         /\ \A d \in Clients \ {c} : stage'[d] = stage[d]
         /\ Outside' = IF to = "outside" THEN Outside \cup {c} ELSE Outside \ {c}
BY DEF Line!Move, Outside

\* The clients can be counted, and counting keeps step with who comes and goes.
LEMMA Counting ==
  ASSUME stage \in [Clients -> Line!Stages]
  PROVE  /\ IsFiniteSet(Outside) /\ Cardinality(Outside) \in 0..Cardinality(Clients)
         /\ Cardinality(Clients) \in Nat
         /\ \A c \in Clients \ Outside :
               /\ Cardinality(Outside \cup {c}) = Cardinality(Outside) + 1
               /\ Cardinality(Outside) < Cardinality(Clients)
         /\ \A c \in Outside : Cardinality(Outside \ {c}) = Cardinality(Outside) - 1
<1>1. IsFiniteSet(Clients) /\ Outside \subseteq Clients
  BY ServerAssumption DEF Outside
<1>2. IsFiniteSet(Outside) /\ Cardinality(Outside) <= Cardinality(Clients)
  BY <1>1, FS_Subset
<1>3. Cardinality(Outside) \in Nat /\ Cardinality(Clients) \in Nat
  BY <1>1, <1>2, FS_CardinalityType
<1>4. ASSUME NEW c \in Clients \ Outside
      PROVE  Cardinality(Outside \cup {c}) = Cardinality(Outside) + 1
  BY <1>2, <1>4, FS_AddElement
<1>5. ASSUME NEW c \in Clients \ Outside
      PROVE  Cardinality(Outside) < Cardinality(Clients)
  <2>1. Outside # Clients
    OBVIOUS
  <2>2. Cardinality(Outside) # Cardinality(Clients)
    BY <1>1, <2>1, FS_Subset
  <2> QED  BY <1>2, <1>3, <2>2
<1>6. ASSUME NEW c \in Outside
      PROVE  Cardinality(Outside \ {c}) = Cardinality(Outside) - 1
  BY <1>2, FS_RemoveElement
<1> QED  BY <1>2, <1>3, <1>4, <1>5, <1>6

-----------------------------------------------------------------------------
(* The room, as the server sees it: what its steps do to stage and vouchers. *)

\* A client goes on, and nothing is given back for it.
Advances(c, from, to) ==
    Line!Move(c, from, to) /\ vouchers' = vouchers /\ line' \in Seq(Clients)

\* A client gives its place back when it is through.
GivesBack(c, from) ==
    Line!Move(c, from, "outside") /\ vouchers' = vouchers + 1 /\ line' = line

\* The room uses a voucher, and may call a client with it.
HandsOn ==
    /\ vouchers > 0 /\ vouchers' \in {vouchers - 1, vouchers} /\ line' \in Seq(Clients)
    /\ stage' = stage \/ \E c \in Clients : Line!Move(c, "waiting", "called")

\* The steps of the abstract line are of these three kinds.
LEMMA LineSteps ==
  ASSUME line \in Seq(Clients)
  PROVE  /\ \A c \in Clients :
               /\ Line!WalkIn(c) => Advances(c, "outside", "served")
               /\ Line!Hesitate(c) => Advances(c, "outside", "deciding")
               /\ Line!Join(c) => Advances(c, "deciding", "waiting")
               /\ Line!TurnAway(c) => Advances(c, "deciding", "outside")
               /\ Line!GiveUp(c) => Advances(c, "waiting", "outside")
               /\ Line!Enter(c) => Advances(c, "called", "served")
               /\ Line!Decline(c) => GivesBack(c, "called")
               /\ Line!Leave(c) => GivesBack(c, "served")
         /\ Line!Skip \/ Line!Lapse \/ (\E c \in Clients : Line!Call(c)) => HandsOn
<1> USE DEF Advances, GivesBack
<1>1. ASSUME NEW c \in Clients
      PROVE  /\ Line!WalkIn(c) => Advances(c, "outside", "served")
             /\ Line!Hesitate(c) => Advances(c, "outside", "deciding")
             /\ Line!TurnAway(c) => Advances(c, "deciding", "outside")
             /\ Line!GiveUp(c) => Advances(c, "waiting", "outside")
             /\ Line!Enter(c) => Advances(c, "called", "served")
             /\ Line!Decline(c) => GivesBack(c, "called")
             /\ Line!Leave(c) => GivesBack(c, "served")
  BY DEF Line!WalkIn, Line!Hesitate, Line!TurnAway, Line!GiveUp, Line!Enter,
         Line!Decline, Line!Leave
<1>2. ASSUME NEW c \in Clients, Line!Join(c) PROVE Advances(c, "deciding", "waiting")
  BY <1>2 DEF Line!Join
<1>3. ASSUME Line!Skip PROVE HandsOn
  BY <1>3 DEF Line!Skip, HandsOn
<1>4. ASSUME Line!Lapse PROVE HandsOn
  BY <1>4 DEF Line!Lapse, HandsOn
<1>5. ASSUME NEW c \in Clients, Line!Call(c) PROVE HandsOn
  BY <1>5 DEF Line!Call, HandsOn
<1> QED  BY <1>1, <1>2, <1>3, <1>4, <1>5


\* What a step of one client can do to everything but the clocks.
ClientStep(c) ==
    /\ exit = "no" /\ UNCHANGED <<processVars, grace>>
    /\ \/ conn' = conn
       \/ conn' = conn \cup {c} /\ listener["proxy"] = "open"
       \/ conn' = conn \ {c}
    /\ \/ UNCHANGED lineVars
       \/ c \in conn /\ vouchers < Cardinality(Outside)
          /\ \E to \in {"deciding", "served"} : Advances(c, "outside", to)
       \/ \E from \in Line!Stages \ {"outside"}, to \in Line!Stages : Advances(c, from, to)
       \/ \E from \in Line!Stages \ {"outside"} : GivesBack(c, from)
    /\ age' \in {age, [age EXCEPT ![c] = 0]}
    /\ since' \in {since, [since EXCEPT ![c] = 0]}
    /\ \/ reply' = reply
       \/ \E w \in {"none", "refused", "wait", "answer", "error", "cut"} :
             reply' = [reply EXCEPT ![c] = w]
    /\ listener["proxy"] = "open" \/ c \in conn \/ stage[c] # "outside"

ClientAction(c) ==
    \/ Connect(c) \/ HangUp(c)
    \/ LimitRate(c) \/ WalkIn(c) \/ Hesitate(c)
    \/ Answer(c) \/ Finish(c)
    \/ Proceed(c)

LEMMA ClientSteps ==
  ASSUME TypeOK, NEW c \in Clients, ClientAction(c)
  PROVE  ClientStep(c)
<1> DEFINE Replies == {"none", "refused", "wait", "answer", "error", "cut"}
<1>1. line \in Seq(Clients)
  BY DEF TypeOK
<1>2. KeepAlive(c) => conn' = conn \/ conn' = conn \ {c}
  BY DEF KeepAlive
<1>3. \A w \in Replies : Reply(c, w) => \E v \in Replies : reply' = [reply EXCEPT ![c] = v]
  BY DEF Reply
<1>4. ResetClocks(c) => /\ UNCHANGED <<processVars, grace>>
                        /\ age' = [age EXCEPT ![c] = 0] /\ since' = [since EXCEPT ![c] = 0]
  BY DEF ResetClocks
<1>5. /\ {"outside", "deciding", "waiting", "called", "served"} \subseteq Line!Stages
      /\ \A x \in {"deciding", "waiting", "called", "served"} : x # "outside"
  BY DEF Line!Stages
<1>6. \A from, to : Advances(c, from, to) \/ GivesBack(c, from) => stage[c] = from
  BY DEF Advances, GivesBack, Line!Move
<1> USE DEF timeVars
<1>7. CASE Connect(c)
  BY <1>7 DEF Connect, ClientStep, lineVars
<1>8. CASE HangUp(c)
  BY <1>8 DEF HangUp, ClientStep, lineVars
<1>9. CASE LimitRate(c)
  BY <1>2, <1>9 DEF LimitRate, ClientStep
<1>10. CASE WalkIn(c)
  BY <1>1, <1>10, LineSteps DEF WalkIn, Arrive, ClientStep
<1>11. CASE Hesitate(c)
  BY <1>1, <1>11, LineSteps DEF Hesitate, Arrive, ClientStep
<1>12. CASE Answer(c)
  BY <1>3, <1>12 DEF Answer, ClientStep
<1>13. CASE Finish(c)
  BY <1>1, <1>2, <1>4, <1>5, <1>6, <1>13, LineSteps DEF Finish, ClientStep
<1>14. CASE Proceed(c)
  <2>1. CASE CloseIdle(c)
    BY <2>1 DEF CloseIdle, ClientStep
  <2>2. CASE Join(c)
    BY <1>1, <1>5, <1>6, <2>2, LineSteps DEF Join, ClientStep
  <2>3. CASE TurnAway(c)
    BY <1>1, <1>2, <1>3, <1>4, <1>5, <1>6, <2>3, LineSteps DEF TurnAway, ClientStep
  <2>4. CASE QueueTimeout(c)
    BY <1>1, <1>2, <1>3, <1>4, <1>5, <1>6, <2>4, LineSteps DEF QueueTimeout, ClientStep
  <2>5. CASE LeaveQueue(c)
    BY <1>1, <1>4, <1>5, <1>6, <2>5, LineSteps DEF LeaveQueue, ClientStep
  <2>6. CASE Enter(c)
    BY <1>1, <1>5, <1>6, <2>6, LineSteps DEF Enter, ClientStep
  <2>7. CASE Decline(c)
    BY <1>1, <1>4, <1>5, <1>6, <2>7, LineSteps DEF Decline, ClientStep
  <2>8. CASE AnswerError(c)
    BY <1>1, <1>2, <1>3, <1>4, <1>5, <1>6, <2>8, LineSteps DEF AnswerError, ClientStep
  <2>9. CASE WriteFails(c)
    BY <1>1, <1>4, <1>5, <1>6, <2>9, LineSteps DEF WriteFails, ClientStep
  <2>10. CASE Abandon(c)
    BY <1>1, <1>4, <1>5, <1>6, <2>10, LineSteps DEF Abandon, ClientStep
  <2> QED  BY <1>14, <2>1, <2>2, <2>3, <2>4, <2>5, <2>6, <2>7, <2>8, <2>9, <2>10 DEF Proceed
<1> QED  BY <1>7, <1>8, <1>9, <1>10, <1>11, <1>12, <1>13, <1>14 DEF ClientAction

\* The steps of main, its servers and their metrics once Load is done or has failed.
MainAction ==
    \/ RefuseToStart \/ Notify \/ Killed \/ Signal \/ Return \/ Scrape
    \/ \E s \in Servers :
          \/ ListenAndServe(s) \/ ListenerFails(s) \/ BeginShutdown(s) \/ EndShutdown(s)

\* Nothing of it is about clients or time.
LEMMA MainSteps ==
  MainAction => exit = "no" /\ UNCHANGED <<cfg, writeTimeout, conn, lineVars, timeVars, reply>>
BY DEF MainAction, MainStep, RefuseToStart, Notify, Killed, Signal, Return, Scrape,
       ListenAndServe, ListenerFails, BeginShutdown, EndShutdown

LEMMA Actions ==
  ASSUME [Next]_vars
  PROVE  \/ Start \/ MainAction \/ (\E c \in Clients : ClientAction(c))
         \/ HandOn \/ Tick \/ UNCHANGED vars
BY DEF Next, MainAction, ClientAction, Ended

-----------------------------------------------------------------------------
(* Types, and the vouchers.                                                 *)

\* The room's variables, with as many vouchers as clients outside at most.
RoomOK ==
    /\ stage \in [Clients -> Line!Stages]
    /\ line \in Seq(Clients)
    /\ vouchers \in 0..Cardinality(Clients)
    /\ Backed

LEMMA AdvanceKeeps ==
  ASSUME RoomOK, NEW c \in Clients, NEW from \in Line!Stages, NEW to \in Line!Stages,
         Advances(c, from, to),
         from = "outside" => vouchers < Cardinality(Outside)
  PROVE  RoomOK'
<1>1. Line!Move(c, from, to) /\ vouchers' = vouchers /\ line' \in Seq(Clients)
  BY DEF Advances
<1>2. /\ stage' \in [Clients -> Line!Stages]
      /\ stage[c] = from
      /\ Outside' = IF to = "outside" THEN Outside \cup {c} ELSE Outside \ {c}
  BY <1>1, Moved DEF RoomOK
<1>3. vouchers \in Nat /\ vouchers <= Cardinality(Outside) /\ Cardinality(Outside) \in Nat
  BY Counting DEF RoomOK, Backed
<1>4. vouchers <= Cardinality(Outside')
  <2>1. CASE c \in Outside /\ to = "outside"
    BY <1>2, <1>3, <2>1
  <2>2. CASE c \in Outside /\ to # "outside"
    <3>1. vouchers < Cardinality(Outside)
      BY <1>2, <2>2 DEF Outside
    <3>2. Cardinality(Outside') = Cardinality(Outside) - 1
      BY <1>2, <2>2, Counting DEF RoomOK
    <3> QED  BY <1>3, <3>1, <3>2
  <2>3. CASE c \notin Outside /\ to = "outside"
    <3>1. Cardinality(Outside') = Cardinality(Outside) + 1
      BY <1>2, <2>3, Counting DEF RoomOK
    <3> QED  BY <1>3, <3>1
  <2>4. CASE c \notin Outside /\ to # "outside"
    <3>1. Outside' = Outside
      BY <1>2, <2>4
    <3> QED  BY <1>3, <3>1
  <2> QED  BY <2>1, <2>2, <2>3, <2>4
<1> QED  BY <1>1, <1>2, <1>4 DEF RoomOK, Backed

LEMMA GivingBackKeeps ==
  ASSUME RoomOK, NEW c \in Clients, NEW from \in Line!Stages \ {"outside"},
         GivesBack(c, from)
  PROVE  RoomOK'
<1>1. Line!Move(c, from, "outside") /\ vouchers' = vouchers + 1 /\ line' = line
  BY DEF GivesBack
<1>2. stage' \in [Clients -> Line!Stages] /\ stage[c] = from /\ Outside' = Outside \cup {c}
  BY <1>1, Moved DEF RoomOK, Line!Stages
<1>3. c \in Clients \ Outside
  BY <1>2 DEF Outside
<1>4. /\ Cardinality(Outside') = Cardinality(Outside) + 1
      /\ Cardinality(Outside) < Cardinality(Clients)
      /\ Cardinality(Outside) \in Nat /\ Cardinality(Clients) \in Nat
  BY <1>2, <1>3, Counting DEF RoomOK
<1>5. vouchers \in Nat /\ vouchers <= Cardinality(Outside)
  BY DEF RoomOK, Backed
<1>6. vouchers + 1 \in 0..Cardinality(Clients) /\ vouchers + 1 <= Cardinality(Outside')
  BY <1>4, <1>5
<1> QED  BY <1>1, <1>2, <1>6 DEF RoomOK, Backed

LEMMA HandingOnKeeps ==
  ASSUME RoomOK, HandsOn
  PROVE  RoomOK' /\ Outside' = Outside
<1>1. stage' \in [Clients -> Line!Stages] /\ Outside' = Outside
  <2>1. CASE stage' = stage
    BY <2>1 DEF RoomOK, Outside
  <2>2. ASSUME NEW c \in Clients, Line!Move(c, "waiting", "called")
        PROVE  stage' \in [Clients -> Line!Stages] /\ Outside' = Outside
    <3>1. /\ stage' \in [Clients -> Line!Stages]
          /\ stage[c] = "waiting" /\ Outside' = Outside \ {c}
      BY <2>2, Moved DEF RoomOK, Line!Stages
    <3> QED  BY <3>1 DEF Outside
  <2> QED  BY <2>1, <2>2 DEF HandsOn
<1>2. Cardinality(Clients) \in Nat /\ Cardinality(Outside) \in Nat
  BY Counting DEF RoomOK
<1>3. vouchers' \in 0..Cardinality(Clients) /\ vouchers' <= Cardinality(Outside)
  <2>1. vouchers \in Nat /\ vouchers <= Cardinality(Outside) /\ vouchers > 0
        /\ vouchers <= Cardinality(Clients)
    BY DEF RoomOK, Backed, HandsOn
  <2>2. vouchers' = vouchers - 1 \/ vouchers' = vouchers
    BY DEF HandsOn
  <2> QED  BY <1>2, <2>1, <2>2
<1> QED  BY <1>1, <1>3 DEF RoomOK, Backed, HandsOn

\* A client's step keeps the room in order.
LEMMA ClientKeepsRoom ==
  ASSUME RoomOK, NEW c \in Clients, ClientStep(c)
  PROVE  RoomOK'
<1>1. CASE UNCHANGED lineVars
  BY <1>1 DEF lineVars, RoomOK, Backed, Outside
<1>2. CASE vouchers < Cardinality(Outside)
           /\ \E to \in {"deciding", "served"} : Advances(c, "outside", to)
  BY <1>2, AdvanceKeeps DEF Line!Stages
<1>3. CASE \E from \in Line!Stages \ {"outside"}, to \in Line!Stages : Advances(c, from, to)
  BY <1>3, AdvanceKeeps
<1>4. CASE \E from \in Line!Stages \ {"outside"} : GivesBack(c, from)
  BY <1>4, GivingBackKeeps
<1> QED  BY <1>1, <1>2, <1>3, <1>4 DEF ClientStep

LEMMA TypeInit == Init => TypeOK /\ Backed
<1> SUFFICES ASSUME Init PROVE TypeOK /\ Backed
  OBVIOUS
<1>1. stage \in [Clients -> Line!Stages] /\ line \in Seq(Clients) /\ vouchers = 0
  BY DEF Init, Line!Init, Line!Stages
<1>2. vouchers \in 0..Cardinality(Clients) /\ Backed
  BY <1>1, Counting DEF Backed
<1>3. /\ cfg \in [Names -> Int] /\ \A n \in Limits \cup Durations : cfg[n] > 0
      /\ cfg["StripThreshold"] < cfg["MaxConcurrent"]
  BY ConfigAssumption DEF Init, validate
<1>4. grace \in 0..Grace
  BY ServerAssumption DEF Init
<1> QED  BY <1>1, <1>2, <1>3, <1>4 DEF Init, TypeOK, Servers

LEMMA TypeStep == TypeOK /\ Backed /\ [Next]_vars => TypeOK' /\ Backed'
<1> SUFFICES ASSUME TypeOK, Backed, [Next]_vars PROVE TypeOK' /\ Backed'
  OBVIOUS
<1>1. RoomOK
  BY DEF TypeOK, RoomOK
<1>2. UNCHANGED lineVars => RoomOK'
  BY <1>1 DEF lineVars, RoomOK, Backed, Outside
<1>u. CASE UNCHANGED vars
  BY <1>2, <1>u DEF vars, lineVars, TypeOK, RoomOK
<1>3. CASE Start
  <2>1. /\ main' = "starting"
        /\ UNCHANGED <<exit, listener, shutdown, scraping, conn, lineVars, timeVars, reply>>
    BY <1>3 DEF Start, MainStep
  <2>2. PICK env \in Environments :
           Load(env) /\ cfg' = Loaded(env) /\ writeTimeout' = ServerTimeout(cfg')
    BY <1>3 DEF Start
  <2>3. /\ cfg' \in [Names -> Int] /\ \A n \in Limits \cup Durations : cfg'[n] > 0
        /\ cfg'["StripThreshold"] < cfg'["MaxConcurrent"]
    BY <2>2, LoadedConfig
  <2>4. writeTimeout' \in Nat
    <3>1. cfg'["QueueTimeout"] \in Nat /\ cfg'["BackendTimeout"] \in Nat /\ Margin \in Nat
      BY <2>3, ServerAssumption DEF Durations, Names
    <3> QED  BY <2>2, <3>1 DEF ServerTimeout
  <2> QED  BY <1>2, <2>1, <2>3, <2>4 DEF TypeOK, RoomOK, lineVars, timeVars
<1>4. CASE MainAction
  <2>1. UNCHANGED <<cfg, writeTimeout, conn, lineVars, timeVars, reply>>
    BY <1>4, MainSteps
  <2>2. /\ main' \in {"loading", "starting", "serving", "stopping"}
        /\ exit' \in {"no", "error", "killed", "returned"}
        /\ scraping' \in BOOLEAN
    BY <1>4 DEF MainAction, RefuseToStart, Notify, Killed, Signal, Return, Scrape,
                ListenAndServe, ListenerFails, BeginShutdown, EndShutdown, TypeOK
  <2>3. /\ listener' \in [Servers -> {"new", "binding", "open", "closed"}]
        /\ shutdown' \in [Servers -> {"no", "closing", "done"}]
    BY <1>4 DEF MainAction, RefuseToStart, Notify, Killed, Signal, Return, Scrape,
                ListenAndServe, ListenerFails, BeginShutdown, EndShutdown, TypeOK
  <2> QED  BY <1>2, <2>1, <2>2, <2>3 DEF TypeOK, RoomOK, lineVars, timeVars
<1>5. ASSUME NEW c \in Clients, ClientAction(c) PROVE TypeOK' /\ Backed'
  <2>1. ClientStep(c)
    BY <1>5, ClientSteps
  <2>2. RoomOK'
    BY <1>1, <2>1, ClientKeepsRoom
  <2>3. UNCHANGED <<processVars, grace>> /\ conn' \subseteq Clients
    BY <2>1 DEF ClientStep, TypeOK
  <2>4. age' \in [Clients -> Nat] /\ since' \in [Clients -> Nat]
    <3>1. age \in [Clients -> Nat] /\ since \in [Clients -> Nat]
      BY DEF TypeOK
    <3>2. /\ age' = age \/ age' = [age EXCEPT ![c] = 0]
          /\ since' = since \/ since' = [since EXCEPT ![c] = 0]
      BY <2>1 DEF ClientStep
    <3> QED  BY <3>1, <3>2
  <2>5. reply' \in [Clients -> {"none", "refused", "wait", "answer", "error", "cut"}]
    <3>1. \/ reply' = reply
          \/ \E w \in {"none", "refused", "wait", "answer", "error", "cut"} :
                reply' = [reply EXCEPT ![c] = w]
      BY <2>1 DEF ClientStep
    <3> QED  BY <3>1 DEF TypeOK
  <2> QED  BY <2>2, <2>3, <2>4, <2>5 DEF TypeOK, RoomOK, processVars
<1>6. CASE HandOn
  <2>1. RoomOK' /\ UNCHANGED <<processVars, conn, timeVars, reply>>
    BY <1>1, <1>6, LineSteps, HandingOnKeeps DEF HandOn, RoomOK
  <2> QED  BY <2>1 DEF TypeOK, RoomOK, processVars, timeVars
<1>7. CASE Tick
  <2>1. UNCHANGED <<processVars, conn, lineVars, reply>>
    BY <1>7 DEF Tick
  <2>2. age' = Older(age) /\ since' = Older(since)
    BY <1>7 DEF Tick
  <2>3. age' \in [Clients -> Nat] /\ since' \in [Clients -> Nat]
    BY <2>2 DEF Older, TypeOK
  <2>4. grace' \in 0..Grace
    BY <1>7, ServerAssumption DEF Tick, TypeOK
  <2> QED  BY <1>2, <2>1, <2>3, <2>4 DEF TypeOK, RoomOK, processVars, lineVars
<1> QED  BY <1>u, <1>3, <1>4, <1>5, <1>6, <1>7, Actions

-----------------------------------------------------------------------------
(* Before and after Load.                                                   *)

LEMMA LoadingInit == Init => Loading
BY DEF Init, Loading, Line!Init, Outside

\* Clients find nothing to connect to before Load is done.
LEMMA Running ==
  ASSUME Loading, NEW c \in Clients, ClientStep(c)
  PROVE  main # "loading"
<1> SUFFICES ASSUME main = "loading" PROVE FALSE
  OBVIOUS
<1>1. listener["proxy"] = "new" /\ conn = {} /\ stage[c] = "outside"
  BY DEF Loading, Outside, Servers
<1> QED  BY <1>1 DEF ClientStep

LEMMA LoadingStep == TypeOK /\ Backed /\ Loading /\ [Next]_vars => Loading'
<1> SUFFICES ASSUME TypeOK, Backed, Loading, [Next]_vars PROVE Loading'
  OBVIOUS
<1>u. CASE UNCHANGED vars
  BY <1>u DEF vars, Loading, Outside, ServerTimeout
<1>1. CASE Start
  BY <1>1 DEF Start, Loading, ServerTimeout
<1>2. CASE MainAction
  <2>1. UNCHANGED <<cfg, writeTimeout, conn, stage>>
    BY <1>2, MainSteps DEF lineVars
  <2>2. CASE main = "loading"
    <3>1. main' = "loading" /\ listener' = listener
      BY <1>2, <2>2 DEF MainAction, Loading, RefuseToStart, Notify, Killed, Signal, Return,
                        Scrape, ListenAndServe, ListenerFails, BeginShutdown, EndShutdown
    <3> QED  BY <2>1, <2>2, <3>1 DEF Loading, Outside
  <2>3. CASE main # "loading"
    <3>1. main' # "loading"
      BY <1>2, <2>3 DEF MainAction, RefuseToStart, Notify, Killed, Signal, Return, Scrape,
                        ListenAndServe, ListenerFails, BeginShutdown, EndShutdown
    <3> QED  BY <2>1, <2>3, <3>1 DEF Loading, ServerTimeout
  <2> QED  BY <2>2, <2>3
<1>3. ASSUME NEW c \in Clients, ClientAction(c) PROVE Loading'
  <2>1. ClientStep(c)
    BY <1>3, ClientSteps
  <2>2. main # "loading" /\ UNCHANGED processVars
    BY <2>1, Running DEF ClientStep
  <2> QED  BY <2>2 DEF processVars, Loading, ServerTimeout
<1>4. CASE HandOn
  <2>1. RoomOK /\ line \in Seq(Clients)
    BY DEF TypeOK, RoomOK
  <2>2. UNCHANGED <<processVars, conn>> /\ Outside' = Outside
    BY <1>4, <2>1, LineSteps, HandingOnKeeps DEF HandOn
  <2> QED  BY <2>2 DEF processVars, Loading, ServerTimeout
<1>5. CASE Tick
  BY <1>5 DEF Tick, processVars, Loading, ServerTimeout
<1> QED  BY <1>u, <1>1, <1>2, <1>3, <1>4, <1>5, Actions

-----------------------------------------------------------------------------
(* Shutting down.                                                           *)

LEMMA ClosingInit == Init => Closing
BY DEF Init, Closing, Servers

\* A server that is quiet and does not listen stays quiet.
LEMMA ClientsStayAway ==
  ASSUME TypeOK, NEW c \in Clients, ClientStep(c), listener["proxy"] # "open", Quiet("proxy")
  PROVE  FALSE
<1>1. conn = {} /\ stage[c] = "outside"
  BY DEF Quiet, Outside
<1> QED  BY <1>1 DEF ClientStep

LEMMA ClosingStep == TypeOK /\ Backed /\ Closing /\ [Next]_vars => Closing'
<1> SUFFICES ASSUME TypeOK, Backed, Closing, [Next]_vars PROVE Closing'
  OBVIOUS
<1> USE DEF Closing
<1>q. \A s \in Servers : UNCHANGED <<conn, stage, scraping>> => (Quiet(s)' <=> Quiet(s))
  BY DEF Quiet, Outside
<1>u. CASE UNCHANGED vars
  BY <1>q, <1>u DEF vars
<1>1. CASE Start
  <2>1. /\ main = "loading" /\ main' = "starting" /\ exit = "no"
        /\ UNCHANGED <<exit, listener, shutdown>>
    BY <1>1 DEF Start
  <2> QED  BY <2>1
<1>2. CASE MainAction
  <2>1. exit = "no" /\ UNCHANGED <<conn, stage, grace>>
    BY <1>2, MainSteps DEF lineVars, timeVars
  <2>2. CASE Scrape
    <3>1. scraping \/ listener["metrics"] = "open"
      BY <2>2 DEF Scrape
    <3>2. UNCHANGED <<main, exit, listener, shutdown>>
      BY <2>2 DEF Scrape
    <3>3. ASSUME NEW s \in Servers, shutdown[s] = "done", grace < Grace PROVE Quiet(s)'
      <4>1. listener[s] # "open" /\ Quiet(s)
        BY <3>3
      <4>2. s # "metrics"
        BY <3>1, <4>1 DEF Quiet
      <4> QED  BY <2>1, <4>1, <4>2 DEF Quiet, Outside
    <3> QED  BY <2>1, <3>2, <3>3
  <2>3. CASE RefuseToStart \/ Notify \/ Killed \/ Signal \/ Return
    <3>1. UNCHANGED <<listener, shutdown, scraping>>
      BY <2>3 DEF RefuseToStart, Notify, Killed, Signal, Return
    <3>2. /\ main' = "stopping" \/ (main # "stopping" /\ main' # "stopping") \/ main' = main
          /\ exit' = "returned" => \A s \in Servers : shutdown[s] = "done"
      BY <2>1, <2>3 DEF RefuseToStart, Notify, Killed, Signal, Return
    <3> QED  BY <1>q, <2>1, <3>1, <3>2
  <2>4. ASSUME NEW s \in Servers, ListenAndServe(s) \/ ListenerFails(s) PROVE Closing'
    <3>1. UNCHANGED <<main, shutdown, scraping>> /\ exit' # "returned"
      BY <2>1, <2>4 DEF ListenAndServe, ListenerFails
    <3>2. \A t \in Servers : shutdown[t] # "no" => listener'[t] # "open"
      BY <2>4 DEF ListenAndServe, ListenerFails, TypeOK
    <3> QED  BY <1>q, <2>1, <3>1, <3>2
  <2>5. ASSUME NEW s \in Servers, BeginShutdown(s) PROVE Closing'
    <3>1. /\ main = "stopping" /\ UNCHANGED <<main, exit, scraping>>
          /\ shutdown[s] = "no" /\ shutdown' = [shutdown EXCEPT ![s] = "closing"]
          /\ listener' = [listener EXCEPT ![s] = IF @ = "open" THEN "closed" ELSE @]
      BY <2>5 DEF BeginShutdown
    <3>2. \A t \in Servers : shutdown'[t] # "no" => listener'[t] # "open"
      BY <3>1 DEF TypeOK
    <3>3. \A t \in Servers : shutdown'[t] = "done" => shutdown[t] = "done"
      BY <3>1 DEF TypeOK
    <3> QED  BY <1>q, <2>1, <3>1, <3>2, <3>3
  <2>6. ASSUME NEW s \in Servers, EndShutdown(s) PROVE Closing'
    <3>1. /\ UNCHANGED <<main, exit, listener, scraping>>
          /\ shutdown[s] = "closing" /\ shutdown' = [shutdown EXCEPT ![s] = "done"]
          /\ Quiet(s) \/ grace = Grace
      BY <2>6 DEF EndShutdown, GraceOver
    <3>2. main = "stopping"
      BY <3>1
    <3>3. \A t \in Servers \ {s} : shutdown'[t] = shutdown[t]
      BY <3>1 DEF TypeOK
    <3>4. grace < Grace => Quiet(s)
      BY <3>1, ServerAssumption
    <3> QED  BY <1>q, <2>1, <3>1, <3>2, <3>3, <3>4
  <2> QED  BY <1>2, <2>2, <2>3, <2>4, <2>5, <2>6 DEF MainAction
<1>3. ASSUME NEW c \in Clients, ClientAction(c) PROVE Closing'
  <2>1. ClientStep(c)
    BY <1>3, ClientSteps
  <2>2. exit = "no" /\ UNCHANGED <<processVars, grace>>
    BY <2>1 DEF ClientStep
  <2>3. ~(shutdown["proxy"] = "done" /\ grace < Grace)
    BY <2>1, ClientsStayAway DEF Servers
  <2>4. UNCHANGED scraping => (Quiet("metrics")' <=> Quiet("metrics"))
    BY DEF Quiet
  <2> QED  BY <2>2, <2>3, <2>4 DEF processVars, Servers
<1>4. CASE HandOn
  <2>1. RoomOK /\ line \in Seq(Clients)
    BY DEF TypeOK, RoomOK
  <2>2. UNCHANGED <<processVars, conn, timeVars>> /\ Outside' = Outside
    BY <1>4, <2>1, LineSteps, HandingOnKeeps DEF HandOn
  <2>3. \A s \in Servers : Quiet(s)' <=> Quiet(s)
    BY <2>2 DEF processVars, Quiet
  <2> QED  BY <2>2, <2>3 DEF processVars, timeVars
<1>5. CASE Tick
  <2>1. exit = "no" /\ UNCHANGED <<processVars, conn, lineVars>>
    BY <1>5 DEF Tick
  <2>2. grace' < Grace => grace < Grace
    BY <1>5, ServerAssumption DEF Tick, TypeOK
  <2> QED  BY <1>q, <2>1, <2>2 DEF processVars, lineVars
<1> QED  BY <1>u, <1>1, <1>2, <1>3, <1>4, <1>5, Actions

-----------------------------------------------------------------------------
(* The clocks of the clients.                                               *)

LEMMA OnTimeInit == Init => OnTime
BY DEF Init, Line!Init, OnTime, Timed

\* Only the client that takes a step can become late by it.
LEMMA OthersOnTime ==
  ASSUME TypeOK, OnTime, NEW c \in Clients, ClientStep(c),
         Timed(c)'
  PROVE  OnTime'
<1>1. UNCHANGED <<cfg, writeTimeout>>
  BY DEF ClientStep, processVars
<1> SUFFICES ASSUME NEW d \in Clients \ {c} PROVE Timed(d)'
  BY DEF OnTime
<1>2. stage'[d] = stage[d]
  <2>1. CASE UNCHANGED lineVars
    BY <2>1 DEF lineVars
  <2>2. CASE \E from, to : Line!Move(c, from, to)
    BY <2>2 DEF Line!Move, TypeOK
  <2> QED  BY <2>1, <2>2 DEF ClientStep, Advances, GivesBack
<1>3. age'[d] = age[d] /\ since'[d] = since[d] /\ reply'[d] = reply[d]
  <2>1. /\ age' \in {age, [age EXCEPT ![c] = 0]} /\ since' \in {since, [since EXCEPT ![c] = 0]}
        /\ \/ reply' = reply
           \/ \E w \in {"none", "refused", "wait", "answer", "error", "cut"} :
                 reply' = [reply EXCEPT ![c] = w]
    BY DEF ClientStep
  <2> QED  BY <2>1 DEF TypeOK
<1> QED  BY <1>1, <1>2, <1>3 DEF OnTime, Timed

\* An answer that is begun before the deadline is not cut off.
LEMMA ReplyInTime ==
  ASSUME TypeOK, NEW c \in Clients, NEW w \in {"wait", "answer", "error"},
         Reply(c, w), age[c] < writeTimeout
  PROVE  reply'[c] = w /\ reply'[c] \notin {"none", "cut"}
BY DEF Reply, TypeOK

\* A client that has left has clocks at zero.
LEMMA LeaverOnTime ==
  ASSUME TypeOK, NEW c \in Clients, ResetClocks(c), stage'[c] = "outside",
         reply'[c] # "cut"
  PROVE  Timed(c)'
BY DEF ResetClocks, TypeOK, Timed

LEMMA ClientOnTime ==
  ASSUME TypeOK, Loading, OnTime, NEW c \in Clients, ClientAction(c)
  PROVE  Timed(c)'
<1>1. ClientStep(c)
  BY ClientSteps
<1>2. /\ cfg["QueueTimeout"] \in Nat /\ cfg["BackendTimeout"] \in Nat /\ writeTimeout \in Nat
      /\ cfg["QueueTimeout"] + cfg["BackendTimeout"] < writeTimeout
      /\ age[c] \in Nat /\ since[c] \in Nat
  BY <1>1, Running, Timeouts DEF TypeOK
<1>3. cfg' = cfg /\ writeTimeout' = writeTimeout
  BY <1>1 DEF ClientStep, processVars
<1>4. Timed(c) /\ reply[c] # "cut"
  BY DEF OnTime, Timed
<1>5. \A from, to : Line!Move(c, from, to) => stage[c] = from /\ stage'[c] = to
  BY DEF Line!Move, TypeOK
<1>6. line \in Seq(Clients)
  BY DEF TypeOK
<1>7. age[c] < writeTimeout \/ (stage[c] = "served" /\ reply[c] # "none")
  <2>1. stage[c] \in {"outside", "deciding", "waiting", "called", "served"}
    BY DEF TypeOK, Line!Stages
  <2> QED  BY <1>2, <1>4, <2>1 DEF Timed
<1> USE DEF lineVars, timeVars, Advances, GivesBack
<1>8. CASE UNCHANGED <<stage, age, since>> /\ reply'[c] \notin {"none", "cut"}
  BY <1>3, <1>4, <1>8 DEF Timed
<1>9. CASE Connect(c)
  <2>1. UNCHANGED <<stage, age, since>> /\ stage[c] = "outside" /\ reply'[c] = "none"
    BY <1>9 DEF Connect, Outside, TypeOK
  <2> QED  BY <1>3, <1>4, <2>1 DEF Timed
<1>10. CASE HangUp(c) \/ CloseIdle(c)
  <2>1. UNCHANGED <<stage, age, since, reply>>
    BY <1>10 DEF HangUp, CloseIdle
  <2> QED  BY <1>3, <1>4, <2>1 DEF Timed
<1>11. CASE LimitRate(c)
  BY <1>8, <1>11 DEF LimitRate, TypeOK
<1>12. CASE WalkIn(c) \/ Hesitate(c)
  <2>1. /\ stage[c] = "outside" /\ stage'[c] \in {"deciding", "served"}
        /\ UNCHANGED <<age, since>> /\ reply'[c] = "none"
    BY <1>5, <1>6, <1>12, LineSteps DEF WalkIn, Hesitate, Arrive, TypeOK
  <2>2. age[c] = 0 /\ since[c] = 0
    BY <1>4, <2>1 DEF Timed
  <2> QED  BY <1>2, <1>3, <2>1, <2>2 DEF Timed
<1>13. CASE Answer(c)
  <2>1. /\ UNCHANGED <<stage, age, since>> /\ reply[c] = "none" /\ Reply(c, "answer")
    BY <1>13 DEF Answer
  <2>2. reply'[c] \notin {"none", "cut"}
    BY <1>7, <2>1, ReplyInTime
  <2> QED  BY <1>8, <2>1, <2>2
<1>14. CASE Join(c)
  <2>1. stage[c] = "deciding" /\ stage'[c] = "waiting" /\ UNCHANGED <<age, since, reply>>
    BY <1>5, <1>6, <1>14, LineSteps DEF Join
  <2> QED  BY <1>2, <1>3, <1>4, <2>1 DEF Timed
<1>15. CASE Enter(c)
  <2>1. /\ stage[c] = "called" /\ stage'[c] = "served" /\ UNCHANGED <<age, reply>>
        /\ since'[c] = 0
    BY <1>5, <1>6, <1>15, LineSteps DEF Enter, TypeOK
  <2>2. age[c] <= cfg["QueueTimeout"]
    BY <1>4, <2>1 DEF Timed
  <2>3. age[c] <= 0 + cfg["QueueTimeout"] /\ age[c] <= writeTimeout
        /\ 0 <= cfg["BackendTimeout"]
    BY <1>2, <2>2
  <2> QED  BY <1>3, <1>4, <2>1, <2>3 DEF Timed
<1>16. CASE Finish(c) \/ LeaveQueue(c) \/ Decline(c) \/ WriteFails(c) \/ Abandon(c)
  <2>1. ResetClocks(c) /\ stage'[c] = "outside" /\ reply' = reply
    BY <1>5, <1>6, <1>16, LineSteps
       DEF Finish, LeaveQueue, Decline, WriteFails, Abandon
  <2> QED  BY <1>4, <2>1, LeaverOnTime
<1>17. CASE TurnAway(c) \/ QueueTimeout(c)
  <2>1. /\ ResetClocks(c) /\ stage'[c] = "outside" /\ Reply(c, "wait")
        /\ stage[c] \in {"deciding", "waiting"}
    BY <1>5, <1>6, <1>17, LineSteps DEF TurnAway, QueueTimeout
  <2>2. age[c] < writeTimeout
    BY <1>7, <2>1
  <2> QED  BY <2>1, <2>2, ReplyInTime, LeaverOnTime
<1>18. CASE AnswerError(c)
  <2>1. /\ ResetClocks(c) /\ stage'[c] = "outside" /\ Reply(c, "error")
        /\ reply[c] = "none"
    BY <1>5, <1>6, <1>18, LineSteps DEF AnswerError, BackendTimeout
  <2>2. age[c] < writeTimeout
    BY <1>7, <2>1
  <2> QED  BY <2>1, <2>2, ReplyInTime, LeaverOnTime
<1> QED  BY <1>9, <1>10, <1>11, <1>12, <1>13, <1>14, <1>15, <1>16, <1>17, <1>18
         DEF ClientAction, Proceed

\* Time passes only while nothing is due: nobody is at the end of a timeout.
LEMMA TickOnTime ==
  ASSUME TypeOK, Loading, OnTime, Tick, NEW c \in Clients
  PROVE  Timed(c)'
<1>1. /\ main # "loading" /\ ~Due /\ UNCHANGED <<cfg, writeTimeout, stage, reply>>
      /\ age' = Older(age) /\ since' = Older(since)
  BY DEF Tick, processVars, lineVars
<1>2. /\ cfg["QueueTimeout"] \in Nat /\ cfg["BackendTimeout"] \in Nat /\ writeTimeout \in Nat
      /\ cfg["QueueTimeout"] + cfg["BackendTimeout"] < writeTimeout
      /\ age[c] \in Nat /\ since[c] \in Nat
  BY <1>1, Timeouts DEF TypeOK
<1>3. Timed(c)
  BY DEF OnTime
<1>4. /\ stage[c] \notin {"deciding", "called"}
      /\ stage[c] = "waiting" => since[c] # cfg["QueueTimeout"]
      /\ stage[c] = "served" /\ reply[c] = "none" => since[c] # cfg["BackendTimeout"]
      /\ stage[c] = "served" /\ reply[c] # "none" => ~(age[c] >= writeTimeout)
  BY <1>1 DEF Due, BackendTimeout, Overdue
<1>5. CASE stage[c] = "outside"
  <2>1. age'[c] = age[c] /\ since'[c] = since[c]
    BY <1>1, <1>5 DEF Older, Outside
  <2> QED  BY <1>1, <1>3, <1>5, <2>1 DEF Timed
<1>6. CASE stage[c] # "outside"
  <2>1. age'[c] = age[c] + 1 /\ since'[c] = since[c] + 1
    BY <1>1, <1>6 DEF Older, Outside
  <2>2. CASE stage[c] = "waiting"
    <3>1. age[c] + 1 = since[c] + 1 /\ since[c] + 1 <= cfg["QueueTimeout"]
      BY <1>2, <1>3, <1>4, <2>2 DEF Timed
    <3> QED  BY <1>1, <1>3, <2>1, <2>2, <3>1 DEF Timed
  <2>3. CASE stage[c] = "served"
    <3>1. age[c] + 1 <= (since[c] + 1) + cfg["QueueTimeout"]
      BY <1>2, <1>3, <2>3 DEF Timed
    <3>2. reply[c] = "none" => since[c] + 1 <= cfg["BackendTimeout"]
      BY <1>2, <1>3, <1>4, <2>3 DEF Timed
    <3>3. age[c] + 1 <= writeTimeout
      <4>1. CASE reply[c] = "none"
        BY <1>2, <3>1, <3>2, <4>1
      <4>2. CASE reply[c] # "none"
        BY <1>2, <1>4, <2>3, <4>2
      <4> QED  BY <4>1, <4>2
    <3> QED  BY <1>1, <1>3, <2>1, <2>3, <3>1, <3>2, <3>3 DEF Timed
  <2>4. stage[c] \in {"waiting", "served"}
    BY <1>4, <1>6 DEF TypeOK, Line!Stages
  <2> QED  BY <2>2, <2>3, <2>4
<1> QED  BY <1>5, <1>6

LEMMA OnTimeStep == TypeOK /\ Backed /\ Loading /\ OnTime /\ [Next]_vars => OnTime'
<1> SUFFICES ASSUME TypeOK, Backed, Loading, OnTime, [Next]_vars PROVE OnTime'
  OBVIOUS
<1>f. UNCHANGED <<cfg, writeTimeout, stage, age, since, reply>> => OnTime'
  BY DEF OnTime, Timed
<1>u. CASE UNCHANGED vars
  BY <1>f, <1>u DEF vars
<1>1. CASE Start
  <2>1. UNCHANGED <<stage, age, since, reply>> /\ Outside = Clients
    BY <1>1 DEF Start, MainStep, lineVars, timeVars, Loading
  <2>2. \A c \in Clients : stage[c] = "outside"
    BY <2>1 DEF Outside
  <2> QED  BY <2>1, <2>2 DEF OnTime, Timed
<1>2. CASE MainAction
  BY <1>2, <1>f, MainSteps DEF lineVars, timeVars
<1>3. ASSUME NEW c \in Clients, ClientAction(c) PROVE OnTime'
  BY <1>3, ClientSteps, ClientOnTime, OthersOnTime
<1>4. CASE HandOn
  <2>1. UNCHANGED <<cfg, writeTimeout, age, since, reply>>
    BY <1>4 DEF HandOn, processVars, timeVars
  <2>2. HandsOn
    BY <1>4, LineSteps DEF HandOn, TypeOK
  <2>3. CASE stage' = stage
    BY <1>f, <2>1, <2>3
  <2>4. ASSUME NEW c \in Clients, Line!Move(c, "waiting", "called") PROVE OnTime'
    <3>1. \A d \in Clients : \/ stage'[d] = stage[d]
                             \/ stage[d] = "waiting" /\ stage'[d] = "called"
      BY <2>4 DEF Line!Move, TypeOK
    <3> QED  BY <2>1, <3>1 DEF OnTime, Timed
  <2> QED  BY <2>2, <2>3, <2>4 DEF HandsOn
<1>5. CASE Tick
  BY <1>5, TickOnTime DEF OnTime
<1> QED  BY <1>u, <1>1, <1>2, <1>3, <1>4, <1>5, Actions

-----------------------------------------------------------------------------
(* The theorems.                                                            *)

LEMMA ServerInvariant == Spec => []IInv
<1>1. Init => IInv
  BY TypeInit, LoadingInit, OnTimeInit, ClosingInit DEF IInv
<1>2. IInv /\ [Next]_vars => IInv'
  BY TypeStep, LoadingStep, OnTimeStep, ClosingStep DEF IInv
<1> QED  BY <1>1, <1>2, PTL DEF Spec

\* The process only ever runs in a configuration that validate has accepted, and its
\* state has its type; the room never owes more calls than clients have left it.
THEOREM ServerTypeCorrect == Spec => []TypeOK
<1>1. IInv => TypeOK
  BY DEF IInv
<1> QED  BY <1>1, ServerInvariant, PTL

\* In every configuration that is accepted, every answer and every wait page is
\* begun before the deadline for writing it.
THEOREM AnswersInTime == Spec => []AnswerInTime
<1>1. IInv => AnswerInTime
  BY DEF IInv, OnTime, Timed, AnswerInTime
<1> QED  BY <1>1, ServerInvariant, PTL

\* No request is in the process for longer than WriteTimeout.
THEOREM DeadlineEndsRequests == Spec => []NoneOutlivesDeadline
<1>1. ASSUME IInv, NEW c \in Clients \ Outside PROVE age[c] <= writeTimeout
  <2>1. stage[c] \in {"deciding", "waiting", "called", "served"}
    BY <1>1 DEF IInv, TypeOK, Outside, Line!Stages
  <2>2. main # "loading"
    BY <1>1 DEF IInv, Loading
  <2>3. /\ cfg["QueueTimeout"] \in Nat /\ cfg["BackendTimeout"] \in Nat
        /\ writeTimeout \in Nat /\ age[c] \in Nat
        /\ cfg["QueueTimeout"] + cfg["BackendTimeout"] < writeTimeout
    BY <1>1, <2>2, Timeouts DEF IInv, TypeOK
  <2>4. Timed(c)
    BY <1>1 DEF IInv, OnTime
  <2> QED  BY <2>1, <2>3, <2>4 DEF Timed
<1>2. IInv => NoneOutlivesDeadline
  BY <1>1 DEF NoneOutlivesDeadline
<1> QED  BY <1>2, ServerInvariant, PTL

\* When main returns early, nothing is left to cut off.
THEOREM ReturnsDrained == Spec => []DrainedBeforeReturn
<1>1. IInv => DrainedBeforeReturn
  BY DEF IInv, Closing, DrainedBeforeReturn
<1> QED  BY <1>1, ServerInvariant, PTL

=============================================================================
