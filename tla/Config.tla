-------------------------------- MODULE Config --------------------------------
(***************************************************************************)
(* What Load and validate (config/config.go) make of the environment.       *)
(*                                                                         *)
(* An environment is [value, malformed]: value maps the names of the         *)
(* variables that are set and not empty to what they hold, and malformed is  *)
(* the set of those whose text does not parse.  Durations are in the units   *)
(* of the model's clock.  The addresses, ReadTimeout, IdleTimeout and        *)
(* InsecureSkipVerify are read in the same way and restrict nothing; they    *)
(* are left out.  So is NaN, which ParseFloat accepts for RateLimit and no   *)
(* comparison refuses.                                                       *)
(***************************************************************************)
EXTENDS Integers

CONSTANTS
    Default,        \* the default of each variable
    Environments    \* the environments the program may be started in

Durations == {"WriteTimeout", "QueueTimeout", "BackendTimeout"}

Limits == {"RateLimit", "BurstSize", "MaxConcurrent", "QueueSize"}

Names == Durations \cup Limits \cup {"StripThreshold"}

\* envDuration, envFloat64, envInt64, envInt: the default only if nothing is set.
Loaded(env) ==
    [n \in Names |-> IF n \in DOMAIN env.value THEN env.value[n] ELSE Default[n]]

\* What the helpers refuse: text that does not parse, and a duration that is set
\* and not positive.
Unparsable(env) ==
    \/ env.malformed # {}
    \/ \E n \in Durations \cap DOMAIN env.value : env.value[n] <= 0

\* Faulty variant: the limits are compared with 0 the wrong way.
validateLoose(cfg) ==
    /\ \A n \in Limits : cfg[n] >= 0
    /\ cfg["StripThreshold"] < cfg["MaxConcurrent"]
    /\ cfg["WriteTimeout"] > cfg["QueueTimeout"]

validate(cfg) ==
    /\ \A n \in Limits : cfg[n] > 0
    /\ cfg["StripThreshold"] < cfg["MaxConcurrent"]
    /\ cfg["WriteTimeout"] > cfg["QueueTimeout"]

Load(env) == ~Unparsable(env) /\ validate(Loaded(env))

ASSUME ConfigAssumption ==
    /\ Default \in [Names -> Int]
    /\ validate(Default) /\ \A n \in Durations : Default[n] > 0
    /\ \A env \in Environments :
          /\ DOMAIN env.value \subseteq Names
          /\ \A n \in DOMAIN env.value : env.value[n] \in Int
          /\ env.malformed \subseteq DOMAIN env.value
=============================================================================
