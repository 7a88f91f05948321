------------------------------- MODULE Lifecycle -------------------------------
(***************************************************************************)
(* The life of one server process: what it is told is resolved and         *)
(* checked, both databases are connected, the request policy is built, and *)
(* only then are requests accepted, until ctrl-c asks it to drain.         *)
(*                                                                         *)
(*   arguments -> configure -> connect_primary -> connect_mirror           *)
(*     -> authenticator -> stack -> router -> bind                         *)
(*     -> serving -> draining -> exited                                    *)
(*                                                                         *)
(* Any step before serving may end it ("failed"); the host may crash it,   *)
(* or stop it with SIGTERM and, after a grace period, SIGKILL.  What a     *)
(* request does is the subject of the other modules: here it is accepted,  *)
(* and answered by its handler or by the deadline of the middleware.       *)
(***************************************************************************)
EXTENDS Integers

CONSTANTS
  Request,   \* requests whose head the server has read
  Layer      \* where a setting may be given

(* The later of these is stronger: resolve_from extends one by the next. *)
Rank == [dotenv |-> 1, environment |-> 2, dotenv_overrides |-> 3, provided_flags |-> 4]

ASSUME LayerAssumption == Layer \subseteq DOMAIN Rank

EnvironmentWord == {"absent", "blank", "production", "development", "unknown"}
TlsWord == {"absent", "blank", "disabled", "in-process", "trusted-proxy", "unknown"}

VARIABLES
  argv,       \* "run", "help" (or version), or "faulty"
  appEnv,     \* APP_ENV, as each layer gives it
  tlsMode,    \* ORES_MIDDLEWARE_TLS_MODE, as each layer gives it
  proxies,    \* trusted proxies are listed
  hmacKey,    \* the rate limiter's key: "absent", "unusable" or "usable"
  nullsBlanks,\* the typed coercion makes a null of a blank
  complete,   \* the other settings are all there, and in order
  phase,
  connected,  \* the databases connected
  stack,      \* the request policy in force
  request,    \* the fate of each request
  stopping,   \* SIGTERM was sent
  awaited     \* requests in flight then, and not yet answered

settings == <<argv, appEnv, tlsMode, proxies, hmacKey, nullsBlanks, complete>>
host == <<stopping, awaited>>
vars == <<settings, phase, connected, stack, request, host>>

NoStack == [requireHttps |-> FALSE, limiter |-> "none", key |-> "none"]

Init ==
  /\ argv \in {"run", "help", "faulty"}
  /\ appEnv \in [Layer -> EnvironmentWord]
  /\ tlsMode \in [Layer -> TlsWord]
  /\ proxies \in BOOLEAN
  /\ hmacKey \in {"absent", "unusable", "usable"}
  /\ nullsBlanks \in BOOLEAN
  /\ complete \in BOOLEAN
  /\ phase = "arguments"
  /\ connected = {}
  /\ stack = NoStack
  /\ request = [r \in Request |-> "none"]
  /\ stopping = FALSE /\ awaited = {}

InFlight == {r \in Request : request[r] = "in_flight"}

-----------------------------------------------------------------------------
(* resolve_from: each layer extends the weaker ones, so the strongest that *)
(* gives a setting at all decides.  Variant: the weakest does.             *)
DecidedByWeakest(said) ==
  CHOOSE l \in Layer : said[l] # "absent" /\
    \A m \in Layer : said[m] # "absent" => Rank[l] <= Rank[m]

DecidedBy(said) ==
  CHOOSE l \in Layer : said[l] # "absent" /\
    \A m \in Layer : said[m] # "absent" => Rank[m] <= Rank[l]

(* A value the coercion makes null is not written over the environment of  *)
(* the process, which is what the settings resolve to before any layer.    *)
InEnvironment(said) == IF "environment" \in Layer THEN said["environment"] ELSE "absent"

ResolvedWord(said) ==
  IF \A l \in Layer : said[l] = "absent" THEN "absent"
  ELSE IF said[DecidedBy(said)] = "blank" /\ nullsBlanks THEN InEnvironment(said)
  ELSE said[DecidedBy(said)]

(* optional(), and the default of who asks. *)
Lookup(said, default) ==
  IF ResolvedWord(said) \in {"absent", "blank"} THEN default ELSE ResolvedWord(said)

Environment == Lookup(appEnv, "development")
Tls == Lookup(tlsMode, "disabled")

(* RequestPolicy::from_lookup; timeout, body and rate limits are part of   *)
(* what "complete" stands for.                                             *)
PolicyHolds ==
  /\ Environment # "unknown" /\ Tls # "unknown"
  /\ Tls = "trusted-proxy" => proxies
  /\ Environment = "production" => Tls # "disabled" /\ hmacKey # "absent"

(* stack_from_policy *)
Stack ==
  [requireHttps |-> Tls # "disabled",
   limiter |-> IF Environment = "production" THEN "fail_closed" ELSE "local_only",
   key |-> IF Environment = "production" THEN "external" ELSE "ephemeral"]

-----------------------------------------------------------------------------
Become(from, to) == phase = from /\ phase' = to

(* process_control: help and version are printed before anything is done. *)
ParseArguments ==
  /\ Become("arguments", CASE argv = "run" -> "configure"
                           [] argv = "help" -> "exited"
                           [] argv = "faulty" -> "failed")
  /\ UNCHANGED <<settings, connected, stack, request, host>>

(* main: the log filter and Config::from_resolver. *)
Configure ==
  /\ Become("configure", IF complete /\ PolicyHolds THEN "connect_primary" ELSE "failed")
  /\ UNCHANGED <<settings, connected, stack, request, host>>

(* Variant: startup does not wait for the databases, as with a lazy pool. *)
ConnectLazily(from, to, db) ==
  /\ Become(from, to)
  /\ connected' \in {connected, connected \cup {db}}
  /\ UNCHANGED <<settings, stack, request, host>>

Connect(from, to, db) ==
  /\ \/ Become(from, to) /\ connected' = connected \cup {db}
     \/ Become(from, "failed") /\ UNCHANGED connected
  /\ UNCHANGED <<settings, stack, request, host>>

(* A step that succeeds, or refuses its settings, or fails. *)
Attempt(from, to) ==
  /\ Become(from, to) \/ Become(from, "failed")
  /\ UNCHANGED <<settings, connected, stack, request, host>>

BuildAuthenticator == Attempt("authenticator", "stack")

(* The middleware may refuse a policy, and does an unusable key. *)
BuildStack ==
  /\ \/ hmacKey # "unusable" /\ Become("stack", "router") /\ stack' = Stack
     \/ Become("stack", "failed") /\ UNCHANGED stack
  /\ UNCHANGED <<settings, connected, request, host>>

BuildRouter == Attempt("router", "bind")

Bind == Attempt("bind", "serving")

Start ==
  \/ ParseArguments
  \/ Configure
  \/ Connect("connect_primary", "connect_mirror", "primary")
  \/ Connect("connect_mirror", "authenticator", "mirror")
  \/ BuildAuthenticator
  \/ BuildStack
  \/ BuildRouter
  \/ Bind

-----------------------------------------------------------------------------
(* Variant: a draining server goes on accepting. *)
AcceptWhileDraining(r) ==
  /\ phase \in {"serving", "draining"}
  /\ request[r] # "in_flight"
  /\ request' = [request EXCEPT ![r] = "in_flight"]
  /\ UNCHANGED <<settings, phase, connected, stack, host>>

Accept(r) ==
  /\ phase = "serving"
  /\ request[r] # "in_flight"
  /\ request' = [request EXCEPT ![r] = "in_flight"]
  /\ UNCHANGED <<settings, phase, connected, stack, host>>

(* By the handler, or by the deadline. *)
Answer(r) ==
  /\ phase \in {"serving", "draining"}
  /\ request[r] = "in_flight"
  /\ request' = [request EXCEPT ![r] = "answered"]
  /\ awaited' = awaited \ {r}
  /\ UNCHANGED <<settings, phase, connected, stack, stopping>>

(* shutdown_signal returns: on ctrl-c, or because it cannot be listened    *)
(* for, which is no reason to go on.                                       *)
Drain ==
  /\ Become("serving", "draining")
  /\ UNCHANGED <<settings, connected, stack, request, host>>

(* Variant: main returns at once. *)
ExitAtOnce ==
  /\ Become("draining", "exited")
  /\ UNCHANGED <<settings, connected, stack, request, host>>

Exit ==
  /\ Become("draining", "exited")
  /\ InFlight = {}
  /\ UNCHANGED <<settings, connected, stack, request, host>>

-----------------------------------------------------------------------------
Cut ==
  /\ request' = [r \in Request |-> IF r \in InFlight THEN "cut" ELSE request[r]]
  /\ awaited' = {}
  /\ UNCHANGED <<settings, connected, stack, stopping>>

(* The process dies at any time. *)
Crash ==
  /\ phase \notin {"exited", "failed", "crashed", "killed"}
  /\ phase' = "crashed"
  /\ Cut

(* SIGTERM is sent.  Nothing in the process listens for it, and PID 1 has  *)
(* no default action.                                                      *)
Terminate ==
  /\ phase \in {"serving", "draining"} /\ ~ stopping
  /\ stopping' = TRUE /\ awaited' = InFlight
  /\ UNCHANGED <<settings, phase, connected, stack, request>>

(* SIGKILL, after a grace period no shorter than the deadline: what was in *)
(* flight when SIGTERM came has been answered.                             *)
Kill ==
  /\ phase \in {"serving", "draining"} /\ stopping /\ awaited = {}
  /\ phase' = "killed"
  /\ Cut

Next ==
  \/ Start
  \/ \E r \in Request : Accept(r) \/ Answer(r)
  \/ Drain \/ Exit
  \/ Crash \/ Terminate \/ Kill

Spec == Init /\ [][Next]_vars

(* Every request has a deadline, and main returns when it can. *)
Fairness == WF_vars(Exit) /\ \A r \in Request : WF_vars(Answer(r))

FairSpec == Spec /\ Fairness

-----------------------------------------------------------------------------
(* The state of the process keeps its types. *)
TypeOK ==
  /\ argv \in {"run", "help", "faulty"} /\ complete \in BOOLEAN /\ proxies \in BOOLEAN
  /\ nullsBlanks \in BOOLEAN
  /\ appEnv \in [Layer -> EnvironmentWord] /\ tlsMode \in [Layer -> TlsWord]
  /\ hmacKey \in {"absent", "unusable", "usable"}
  /\ phase \in {"arguments", "configure", "connect_primary", "connect_mirror",
                "authenticator", "stack", "router", "bind",
                "serving", "draining", "exited", "failed", "crashed", "killed"}
  /\ connected \subseteq {"primary", "mirror"}
  /\ request \in [Request -> {"none", "in_flight", "answered", "cut"}]
  /\ awaited \subseteq InFlight

Dead == phase \in {"crashed", "killed"}

(* Nothing outside is touched for the sake of help, a mistyped option or   *)
(* an incomplete configuration, and no request is accepted by a server     *)
(* that has not reached both databases.                                    *)
Resolved == argv = "run" /\ complete /\ PolicyHolds

EffectsInOrder ==
  /\ connected # {} => Resolved
  /\ \A r \in Request : request[r] # "none" => connected = {"primary", "mirror"}

(* Requests are cut off by the death of the process only, and one that     *)
(* returns leaves none unanswered.                                         *)
NothingLeftBehind ==
  /\ \A r \in Request : request[r] = "cut" => Dead
  /\ InFlight # {} => phase \in {"serving", "draining"}

(* What each step of startup has left behind it. *)
StartedSoFar ==
  /\ phase = "configure" => argv = "run"
  /\ phase \in {"connect_primary", "connect_mirror", "authenticator", "stack",
                "router", "bind", "serving", "draining"} => Resolved
  /\ phase = "connect_mirror" => "primary" \in connected
  /\ phase \in {"authenticator", "stack", "router", "bind", "serving", "draining"} =>
       connected = {"primary", "mirror"}
  /\ phase \in {"router", "bind", "serving", "draining"} =>
       stack = Stack /\ hmacKey # "unusable"

(* Phases, requests and connections keep their types, and effects their    *)
(* order, from the first step to the last.                                 *)
LifecycleInv == TypeOK /\ EffectsInOrder /\ NothingLeftBehind /\ StartedSoFar

(* The word said for a setting by a layer that no stronger one overrides,  *)
(* and the word that is to govern: this one, or the environment's under a  *)
(* blank that comes to nothing.                                            *)
LastWord(said, word) ==
  \E l \in Layer : said[l] = word /\ \A m \in Layer : Rank[m] > Rank[l] => said[m] = "absent"

Governs(said, word) ==
  \/ LastWord(said, word)
  \/ LastWord(said, "blank") /\ nullsBlanks /\ InEnvironment(said) = word

(* resolve_from and RequestPolicy: what a server does is what the strongest *)
(* layers say of the environment and of TLS, whatever weaker ones do, and  *)
(* the default only if no word governs.  HTTPS is required exactly when a  *)
(* mode of TLS governs, and limits are those of production exactly when    *)
(* "production" does, never without HTTPS or a key that can be used; a     *)
(* word that is not known keeps the server from starting.                  *)
StrongestWordGoverns ==
  phase \in {"serving", "draining"} =>
    /\ stack.requireHttps <=> Governs(tlsMode, "in-process") \/ Governs(tlsMode, "trusted-proxy")
    /\ Governs(tlsMode, "trusted-proxy") => proxies
    /\ stack.limiter = "fail_closed" <=> Governs(appEnv, "production")
    /\ stack.key = "external" <=> Governs(appEnv, "production")
    /\ Governs(appEnv, "production") => stack.requireHttps /\ hmacKey = "usable"
    /\ ~ Governs(appEnv, "unknown") /\ ~ Governs(tlsMode, "unknown")

(* A request accepted is answered unless the process is killed: one being  *)
(* handled when ctrl-c comes is not dropped.                               *)
AcceptedAreAnswered ==
  \A r \in Request : request[r] = "in_flight" ~> (request[r] = "answered" \/ Dead)

(* Asked to stop, the server does stop, however busy it is. *)
DrainsEnd == phase = "draining" ~> (phase = "exited" \/ Dead)

(* .just/env.just: as PID 1 the server gets SIGTERM and can drain on       *)
(* docker stop, so SIGKILL finds nothing to cut off.                       *)
DockerStopDrains == phase = "killed" => \A r \in Request : request[r] # "cut"
=============================================================================
