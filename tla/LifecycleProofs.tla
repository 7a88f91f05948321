---------------------------- MODULE LifecycleProofs ----------------------------
(***************************************************************************)
(* Startup and shutdown keep their order, for any layers of settings and   *)
(* any requests, and the strongest word for a setting is the one obeyed.   *)
(***************************************************************************)
EXTENDS Lifecycle, TLAPS

(* No two layers are equally strong. *)
LEMMA RanksDiffer ==
  ASSUME NEW l \in Layer, NEW m \in Layer
  PROVE  /\ Rank[l] \in Int
         /\ Rank[l] = Rank[m] => l = m
<1>1. DOMAIN Rank = {"dotenv", "environment", "dotenv_overrides", "provided_flags"}
  BY DEF Rank
<1>2. /\ Rank["dotenv"] = 1 /\ Rank["environment"] = 2
      /\ Rank["dotenv_overrides"] = 3 /\ Rank["provided_flags"] = 4
  BY DEF Rank
<1>3. l \in {"dotenv", "environment", "dotenv_overrides", "provided_flags"}
  BY <1>1, LayerAssumption
<1>4. m \in {"dotenv", "environment", "dotenv_overrides", "provided_flags"}
  BY <1>1, LayerAssumption
<1>. QED
  BY <1>2, <1>3, <1>4

(* Where any layer gives a setting, one of them is the strongest to.       *)
LEMMA OneDecides ==
  ASSUME NEW said, \E l \in Layer : said[l] # "absent"
  PROVE  \E l \in Layer : /\ said[l] # "absent"
                         /\ \A m \in Layer : said[m] # "absent" => Rank[m] <= Rank[l]
<1>. DEFINE Speaks(l) == l \in Layer /\ said[l] # "absent"
<1>1. \A m \in Layer : m \in {"dotenv", "environment", "dotenv_overrides", "provided_flags"}
  BY LayerAssumption DEF Rank
<1>2. /\ Rank["dotenv"] = 1 /\ Rank["environment"] = 2
      /\ Rank["dotenv_overrides"] = 3 /\ Rank["provided_flags"] = 4
  BY DEF Rank
<1>3. CASE Speaks("provided_flags")
  BY <1>1, <1>2, <1>3
<1>4. CASE ~ Speaks("provided_flags") /\ Speaks("dotenv_overrides")
  BY <1>1, <1>2, <1>4
<1>5. CASE ~ Speaks("provided_flags") /\ ~ Speaks("dotenv_overrides") /\ Speaks("environment")
  BY <1>1, <1>2, <1>5
<1>6. CASE ~ Speaks("provided_flags") /\ ~ Speaks("dotenv_overrides") /\ ~ Speaks("environment")
  BY <1>1, <1>2, <1>6
<1>. QED
  BY <1>3, <1>4, <1>5, <1>6

(* A word no stronger layer overrides is that of the deciding layer.       *)
LEMMA LastWordDecides ==
  ASSUME NEW said, NEW word, word # "absent", LastWord(said, word)
  PROVE  DecidedBy(said) \in Layer /\ said[DecidedBy(said)] = word
<1>. DEFINE Decides(x) == /\ x \in Layer /\ said[x] # "absent"
                         /\ \A m \in Layer : said[m] # "absent" => Rank[m] <= Rank[x]
<1>1. PICK l \in Layer : said[l] = word /\ \A m \in Layer : Rank[m] > Rank[l] => said[m] = "absent"
  BY DEF LastWord
<1>2. Decides(l)
  BY <1>1, RanksDiffer
<1>3. \A x : Decides(x) => x = l
  <2>. SUFFICES ASSUME NEW x, Decides(x) PROVE x = l
    OBVIOUS
  <2>1. Rank[l] <= Rank[x] /\ ~ (Rank[x] > Rank[l])
    BY <1>1
  <2>. QED
    BY <2>1, RanksDiffer
<1>4. DecidedBy(said) = l
  BY <1>2, <1>3 DEF DecidedBy
<1>. QED
  BY <1>1, <1>4

(* resolve_from and optional(): a word that governs is the one looked up.  *)
LEMMA GoverningIsLookedUp ==
  ASSUME NEW said, NEW default, NEW word, word \notin {"absent", "blank"},
         Governs(said, word)
  PROVE  Lookup(said, default) = word
<1>1. CASE LastWord(said, word)
  <2>1. DecidedBy(said) \in Layer /\ said[DecidedBy(said)] = word
    BY <1>1, LastWordDecides
  <2>. QED
    BY <2>1 DEF Lookup, ResolvedWord
<1>2. CASE LastWord(said, "blank") /\ nullsBlanks /\ InEnvironment(said) = word
  <2>1. DecidedBy(said) \in Layer /\ said[DecidedBy(said)] = "blank"
    BY <1>2, LastWordDecides
  <2>2. ResolvedWord(said) = word
    BY <1>2, <2>1 DEF ResolvedWord
  <2>. QED
    BY <2>2 DEF Lookup
<1>. QED
  BY <1>1, <1>2 DEF Governs

(* The other way round: what is looked up governs, or is the default.      *)
LEMMA LookedUpGoverns ==
  ASSUME NEW said, NEW default, Lookup(said, default) # default
  PROVE  Governs(said, Lookup(said, default))
<1>. DEFINE l == DecidedBy(said)
<1>1. ResolvedWord(said) \notin {"absent", "blank"} /\ Lookup(said, default) = ResolvedWord(said)
  BY DEF Lookup
<1>2. \E m \in Layer : said[m] # "absent"
  BY <1>1 DEF ResolvedWord
<1>3. \E x : /\ x \in Layer /\ said[x] # "absent"
             /\ \A m \in Layer : said[m] # "absent" => Rank[m] <= Rank[x]
  BY <1>2, OneDecides
<1>4. /\ l \in Layer /\ said[l] # "absent"
      /\ \A m \in Layer : said[m] # "absent" => Rank[m] <= Rank[l]
  BY <1>3 DEF DecidedBy
<1>5. \A m \in Layer : Rank[m] > Rank[l] => said[m] = "absent"
  BY <1>4, RanksDiffer
<1>. HIDE DEF l
<1>6. LastWord(said, said[l])
  BY <1>4, <1>5 DEF LastWord
<1>7. CASE said[l] = "blank" /\ nullsBlanks
  BY <1>1, <1>2, <1>6, <1>7 DEF Governs, ResolvedWord, l
<1>8. CASE ~ (said[l] = "blank" /\ nullsBlanks)
  BY <1>1, <1>2, <1>6, <1>8 DEF Governs, ResolvedWord, l
<1>. QED
  BY <1>7, <1>8

(* What is looked up is a word some layer may give, or the default.        *)
LEMMA LookedUpIsAWord ==
  ASSUME NEW Word, NEW said \in [Layer -> Word], NEW default
  PROVE  Lookup(said, default) \in (Word \ {"absent", "blank"}) \cup {default}
<1>. SUFFICES ASSUME Lookup(said, default) # default
              PROVE  Lookup(said, default) \in Word \ {"absent", "blank"}
  OBVIOUS
<1>1. Lookup(said, default) = ResolvedWord(said) /\ ResolvedWord(said) \notin {"absent", "blank"}
  BY DEF Lookup
<1>2. Governs(said, ResolvedWord(said))
  BY <1>1, LookedUpGoverns
<1>3. ResolvedWord(said) \in Word
  BY <1>1, <1>2 DEF Governs, LastWord, InEnvironment
<1>. QED
  BY <1>1, <1>3

-----------------------------------------------------------------------------
LEMMA InitEstablishesLifecycleInv == Init => LifecycleInv
BY DEF Init, LifecycleInv, TypeOK, EffectsInOrder, NothingLeftBehind, StartedSoFar, InFlight

(* What the settings decide does not change while the process lives. *)
LEMMA SettingsDecide ==
  ASSUME UNCHANGED settings
  PROVE  Resolved' = Resolved /\ Stack' = Stack
BY DEF settings, Resolved, PolicyHolds, Stack, Environment, Tls, Lookup, ResolvedWord,
   InEnvironment, DecidedBy

LEMMA StartPreservesLifecycleInv ==
  ASSUME LifecycleInv, Start
  PROVE  LifecycleInv'
<1>. USE DEF LifecycleInv, TypeOK, EffectsInOrder, NothingLeftBehind, StartedSoFar,
             InFlight, Become, settings, host, Dead
<1>1. Resolved' = Resolved /\ Stack' = Stack
  BY SettingsDecide DEF Start, ParseArguments, Configure, Connect, BuildAuthenticator,
     BuildStack, BuildRouter, Bind, Attempt
<1>2. CASE ParseArguments
  BY <1>1, <1>2 DEF ParseArguments
<1>3. CASE Configure
  BY <1>1, <1>3 DEF Configure, Resolved
<1>4. CASE Connect("connect_primary", "connect_mirror", "primary")
  BY <1>1, <1>4 DEF Connect
<1>5. CASE Connect("connect_mirror", "authenticator", "mirror")
  BY <1>1, <1>5 DEF Connect
<1>6. CASE BuildAuthenticator \/ BuildRouter \/ Bind
  BY <1>1, <1>6 DEF BuildAuthenticator, BuildRouter, Bind, Attempt
<1>7. CASE BuildStack
  BY <1>1, <1>7 DEF BuildStack
<1>. QED
  BY <1>2, <1>3, <1>4, <1>5, <1>6, <1>7 DEF Start

LEMMA ServingPreservesLifecycleInv ==
  ASSUME LifecycleInv,
         (\E r \in Request : Accept(r) \/ Answer(r)) \/ Drain \/ Exit \/ Terminate
  PROVE  LifecycleInv'
<1>. USE DEF LifecycleInv, TypeOK, EffectsInOrder, NothingLeftBehind, StartedSoFar,
             InFlight, Become, settings, host, Dead
<1>1. Resolved' = Resolved /\ Stack' = Stack
  BY SettingsDecide DEF Accept, Answer, Drain, Exit, Terminate
<1>2. ASSUME NEW r \in Request, Accept(r) PROVE LifecycleInv'
  BY <1>1, <1>2 DEF Accept
<1>3. ASSUME NEW r \in Request, Answer(r) PROVE LifecycleInv'
  BY <1>1, <1>3 DEF Answer
<1>4. CASE Drain
  BY <1>1, <1>4 DEF Drain
<1>5. CASE Exit
  BY <1>1, <1>5 DEF Exit
<1>6. CASE Terminate
  BY <1>1, <1>6 DEF Terminate
<1>. QED
  BY <1>2, <1>3, <1>4, <1>5, <1>6

LEMMA DyingPreservesLifecycleInv ==
  ASSUME LifecycleInv, Crash \/ Kill
  PROVE  LifecycleInv'
<1>1. Resolved' = Resolved /\ Stack' = Stack
  BY SettingsDecide DEF Crash, Kill, Cut, settings
<1>. QED
  BY <1>1 DEF Crash, Kill, Cut, LifecycleInv, TypeOK, EffectsInOrder, NothingLeftBehind,
     StartedSoFar, InFlight, settings, Dead

(* However a process is configured, interrupted or killed: nothing is      *)
(* connected to before lib.rs and main.rs have accepted its settings,      *)
(* nothing accepted before both databases are there, and nothing cut off   *)
(* while it lives.                                                         *)
THEOREM LifecycleInvariant == Spec => []LifecycleInv
<1>1. LifecycleInv /\ UNCHANGED vars => LifecycleInv'
  <2>. SUFFICES ASSUME LifecycleInv, UNCHANGED vars PROVE LifecycleInv'
    OBVIOUS
  <2>1. Resolved' = Resolved /\ Stack' = Stack
    BY SettingsDecide DEF vars
  <2>. QED
    BY <2>1 DEF vars, settings, host, LifecycleInv, TypeOK, EffectsInOrder,
       NothingLeftBehind, StartedSoFar, InFlight, Dead
<1>2. LifecycleInv /\ [Next]_vars => LifecycleInv'
  BY <1>1, StartPreservesLifecycleInv, ServingPreservesLifecycleInv,
     DyingPreservesLifecycleInv DEF Next
<1>. QED
  BY <1>2, InitEstablishesLifecycleInv, PTL DEF Spec

(* RequestPolicy and stack_from_policy over resolve_from: what a server    *)
(* that listens requires of TLS and how it limits is what the strongest    *)
(* layers say, whatever weaker ones do; or the server does not start.      *)
THEOREM StrongestGoverns == Spec => []StrongestWordGoverns
<1>1. LifecycleInv => StrongestWordGoverns
  <2>. SUFFICES ASSUME LifecycleInv, phase \in {"serving", "draining"}
                PROVE  StrongestWordGoverns
    BY DEF StrongestWordGoverns
  <2>1. PolicyHolds /\ stack = Stack /\ hmacKey # "unusable"
    BY DEF LifecycleInv, StartedSoFar, Resolved
  <2>2. \A word \in EnvironmentWord \ {"absent", "blank"} :
          Governs(appEnv, word) => Environment = word
    BY GoverningIsLookedUp DEF Environment, EnvironmentWord
  <2>3. \A word \in TlsWord \ {"absent", "blank"} : Governs(tlsMode, word) => Tls = word
    BY GoverningIsLookedUp DEF Tls, TlsWord
  <2>4. Environment = "production" => Governs(appEnv, "production")
    BY LookedUpGoverns DEF Environment
  <2>5. Tls # "disabled" => Governs(tlsMode, Tls)
    BY LookedUpGoverns DEF Tls
  <2>6. Tls \in {"disabled", "in-process", "trusted-proxy"}
    <3>1. tlsMode \in [Layer -> TlsWord]
      BY DEF LifecycleInv, TypeOK
    <3>2. Tls \in (TlsWord \ {"absent", "blank"}) \cup {"disabled"}
      BY <3>1, LookedUpIsAWord DEF Tls
    <3>. QED
      BY <2>1, <3>2 DEF PolicyHolds, TlsWord
  <2>7. stack.requireHttps <=> Governs(tlsMode, "in-process") \/ Governs(tlsMode, "trusted-proxy")
    BY <2>1, <2>3, <2>5, <2>6 DEF Stack, TlsWord
  <2>8. Governs(tlsMode, "trusted-proxy") => proxies
    BY <2>1, <2>3 DEF PolicyHolds, TlsWord
  <2>9. /\ stack.limiter = "fail_closed" <=> Governs(appEnv, "production")
        /\ stack.key = "external" <=> Governs(appEnv, "production")
    BY <2>1, <2>2, <2>4 DEF Stack, EnvironmentWord
  <2>10. Governs(appEnv, "production") => stack.requireHttps /\ hmacKey = "usable"
    BY <2>1, <2>2 DEF Stack, PolicyHolds, EnvironmentWord, LifecycleInv, TypeOK
  <2>11. ~ Governs(appEnv, "unknown") /\ ~ Governs(tlsMode, "unknown")
    BY <2>1, <2>2, <2>3 DEF PolicyHolds, EnvironmentWord, TlsWord
  <2>. QED
    BY <2>7, <2>8, <2>9, <2>10, <2>11 DEF StrongestWordGoverns
<1>. QED
  BY <1>1, LifecycleInvariant, PTL
=============================================================================
