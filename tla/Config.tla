------------------------------- MODULE Config -------------------------------
(***************************************************************************)
(* The configuration file, the profile it resolves to, the provider the    *)
(* profile names, the token budget, and what `kbark doctor` reports of all *)
(* these (internal/config, ai/registry.go, internal/tokens,                *)
(* internal/doctor).  No state: operators on an environment.               *)
(*                                                                         *)
(* An environment is a record                                              *)
(*   path        os.UserConfigDir works                                    *)
(*   file        "missing", "unreadable", "malformed" or "parsed"          *)
(*   default     default_profile of the parsed file, NoName when absent    *)
(*   profiles    the profiles of the parsed file                           *)
(*   flag        --profile or KBARK_PROFILE, NoName for none               *)
(*   keys        the providers whose API key is set                        *)
(*   hostSet     OLLAMA_HOST is set                                        *)
(*   ping        what the endpoint of each provider answers                *)
(*   kube        "bad" kubeconfig, "down" API server or "ok"               *)
(* Names of profiles and models are numbers; the order of the profiles'    *)
(* numbers is the alphabetical one.                                        *)
(***************************************************************************)
EXTENDS Naturals

NoName   == 0
NoModel  == 0
Vendors  == {"anthropic", "openai", "ollama"}

\* The built-in profile "dev" and its model.
Dev   == 1
Sonnet == 1

NoProfile == [provider |-> "none", model |-> NoModel, budget |-> 0]
NoConfig  == [default |-> NoName, profiles |-> <<>>]

builtinDefaults ==
  [default  |-> Dev,
   profiles |-> [n \in {Dev} |-> [provider |-> "anthropic", model |-> Sonnet, budget |-> 0]]]

\* The first key in alphabetical order.
firstSortedKey(profiles) ==
  CHOOSE n \in DOMAIN profiles : \A m \in DOMAIN profiles : n <= m

\* config.Load; NoConfig stands for an error.
Load(env) ==
  LET default == IF env.default = NoName /\ DOMAIN env.profiles # {}
                   THEN firstSortedKey(env.profiles) ELSE env.default
  IN  IF ~env.path \/ env.file = "missing" THEN builtinDefaults
      ELSE IF env.file = "parsed" /\ default \in DOMAIN env.profiles
        THEN [default |-> default, profiles |-> env.profiles]
      ELSE NoConfig

\* The name a flag or an argument stands for.
Named(cfg, name) == IF name = NoName THEN cfg.default ELSE name

\* Config.Resolve; NoProfile stands for an error.
Resolve(cfg, name) ==
  LET p == IF Named(cfg, name) \in DOMAIN cfg.profiles
             THEN cfg.profiles[Named(cfg, name)] ELSE NoProfile
  IN  IF p.provider = "none" \/ p.model = NoModel THEN NoProfile ELSE p

\* ai.New: a provider needs its key, ollama none; "nil" stands for an error.
NewProvider(name, keys) ==
  IF name = "ollama" \/ name \in keys \intersect Vendors THEN name ELSE "nil"

\* tokens.Estimate: a token is four characters, rounded up.
Estimate(chars) == (chars + 3) \div 4

\* checkTokenBudget; 0 is no budget.
WithinBudget(budget, payload, system) ==
  budget > 0 => Estimate(payload) + Estimate(system) <= budget

-----------------------------------------------------------------------------
(* kbark doctor.                                                           *)

\* buildDoctorOptions: the profile, NoProfile when it cannot be resolved.
DoctorProfile(env) ==
  IF Load(env) = NoConfig THEN NoProfile ELSE Resolve(Load(env), env.flag)

ConfigRow(env)  == IF env.path THEN "green" ELSE "yellow"
ProfileRow(env) == IF DoctorProfile(env) = NoProfile THEN "red" ELSE "green"

KubeconfigRow(env) == IF env.kube = "bad" THEN "red" ELSE "green"
APIServerRow(env)  == IF env.kube = "ok" THEN "green" ELSE "red"

\* A key that is refused is red, anything transient yellow.
classifyHTTP(answer) ==
  CASE answer = "ok"   -> "green"
    [] answer = "auth" -> "red"
    [] OTHER           -> "yellow"

ProviderRow(env, v) ==
  IF v = "ollama"
    THEN CASE env.ping[v] = "ok"          -> "green"
           [] env.ping[v] = "unreachable" -> IF env.hostSet THEN "red" ELSE "yellow"
           [] OTHER                       -> "yellow"
    ELSE IF v \notin env.keys THEN "red" ELSE classifyHTTP(env.ping[v])

\* The provider whose row is marked as the active one.
MarkedWhateverStatus(env) == {v \in Vendors : v = DoctorProfile(env).provider}
MarkedActive(env) ==
  {v \in Vendors : v = DoctorProfile(env).provider /\ ProviderRow(env, v) = "green"}

\* doctor.Run followed by ClusterFatal: the exit code is not zero.
ClusterFatal(env) == KubeconfigRow(env) = "red" \/ APIServerRow(env) = "red"
=============================================================================
