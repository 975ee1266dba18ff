----------------------------- MODULE RolloutProofs ----------------------------
(***************************************************************************)
(* What the rollout promises an operator, for every environment, file,       *)
(* percentage and request.                                                   *)
(***************************************************************************)
EXTENDS Rollout, TLAPS

\* A process that starts has one of the three modes, wherever it was set (Load).
THEOREM LoadedConfig ==
    ASSUME NEW env \in Environment, NEW file \in File, Loads(env, file)
    PROVE  Load(env, file) \in Config
BY DEF Loads, Load, Config, Environment, File

\* Every request is analysed by exactly one of the two paths of the chain, the
\* inline one or the shadow, although they ask different functions.
THEOREM SelectedOnce ==
    ASSUME NEW env \in Environment, NEW cfg \in Config, NEW bucket \in Buckets
    PROVE  ShouldRunShadowAsync(env, cfg, bucket) <=> ~ShouldEnforce(env, cfg, bucket)
<1>1. cfg.mode \in Modes
  BY DEF Config
<1>2. QED
  BY <1>1 DEF ShouldRunShadowAsync, ShouldEnforce, WouldEnforceWithoutKillSwitch, Modes

\* Raising the percentage of a canary, or going from canary to enforce, never
\* drops a request from the enforced ones (InCanaryCohort, at its edges too).
THEOREM WideningKeepsCohort ==
    ASSUME NEW env \in Environment, NEW cfg \in Config, NEW wider \in Config,
           NEW bucket \in Buckets,
           wider.EnforceKillSwitch = cfg.EnforceKillSwitch,
           \/ wider.mode = "enforce"
           \/ wider.mode = cfg.mode /\ wider.canaryPct >= cfg.canaryPct,
           ShouldEnforce(env, cfg, bucket)
    PROVE  ShouldEnforce(env, wider, bucket)
<1>1. ~IsKillSwitchActive(env, wider)
  BY DEF ShouldEnforce, IsKillSwitchActive
<1>2. CASE wider.mode = "enforce"
  BY <1>1, <1>2 DEF ShouldEnforce, WouldEnforceWithoutKillSwitch
<1>3. CASE wider.mode = cfg.mode /\ wider.canaryPct >= cfg.canaryPct
  <2>1. cfg.canaryPct \in Int /\ wider.canaryPct \in Int /\ bucket \in Int
    BY DEF Config, Buckets
  <2>2. InCanaryCohort(bucket, cfg.canaryPct) => InCanaryCohort(bucket, wider.canaryPct)
    BY <1>3, <2>1 DEF InCanaryCohort
  <2>3. QED
    BY <1>1, <1>3, <2>2 DEF ShouldEnforce, WouldEnforceWithoutKillSwitch
<1>4. QED
  BY <1>2, <1>3

\* A switch that is set in the environment stops enforcement whatever mode and
\* percentage the file gives, and a canary of zero or less enforces nothing.
THEOREM NothingEnforced ==
    ASSUME NEW env \in Environment, NEW file \in File, NEW bucket \in Buckets,
           \/ env.kill = "true"
           \/ Load(env, file).mode = "canary" /\ Load(env, file).canaryPct <= 0
    PROVE  ~ShouldEnforce(env, Load(env, file), bucket)
<1>1. CASE env.kill = "true"
  BY <1>1 DEF ShouldEnforce, IsKillSwitchActive
<1>2. CASE Load(env, file).mode = "canary" /\ Load(env, file).canaryPct <= 0
  <2>1. Load(env, file).canaryPct \in Int
    BY DEF Load, Environment, File
  <2>2. QED
    BY <1>2, <2>1 DEF ShouldEnforce, WouldEnforceWithoutKillSwitch, InCanaryCohort
<1>3. QED
  BY <1>1, <1>2

=============================================================================
