-------------------------------- MODULE Rollout -------------------------------
(***************************************************************************)
(* Which requests are enforced: the settings a process is started with       *)
(* (Load of internal/config/config.go) and the choice rollout.go makes by    *)
(* them.  An environment and a file are the settings this choice depends on;  *)
(* a setting that is missing or does not parse is "unset", and 0 for the      *)
(* percentage.  A request ID is reduced to its bucket, FNV-32a modulo 100.    *)
(***************************************************************************)
EXTENDS Integers

Modes   == {"shadow", "canary", "enforce"}
Buckets == 0..99

Environment == [mode : STRING, canaryPct : Int, kill : {"true", "false", "unset"}]
File        == [mode : STRING, canaryPct : Int]
NoFile      == [mode |-> "unset", canaryPct |-> 0]

Config == [mode : Modes, canaryPct : Int, EnforceKillSwitch : BOOLEAN]

envOr(value, default) == IF value = "unset" THEN default ELSE value

\* The mode of the file goes before that of the environment.
LoadedMode(env, file) == envOr(file.mode, envOr(env.mode, "shadow"))

\* Load returns no error: the process starts.
Loads(env, file) == LoadedMode(env, file) \in Modes

\* A percentage of zero or less in the file leaves that of the environment.
Load(env, file) ==
    [mode              |-> LoadedMode(env, file),
     canaryPct         |-> IF file.canaryPct > 0 THEN file.canaryPct ELSE env.canaryPct,
     EnforceKillSwitch |-> env.kill = "true"]

IsKillSwitchActive(env, cfg) ==
    IF env.kill = "unset" THEN cfg.EnforceKillSwitch ELSE env.kill = "true"

InCanaryCohort(bucket, canaryPct) == canaryPct > 0 /\ (canaryPct >= 100 \/ bucket < canaryPct)

WouldEnforceWithoutKillSwitch(cfg, bucket) ==
    cfg.mode = "enforce" \/ (cfg.mode = "canary" /\ InCanaryCohort(bucket, cfg.canaryPct))

\* A variant of ShouldEnforce that does not look at the kill switch.
ShouldEnforceRegardless(env, cfg, bucket) == WouldEnforceWithoutKillSwitch(cfg, bucket)

ShouldEnforce(env, cfg, bucket) ==
    ~IsKillSwitchActive(env, cfg) /\ WouldEnforceWithoutKillSwitch(cfg, bucket)

\* A variant of ShouldRunShadowAsync that forgets the cohort.
ShouldRunShadowForAllCanaries(env, cfg, bucket) ==
    IsKillSwitchActive(env, cfg) \/ cfg.mode \in {"shadow", "canary"}

ShouldRunShadowAsync(env, cfg, bucket) ==
    \/ IsKillSwitchActive(env, cfg)
    \/ cfg.mode = "shadow"
    \/ cfg.mode = "canary" /\ ~InCanaryCohort(bucket, cfg.canaryPct)

=============================================================================
