----------------------------- MODULE AppConfig -----------------------------
(***************************************************************************)
(* config/app_config.py: the deployment flags every process loads before   *)
(* it opens a store.  An environment maps each variable to the string it   *)
(* holds; "unset" and anything a parser does not know refuse the start.    *)
(***************************************************************************)
AppEnv == {"local", "vm_shadow", "vm_paper", "live_readonly"}
BrokerMode == {"none", "paper", "live_readonly"}

SubmitFlags == {"SUBMISSION_ENABLED", "PAPER_SUBMIT_ENABLED", "LIVE_SUBMIT_ENABLED"}
FeatureFlags == {"MARKET_DATA_ENABLED", "CANDIDATE_GENERATION_ENABLED", "GATEWAY_ENABLED",
                 "ORDER_TICKETING_ENABLED"}

\* _parse_bool strips and lower-cases; the two enum parsers take the exact value only.
TrueForms == {"true", " TRUE"}
FalseForms == {"false", "False "}

\* from_env: every safety-critical variable is set to a value its parser knows.
Parses(env) ==
    /\ env["APP_ENV"] \in AppEnv
    /\ env["BROKER_MODE"] \in BrokerMode
    /\ \A f \in SubmitFlags \cup FeatureFlags : env[f] \in TrueForms \cup FalseForms

On(env, flag) == env[flag] \in TrueForms

submission_armed(env) ==
    /\ On(env, "SUBMISSION_ENABLED")
    /\ On(env, "PAPER_SUBMIT_ENABLED") \/ On(env, "LIVE_SUBMIT_ENABLED")

EnvInvariants(env) ==
    CASE env["APP_ENV"] = "vm_shadow" ->
             /\ env["BROKER_MODE"] = "none"
             /\ \A f \in SubmitFlags : ~On(env, f)
             /\ \A f \in FeatureFlags : On(env, f)
      [] env["APP_ENV"] = "vm_paper" ->
             /\ env["BROKER_MODE"] = "paper"
             /\ On(env, "SUBMISSION_ENABLED") /\ On(env, "PAPER_SUBMIT_ENABLED")
             /\ ~On(env, "LIVE_SUBMIT_ENABLED")
             /\ \A f \in FeatureFlags : On(env, f)
      [] env["APP_ENV"] = "live_readonly" ->
             /\ env["BROKER_MODE"] = "live_readonly"
             /\ ~On(env, "SUBMISSION_ENABLED") /\ ~On(env, "PAPER_SUBMIT_ENABLED")
      [] OTHER -> env["BROKER_MODE"] # "live_readonly"

\* Mutant: the cross-field agreement is left to the per-environment blocks.
EnvOnly(env) == Parses(env) /\ ~On(env, "LIVE_SUBMIT_ENABLED") /\ EnvInvariants(env)

\* AppConfig.from_env constructs: _fail_closed raises in no step.
ConfigValid(env) ==
    /\ Parses(env)
    /\ ~On(env, "LIVE_SUBMIT_ENABLED")
    /\ EnvInvariants(env)
    /\ env["BROKER_MODE"] = "none" => ~submission_armed(env)
    /\ On(env, "PAPER_SUBMIT_ENABLED") => On(env, "SUBMISSION_ENABLED")
    /\ On(env, "SUBMISSION_ENABLED") =>
           On(env, "PAPER_SUBMIT_ENABLED") \/ On(env, "LIVE_SUBMIT_ENABLED")
    /\ On(env, "PAPER_SUBMIT_ENABLED") => env["BROKER_MODE"] = "paper"

\* services/shadow_cycle.py require_shadow_safe.
require_shadow_safe(env) ==
    /\ env["APP_ENV"] = "vm_shadow"
    /\ env["BROKER_MODE"] = "none"
    /\ \A f \in SubmitFlags : ~On(env, f)
    /\ ~submission_armed(env)
=============================================================================
