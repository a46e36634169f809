------------------------------ MODULE MCShadow ------------------------------
(* Small deployments of ShadowCycle for TLC: one sound request, every limit met and missed
   by one unit, and every pair of such changes; every routing state; every environment; and
   two cycles on one store. *)
EXTENDS ShadowClaims, SampleRequests

\* Settled at the opening, 08:30 in Chicago in winter.
InTheMorning(contract) ==
    LET day == contract.expiration_date.t
    IN  [contract EXCEPT !.expiration_time.t = day + 870 * TicksPerMinute,
                         !.last_trading_time = day - 180 * TicksPerMinute]

\* Each change replaces one part of a request made at `now`.
Change(field, values) == {[field |-> field, value |-> v] : v \in values}

Changes(now) ==
    LET day == now \div TicksPerDay
        halt(rule, granted) == [active_tier |-> rule[1], triggered_action |-> rule[2],
                                rearm_mode |-> rule[3], human_rearm_granted |-> granted]
        short == Contract(45000, day + 1)  long == Contract(44900, day + 1)
        human == [Policy(now) EXCEPT !.spx_phase_2_enabled = TRUE,
                                     !.source = "HUMAN_APPROVED_CONFIG", !.approved_by = {"owner"}]
    IN  Change("account", {Account(1999999), [Account(2000000) EXCEPT !.account_type = "MULTI_ACCOUNT"]})
        \cup Change("underlying_policy",
               {[Policy(now) EXCEPT !.effective_at = now + 1], [Policy(now) EXCEPT !.xsp_enabled = FALSE],
                [Policy(now - 9) EXCEPT !.expires_at = {now}],
                [Policy(now - 9) EXCEPT !.expires_at = {now - 1}], human,
                [human EXCEPT !.approved_by = {}]})
        \cup Change("candidate",
               {Candidate(1, -101, 50), Candidate(1, -100, 100), Candidate(1, -100, 99),
                Candidate(0, -100, 50), Candidate(2, -100, 50), Candidate(1, 1, 50)})
        \cup Change("spread_contract",
               {Spread(short, Contract(44800, day + 1)), Spread(short, Contract(44900, day + 2)),
                Spread([short EXCEPT !.exercise_style = "AMERICAN"], long),
                Spread(short, [long EXCEPT !.settlement_style = "PHYSICAL"]),
                Spread([short EXCEPT !.last_trading_time = now], [long EXCEPT !.last_trading_time = now]),
                Spread([short EXCEPT !.last_trading_time = now - 1],
                       [long EXCEPT !.last_trading_time = now - 1]),
                Spread(InTheMorning(short), InTheMorning(long))})
        \cup Change("strategy_stage", {"PAPER"})
        \cup Change("heat", {Heat(120001, 700000), Heat(120000, 700001), Heat(120001, 700001)})
        \cup Change("concentration",
               {Counts(5, 2, 2, FALSE, 0, 0), Counts(4, 3, 2, FALSE, 0, 0), Counts(4, 2, 3, FALSE, 0, 0),
                Counts(4, 2, 2, TRUE, 3, 1), Counts(4, 2, 2, FALSE, 3, 2)})
        \cup Change("liquidity", {Book(60, 70, 100, 5), Book(60, 71, 100, 5), Book(4, 4, 100, 5),
                                  Book(60, 69, 99, 5), Book(60, 69, 100, 4), Book(61, 60, 100, 5)})
        \cup Change("execution_quality",
               {Quality(6, 3, {}), Quality(5, 4, {}),
                Quality(6, 4, {[broker_fill_report_reviewed |-> TRUE]}),
                Quality(6, 4, {[broker_fill_report_reviewed |-> FALSE]})})
        \cup Change("drawdown", {halt(rule, granted) : rule \in TierRules, granted \in BOOLEAN})
        \cup Change("protection", {Guard(FALSE, FALSE, FALSE), Guard(TRUE, TRUE, FALSE),
                                   Guard(FALSE, TRUE, TRUE), Guard(FALSE, TRUE, FALSE)})
        \cup Change("multi_leg", {Plan(TRUE, TRUE, FALSE), Plan(FALSE, TRUE, FALSE)})
        \cup Change("event_calendar",
               {{[event |-> e, window_start |-> now - 8000, window_end |-> now - after]} :
                   e \in {"CPI_RELEASE", "FED_CHAIR_SPEECH", "FOMC"}, after \in {0, 1, 3600, 3601, 7200, 7201}})
        \cup Change("data_snapshot",
               {Snapshot(1001000, 500999, 5000999, 10000999), Snapshot(1001001, 0, 0, 0),
                Snapshot(0, 501000, 0, 0), Snapshot(0, 0, -1, 0), Snapshot(1001001, 0, 5001000, 0),
                Snapshot(0, 0, 0, 10001000), [Snapshot(0, 0, 0, 0) EXCEPT !.iv_rank_inputs_fresh = FALSE]})
        \cup Change("reconciliation", {Mids(149, 152, 45000, 45000), Mids(200, 204, 45000, 45000),
                                       Mids(150, 150, 44000, 44110), Mids(150, 150, 44000, 44111)})
        \cup Change("feed_certification",
               {Feed(now - Day(30)), Feed(now - Day(30) - 1), [Feed(now) EXCEPT !.covers_xsp = FALSE],
                [Feed(now) EXCEPT !.status = "EXPIRED", !.pending_recertification_triggers = {"broker_api_change"}],
                [Feed(now) EXCEPT !.pending_recertification_triggers = {"broker_api_change"}]})

Apply(r, change) == [r EXCEPT ![change.field] = change.value]

\* 10:00 in Chicago, and the edges of the entry window in winter and in summer time.
Morning == At(Winter, 960)
Instants ==
    UNION {{t - 1, t} : t \in {At(Winter, 945), At(Winter, 1140), At(Summer, 885), At(Summer, 1080)}}
        \cup {Morning, At(Winter, 1201)}

ChangedOnce == {Apply(Sound(Morning, 1), c) : c \in Changes(Morning)}
ChangedTwice ==
    {Apply(Apply(Sound(Morning, 1), c), d) : c \in Changes(Morning), d \in Changes(Morning)}
MadeAtInstants == {Sound(t, dte) : t \in Instants, dte \in {0, 1}}

\* The same instant written at other offsets, and across the change to summer time.
MadeElsewhere ==
    {[Sound(t, 1) EXCEPT !.as_of.off = off] : t \in Instants, off \in {-720, -360, 300, 301}}
        \cup {Sound(At(66, 960), dte) : dte \in 1..3}
GateRequests == MadeAtInstants \cup MadeElsewhere \cup ChangedTwice

\* ---- environments ----
Variables == {"APP_ENV", "BROKER_MODE"} \cup SubmitFlags \cup FeatureFlags
Env(app, broker, submit, features) ==
    [v \in Variables |->
        CASE v = "APP_ENV" -> app [] v = "BROKER_MODE" -> broker
          [] v \in submit \cup features -> "true" [] OTHER -> "false"]
ShadowEnv == Env("vm_shadow", "none", {}, FeatureFlags)
PaperEnv == Env("vm_paper", "paper", {"SUBMISSION_ENABLED", "PAPER_SUBMIT_ENABLED"}, FeatureFlags)
ThreeEnvs == {ShadowEnv, PaperEnv, [ShadowEnv EXCEPT !["GATEWAY_ENABLED"] = "unset"]}
AllEnvs ==
    {[e EXCEPT !["ORDER_TICKETING_ENABLED"] = last] :
        e \in {Env(app, broker, submit, features) :
                   app \in AppEnv \cup {"unset", "live"}, broker \in BrokerMode \cup {"unset"},
                   submit \in SUBSET SubmitFlags, features \in SUBSET FeatureFlags},
        last \in {"true", " TRUE", "False ", "unset", "yes"}}

\* ---- routing states ----
ValidRoutings == {s \in RoutingStates : RoutingValid(s)}
Quiet ==
    [route_mode |-> "NORMAL", policy_state |-> "NORMAL", broker_native_combo_available |-> TRUE,
     deterministic_market_order_allowed |-> FALSE, requested_order_type |-> "NONE"]
QuietOrNone == {{}, {Quiet}, {[Quiet EXCEPT !.requested_order_type = "MARKET"]}}
EveryRouting == {{}} \cup {{s} : s \in ValidRoutings}

\* ---- sessions ----
Good == Sound(Morning, 1)
Bad == Apply(Good, [field |-> "strategy_stage", value |-> "PAPER"])
ZeroDteFlagUnset ==
    Apply(Sound(Morning, 0), [field |-> "concentration", value |-> Counts(4, 2, 2, FALSE, 3, 2)])

Cycles(envs, routings, batches) == [env : envs, routing : routings, batch : batches]
Alone(c) == {<<x>> : x \in c}

GateSessions ==
    Alone(Cycles({ShadowEnv}, {{Quiet}}, {<<r>> : r \in {q \in GateRequests : RequestValid(q)}}))
RouteSessions == Alone(Cycles({ShadowEnv}, EveryRouting, {<<Good>>}))
ConfigSessions == Alone(Cycles(AllEnvs, {{}}, {<<>>}))
TwoCycles ==
    LET c == Cycles(ThreeEnvs, QuietOrNone, {<<>>, <<Good>>, <<Good, Bad>>, <<Bad, Good>>})
    IN  {<<x, y>> : x \in c, y \in c}

MCSessions == GateSessions \cup RouteSessions \cup ConfigSessions \cup TwoCycles
ZeroDteSessions == Alone(Cycles({ShadowEnv}, {{Quiet}}, {<<ZeroDteFlagUnset>>}))
=============================================================================
