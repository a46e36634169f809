--------------------------- MODULE SampleRequests ---------------------------
(* Sound inputs of the gateway, at the limits it still accepts: the material the instances
   of ShadowCycle and Replay are made from. *)
EXTENDS GatewayRequest

Day(n) == n * TicksPerDay
At(n, minute) == Day(n) + minute * TicksPerMinute
Winter == 40
Summer == 200
MCDstStart == At(67, 480)
MCDstEnd == At(305, 420)

Utc(t) == [t |-> t, off |-> 0]
Leg(side, strike, delta) ==
    [side |-> side, option_type |-> "PUT", strike |-> strike, delta |-> delta, contracts |-> 1]
Candidate(dte, delta, credit) ==
    [underlying |-> "XSP", direction |-> "PUT_CREDIT", short_leg |-> Leg("SHORT", 45000, delta),
     long_leg |-> Leg("LONG", 44900, -50), net_credit |-> credit, multiplier |-> 100, dte |-> dte]
Contract(strike, day) ==
    [underlying |-> "XSP", option_type |-> "PUT", strike |-> strike, multiplier |-> 100,
     exercise_style |-> "EUROPEAN", settlement_style |-> "CASH",
     expiration_date |-> Utc(Day(day)), expiration_time |-> Utc(At(day, 1260)),
     last_trading_time |-> At(day, 1215)]
Spread(short, long) == [short_contract |-> short, long_contract |-> long]
Feed(t) ==
    [status |-> "CERTIFIED", certified_at |-> t, pending_recertification_triggers |-> {},
     within_thresholds |-> TRUE, covers_xsp |-> TRUE, covers_spx |-> FALSE,
     symbol_mapping_consistent |-> TRUE]
Policy(t) ==
    [xsp_enabled |-> TRUE, spx_phase_2_enabled |-> FALSE, source |-> "CONSTITUTION_CONFIG",
     approved_by |-> {}, effective_at |-> t, expires_at |-> {}]
Account(nlv) ==
    [account_type |-> "MARGIN", net_liquidating_value |-> nlv, trailing_high_water_value |-> nlv]
Heat(loss, margin) ==
    [sum_defined_max_loss |-> loss, broker_margin_requirement |-> margin,
     net_liquidating_value |-> 2000000]
Snapshot(quote, underlying, vix, rank) ==
    [option_quote_age |-> quote, underlying_price_age |-> underlying, vix_age |-> vix,
     iv_rank_age |-> rank, iv_rank_inputs_fresh |-> TRUE]
Counts(total, expiry, direction, zero, zeroTotal, zeroDirection) ==
    [concurrent_spreads_total |-> total, open_spreads_same_expiry |-> expiry,
     same_direction_spreads |-> direction, is_zero_dte |-> zero,
     zero_dte_concurrent_spreads |-> zeroTotal, zero_dte_same_direction_spreads |-> zeroDirection,
     aggregate_short_delta_abs |-> 300, aggregate_gamma_notional_pct_equity |-> 200]
NoHalt ==
    [active_tier |-> "NONE", triggered_action |-> "NONE", rearm_mode |-> "NONE",
     human_rearm_granted |-> FALSE]
Mids(b, s, bu, su) ==
    [broker_option_mid |-> b, secondary_option_mid |-> s,
     broker_underlying |-> bu, secondary_underlying |-> su]
Quality(slippage, failed, token) ==
    [rolling_avg_slippage |-> slippage, failed_fill_attempts |-> failed, rearm_token |-> token]
Book(bid, ask, oi, size) ==
    [bid |-> bid, ask |-> ask, open_interest |-> oi, top_of_book_size |-> size]
Guard(confirmed, agent, emergency) ==
    [long_leg_confirmed |-> confirmed, agent_managed_stop_only |-> agent,
     is_emergency_close |-> emergency]
Plan(atomic, legging, longFirst) ==
    [broker_confirms_atomic_combo |-> atomic, legging |-> legging, long_leg_first |-> longFirst]

\* A sound request at `now`, for a spread that expires `dte` days later.
Sound(now, dte) ==
    LET day == now \div TicksPerDay + dte IN
    [candidate |-> Candidate(dte, -100, 50), as_of |-> Utc(now), account |-> Account(2000000),
     heat |-> Heat(120000, 700000), drawdown |-> NoHalt, instrument |-> "XSP",
     spread_contract |-> Spread(Contract(45000, day), Contract(44900, day)),
     underlying_policy |-> Policy(now), data_snapshot |-> Snapshot(0, 0, 0, 0),
     reconciliation |-> Mids(150, 153, 45000, 45000), liquidity |-> Book(60, 69, 100, 5),
     execution_quality |-> Quality(5, 3, {}), concentration |-> Counts(4, 2, 2, dte = 0, 2, 1),
     protection |-> Guard(TRUE, FALSE, FALSE), multi_leg |-> Plan(FALSE, TRUE, TRUE),
     strategy_stage |-> "LIVE", feed_certification |-> Feed(now), event_calendar |-> {}]
=============================================================================
