------------------------------ MODULE Gateway ------------------------------
(***************************************************************************)
(* ExecutionGateway.validate (gateway/gateway.py, gateway/gates.py): every *)
(* gate runs, every code that fires is collected, a clean request gets its *)
(* three capability tokens and becomes a ValidatedTradeIntent.  A gate is  *)
(* the set of codes it returns; the collected list is deduplicated, so it  *)
(* is their union, and its order reaches nothing but the artifact's hash.  *)
(***************************************************************************)
EXTENDS GatewayRequest

Code(fires, code) == IF fires THEN {code} ELSE {}

\* ---- account, instrument, contract ----
MINIMUM_EQUITY == 2000000
PERMITTED_ACCOUNT_TYPES == {"MARGIN"}

gate_account_mode(account) ==
    Code(account.account_type \notin PERMITTED_ACCOUNT_TYPES, "ACCOUNT_TYPE_NOT_PERMITTED")
        \cup Code(account.net_liquidating_value < MINIMUM_EQUITY, "MINIMUM_EQUITY_BREACH")

policy_is_active_as_of(policy, now) ==
    /\ policy.effective_at <= now
    /\ \A e \in policy.expires_at : now <= e

UnderlyingEnabled(policy, underlying) ==
    \/ underlying = "XSP" /\ policy.xsp_enabled
    \/ underlying = "SPX" /\ policy.spx_phase_2_enabled

gate_instrument_permitted(r) ==
    Code(\/ r.instrument # r.candidate.underlying
         \/ ~policy_is_active_as_of(r.underlying_policy, r.as_of.t)
         \/ ~UnderlyingEnabled(r.underlying_policy, r.candidate.underlying),
         "INSTRUMENT_NOT_PERMITTED")

mandate_compliant(contract) ==
    contract.exercise_style = "EUROPEAN" /\ contract.settlement_style = "CASH"

contract_is_tradable_as_of(contract, now) ==
    mandate_compliant(contract) /\ now <= contract.last_trading_time

LegMatches(contract, leg, candidate) ==
    /\ contract.underlying = candidate.underlying
    /\ contract.option_type = leg.option_type
    /\ contract.strike = leg.strike
    /\ contract.multiplier = candidate.multiplier

matches_candidate(spread, candidate) ==
    /\ LegMatches(spread.short_contract, candidate.short_leg, candidate)
    /\ LegMatches(spread.long_contract, candidate.long_leg, candidate)

gate_contract_metadata(r) ==
    LET spread == r.spread_contract
        legs == {spread.short_contract, spread.long_contract}
    IN  Code(\E c \in legs : ~contract_is_tradable_as_of(c, r.as_of.t),
             "CONTRACT_METADATA_INVALID")
            \cup Code(~matches_candidate(spread, r.candidate), "CONTRACT_SPREAD_MISMATCH")

gate_dte_match(r) == Code(~dte_matches_claim(r), "DTE_MISMATCH")

\* ---- strategy and sizing ----
SHORT_DELTA_ABS_CAP == 100

short_delta_within_cap(candidate) == Abs(candidate.short_leg.delta) <= SHORT_DELTA_ABS_CAP

\* Mutant: the band is read one step too wide, so the gate passes what assembly refuses.
DeltaBandWide(candidate) ==
    Code(Abs(candidate.short_leg.delta) > SHORT_DELTA_ABS_CAP + 1, "DELTA_BAND_VIOLATION")

gate_delta_band(candidate) ==
    Code(~short_delta_within_cap(candidate), "DELTA_BAND_VIOLATION")

gate_strategy_live(stage) == Code(stage # "LIVE", "STRATEGY_NOT_LIVE_APPROVED")

RISK_HEAT_CAP_PCT == 6
BUYING_POWER_HEAT_CAP_PCT == 35

risk_heat_ok(h) == h.sum_defined_max_loss * 100 <= RISK_HEAT_CAP_PCT * h.net_liquidating_value

buying_power_heat_ok(h) ==
    h.broker_margin_requirement * 100 <= BUYING_POWER_HEAT_CAP_PCT * h.net_liquidating_value

\* rejection_reason returns the first limit exceeded: one code at most.
gate_portfolio_heat(h) ==
    Code(~risk_heat_ok(h), "HEAT_LIMIT_EXCEEDED")
        \cup Code(risk_heat_ok(h) /\ ~buying_power_heat_ok(h), "BUYING_POWER_LIMIT_EXCEEDED")

ZeroDteCapsHold(c) ==
    c.zero_dte_concurrent_spreads <= 2 /\ c.zero_dte_same_direction_spreads <= 1

concentration_passes(c) ==
    /\ c.concurrent_spreads_total <= 4
    /\ c.open_spreads_same_expiry <= 2
    /\ c.same_direction_spreads <= 2
    /\ c.aggregate_short_delta_abs <= 300
    /\ c.aggregate_gamma_notional_pct_equity <= 200
    /\ c.is_zero_dte => ZeroDteCapsHold(c)

gate_concentration(c) == Code(~concentration_passes(c), "CONCENTRATION_LIMIT_EXCEEDED")

\* ---- microstructure ----
MAX_BID_ASK_WIDTH == 10
MIN_BID == 5
MIN_OPEN_INTEREST == 100
MIN_TOP_OF_BOOK_SIZE == 5

\* width_pct_mid <= 15, with mid = (bid + ask) / 2.
liquidity_passes(l) ==
    /\ l.ask - l.bid <= MAX_BID_ASK_WIDTH
    /\ (l.ask - l.bid) * 200 <= 15 * (l.bid + l.ask)
    /\ l.bid >= MIN_BID
    /\ l.open_interest >= MIN_OPEN_INTEREST
    /\ l.top_of_book_size >= MIN_TOP_OF_BOOK_SIZE

gate_liquidity(l) == Code(~liquidity_passes(l), "LIQUIDITY_GATE_FAILED")

should_suspend(q) == q.rolling_avg_slippage > 5 \/ q.failed_fill_attempts > 3

gate_execution_quality(q) ==
    Code(should_suspend(q) /\ q.rearm_token = {}, "EXECUTION_QUALITY_SUSPENDED")

\* ---- halts and protection ----
gate_drawdown(d) ==
    IF d.active_tier = "NONE" THEN {}
    ELSE {"DRAWDOWN_HALT_ACTIVE"}
             \cup Code(requires_human_rearm(d) /\ ~d.human_rearm_granted,
                       "HUMAN_REARM_REQUIRED")

gate_protection(p) ==
    Code(~p.is_emergency_close /\ (~p.long_leg_confirmed \/ p.agent_managed_stop_only),
         "PROTECTION_HIERARCHY_VIOLATION")

gate_multi_leg(m) == Code(ShortLegFirst(m), "PROTECTION_HIERARCHY_VIOLATION")

\* ---- time ----
ENTRY_WINDOW_OPEN_CT_MIN == 9 * 60 + 45
ENTRY_WINDOW_CLOSE_CT_MIN == 13 * 60

gate_entry_window(minutes) ==
    Code(~(ENTRY_WINDOW_OPEN_CT_MIN <= minutes /\ minutes < ENTRY_WINDOW_CLOSE_CT_MIN),
         "ENTRY_WINDOW_CLOSED")

TrailingMinutes(event) ==
    CASE event \in {"CPI_RELEASE", "NFP_RELEASE"} -> 30
      [] event = "FED_CHAIR_SPEECH" -> 15
      [] OTHER -> 0

effective_block_end(b) == b.window_end + TrailingMinutes(b.event) * TicksPerMinute

blackout_is_active_as_of(b, now) == b.window_start <= now /\ now <= effective_block_end(b)

gate_event_blackout(blackouts, now) ==
    Code(\E b \in blackouts : blackout_is_active_as_of(b, now), "EVENT_BLACKOUT_ACTIVE")

\* ---- data ----
\* Mutant: only the whole seconds of the difference are converted.
AgeOfSeconds(age) == (age \div 1000000) * 1000

\* int(total_seconds() * 1000): cut to the millisecond, after a product of floats that falls
\* short of some whole numbers.  Of those next to a limit below, 1001 ms is one: it reads
\* as 1000.  Elsewhere the shortfall changes no comparison.
age_ms(age) == IF age = 1001000 THEN 1000 ELSE age \div 1000

\* freshness_reason returns the first violation; the limits are in milliseconds.
QuoteLimit(zero_dte_after_2pm_ct) == IF zero_dte_after_2pm_ct THEN 500 ELSE 1000

PriceStale(s, limit) ==
    age_ms(s.option_quote_age) > limit \/ age_ms(s.underlying_price_age) > 500

IvrStale(s) ==
    age_ms(s.vix_age) > 5000 \/ age_ms(s.iv_rank_age) > 10000 \/ ~s.iv_rank_inputs_fresh

\* is_future compares the instants themselves.
FromFuture(s) ==
    \E age \in {s.option_quote_age, s.underlying_price_age, s.vix_age, s.iv_rank_age} : age < 0

gate_data_freshness(s, zero_dte_after_2pm_ct) ==
    CASE FromFuture(s)                                    -> {"DATA_TIMESTAMP_INVALID"}
      [] PriceStale(s, QuoteLimit(zero_dte_after_2pm_ct)) -> {"PRICE_STALE"}
      [] IvrStale(s)                                      -> {"IVR_STALE"}
      [] OTHER                                            -> {}

\* 2% and 3 cents on the option mid, 0.25% on the underlying.
within_tolerance(p) ==
    LET option == Abs(p.broker_option_mid - p.secondary_option_mid)
        underlying == Abs(p.broker_underlying - p.secondary_underlying)
    IN  /\ option * 100 <= 2 * p.broker_option_mid /\ option <= 3
        /\ underlying * 400 <= p.broker_underlying

gate_reconciliation(p) == Code(~within_tolerance(p), "SECONDARY_FEED_MISMATCH")

CERTIFICATION_VALID_DAYS == 30

is_valid_for_live_as_of(f, now, require_spx) ==
    /\ f.status = "CERTIFIED"
    /\ now <= f.certified_at + CERTIFICATION_VALID_DAYS * TicksPerDay
    /\ f.pending_recertification_triggers = {}
    /\ f.within_thresholds
    /\ f.covers_xsp /\ f.symbol_mapping_consistent
    /\ require_spx => f.covers_spx

gate_feed_certification(f, now, require_spx) ==
    Code(~is_valid_for_live_as_of(f, now, require_spx), "SECONDARY_FEED_NOT_CERTIFIED")

-----------------------------------------------------------------------------
Collected(r) ==
    UNION {gate_account_mode(r.account),
           gate_instrument_permitted(r),
           gate_contract_metadata(r),
           gate_dte_match(r),
           gate_delta_band(r.candidate),
           gate_strategy_live(r.strategy_stage),
           gate_portfolio_heat(r.heat),
           gate_concentration(r.concentration),
           gate_liquidity(r.liquidity),
           gate_execution_quality(r.execution_quality),
           gate_drawdown(r.drawdown),
           gate_protection(r.protection),
           gate_multi_leg(r.multi_leg),
           gate_entry_window(ct_minutes_since_midnight(r)),
           gate_event_blackout(r.event_calendar, r.as_of.t),
           gate_data_freshness(r.data_snapshot, is_zero_dte_after_2pm_ct(r)),
           gate_reconciliation(r.reconciliation),
           gate_feed_certification(r.feed_certification, r.as_of.t,
                                   require_spx_feed_coverage(r))}

\* The three mints and the assembly, each with its own validator.
approve_heat(h) == risk_heat_ok(h) /\ buying_power_heat_ok(h)

to_live_feed_token(r) ==
    is_valid_for_live_as_of(r.feed_certification, r.as_of.t, require_spx_feed_coverage(r))

to_live_strategy_token(stage) == stage = "LIVE"

ValidatedTradeIntentValid(r) ==
    /\ approve_heat(r.heat)
    /\ to_live_feed_token(r)
    /\ to_live_strategy_token(r.strategy_stage)
    /\ short_delta_within_cap(r.candidate)

\* The codes of GatewayDecision: empty exactly when the request is approved.
validate(r) ==
    IF Collected(r) # {} THEN Collected(r)
    ELSE Code(~ValidatedTradeIntentValid(r), "INTERNAL_CONTRADICTION")

is_approved(r) == validate(r) = {}
=============================================================================
