--------------------------- MODULE GatewayRequest ---------------------------
(***************************************************************************)
(* The input of one pre-trade validation (gateway/request.py): a candidate *)
(* spread and the safety state around it.  The schema validators decide    *)
(* which requests can exist at all; everything else is left to the gates.  *)
(*                                                                         *)
(* Units: money and prices in cents, deltas in thousandths, percentages in *)
(* hundredths, times in quarter seconds.  A percentage limit is compared   *)
(* by cross-multiplication, which is what the Decimal quotient decides     *)
(* (28 digits are exact for dollar amounts at these limits).  A date-time  *)
(* whose calendar date matters carries its own UTC offset in minutes:      *)
(* AwareDatetime keeps the offset it was given.  The four timestamps of    *)
(* the market data are given as what is read of them, how long before      *)
(* as_of they are, in microseconds (the resolution of a datetime; negative *)
(* for a timestamp after as_of).  An optional value is a set of at most    *)
(* one element.                                                            *)
(***************************************************************************)
EXTENDS Integers, FiniteSets

CONSTANTS DstStart, DstEnd   \* America/Chicago is on daylight time from one to the other

ASSUME DstAssumption == DstStart \in Int /\ DstEnd \in Int

TicksPerMinute == 240
TicksPerDay == 1440 * TicksPerMinute

Abs(n) == IF n < 0 THEN -n ELSE n

\* datetime.date(): the calendar date at the date-time's own offset.
DateOf(dt) == (dt.t + dt.off * TicksPerMinute) \div TicksPerDay

-----------------------------------------------------------------------------
\* SpreadLeg: the sign of delta goes with the option type.
SpreadLegValid(leg) ==
    /\ leg.strike > 0 /\ leg.contracts > 0
    /\ leg.option_type = "PUT" => leg.delta <= 0
    /\ leg.option_type = "CALL" => leg.delta >= 0

spread_width(c) == Abs(c.short_leg.strike - c.long_leg.strike)

max_loss(c) == (spread_width(c) - c.net_credit) * c.multiplier * c.short_leg.contracts

\* CandidateTradeIntent._structurally_defined_risk.
CandidateValid(c) ==
    LET short == c.short_leg  long == c.long_leg IN
    /\ SpreadLegValid(short) /\ SpreadLegValid(long)
    /\ short.side = "SHORT" /\ long.side = "LONG"
    /\ c.net_credit > 0 /\ c.multiplier > 0 /\ c.dte >= 0
    /\ short.option_type = long.option_type
    /\ short.contracts = long.contracts
    /\ short.option_type = IF c.direction = "PUT_CREDIT" THEN "PUT" ELSE "CALL"
    /\ c.net_credit < spread_width(c)
    /\ IF c.direction = "PUT_CREDIT" THEN long.strike < short.strike
                                     ELSE long.strike > short.strike

AccountValid(a) ==
    /\ a.net_liquidating_value > 0
    /\ a.trailing_high_water_value >= a.net_liquidating_value

HeatValid(h) ==
    /\ h.sum_defined_max_loss >= 0 /\ h.broker_margin_requirement >= 0
    /\ h.net_liquidating_value > 0

\* AllowedUnderlyingPolicy: SPX is a human decision, and a human decision has a name.
PolicyValid(p) ==
    /\ p.source = "HUMAN_APPROVED_CONFIG" => p.approved_by # {}
    /\ p.spx_phase_2_enabled => p.source = "HUMAN_APPROVED_CONFIG"
    /\ \A e \in p.expires_at : e > p.effective_at

\* The ladder: tier, the action it triggers, the re-arm it needs.
TierRules ==
    {<<"DAILY", "HALT_NEW_ENTRIES_REMAINDER_OF_DAY", "AUTO_NEXT_SESSION">>,
     <<"WEEKLY", "HALT_NEW_ENTRIES_AND_MANAGE_EXITS", "HUMAN_ONLY">>,
     <<"TRAILING", "SYSTEM_HALT_AND_MANAGED_FLATTEN", "HUMAN_ONLY_AFTER_REVIEW">>}

requires_human_rearm(d) == d.rearm_mode \in {"HUMAN_ONLY", "HUMAN_ONLY_AFTER_REVIEW"}

\* DrawdownHaltState._action_and_rearm_match_tier.
DrawdownValid(d) ==
    \/ /\ d.active_tier = "NONE" /\ d.triggered_action = "NONE"
       /\ d.rearm_mode = "NONE" /\ ~d.human_rearm_granted
    \/ /\ <<d.active_tier, d.triggered_action, d.rearm_mode>> \in TierRules
       /\ d.human_rearm_granted => requires_human_rearm(d)

ContractValid(c) ==
    /\ c.multiplier > 0 /\ c.strike > 0
    /\ c.last_trading_time <= c.expiration_time.t
    /\ DateOf(c.expiration_date) = DateOf(c.expiration_time)

\* SpreadContractMetadata._both_legs_consistent; two date-times are equal as instants.
SpreadContractValid(s) ==
    LET sc == s.short_contract  lc == s.long_contract IN
    /\ ContractValid(sc) /\ ContractValid(lc)
    /\ sc.underlying = lc.underlying /\ sc.option_type = lc.option_type
    /\ sc.expiration_time.t = lc.expiration_time.t
    /\ sc.expiration_date.t = lc.expiration_date.t
    /\ sc.last_trading_time = lc.last_trading_time

\* An inverted market is never data; a re-arm token always carries a finished review.
LiquidityValid(l) == l.bid >= 0 /\ l.ask > 0 /\ l.ask >= l.bid

ExecutionQualityValid(q) == \A token \in q.rearm_token : token.broker_fill_report_reviewed

ProtectionValid(p) ==
    ~(p.agent_managed_stop_only /\ ~p.long_leg_confirmed /\ ~p.is_emergency_close)

ShortLegFirst(m) == ~m.broker_confirms_atomic_combo /\ m.legging /\ ~m.long_leg_first

FeedValid(f) == f.pending_recertification_triggers # {} => f.status # "CERTIFIED"

CalendarValid(blackouts) == \A b \in blackouts : b.window_start <= b.window_end

PricesValid(p) ==
    /\ p.broker_option_mid > 0 /\ p.secondary_option_mid > 0
    /\ p.broker_underlying > 0 /\ p.secondary_underlying > 0

\* The fields the entry decision computes with hold numbers.
RequestTyped(r) ==
    LET c == r.candidate
        legs == {c.short_leg, c.long_leg}
        contracts == {r.spread_contract.short_contract, r.spread_contract.long_contract}
    IN  /\ r.as_of.t \in Int /\ r.as_of.off \in Int
        /\ c.net_credit \in Int /\ c.multiplier \in Int
        /\ \A leg \in legs : leg.strike \in Int /\ leg.contracts \in Int
        /\ \A k \in contracts : k.last_trading_time \in Int /\ k.expiration_time.t \in Int
        /\ \A b \in r.event_calendar : b.window_start \in Int /\ b.window_end \in Int
        /\ r.data_snapshot.option_quote_age \in Int
        /\ r.data_snapshot.underlying_price_age \in Int

\* GatewayRequest can be constructed: every part validates and _cross_validate holds.
RequestValid(r) ==
    /\ RequestTyped(r)
    /\ CandidateValid(r.candidate)             /\ AccountValid(r.account)
    /\ HeatValid(r.heat)                       /\ DrawdownValid(r.drawdown)
    /\ SpreadContractValid(r.spread_contract)  /\ PolicyValid(r.underlying_policy)
    /\ LiquidityValid(r.liquidity)             /\ ExecutionQualityValid(r.execution_quality)
    /\ ProtectionValid(r.protection)           /\ ~ShortLegFirst(r.multi_leg)
    /\ FeedValid(r.feed_certification)         /\ CalendarValid(r.event_calendar)
    /\ PricesValid(r.reconciliation)
    /\ r.instrument = r.candidate.underlying

-----------------------------------------------------------------------------
\* The derived properties of a request: none of them is an input.

\* Mutant: the whole days between two instants, instead of the days between two dates.
DaysElapsed(r) == (r.spread_contract.short_contract.expiration_time.t - r.as_of.t) \div TicksPerDay

derived_dte(r) == DateOf(r.spread_contract.short_contract.expiration_time) - DateOf(r.as_of)

ct_minutes_since_midnight(r) ==
    LET offset == IF DstStart <= r.as_of.t /\ r.as_of.t < DstEnd THEN -300 ELSE -360
    IN  ((r.as_of.t + offset * TicksPerMinute) % TicksPerDay) \div TicksPerMinute

require_spx_feed_coverage(r) == r.candidate.underlying = "SPX"

AFTER_2PM_CT_MIN == 14 * 60

is_zero_dte_after_2pm_ct(r) ==
    derived_dte(r) = 0 /\ ct_minutes_since_midnight(r) >= AFTER_2PM_CT_MIN

dte_matches_claim(r) == r.candidate.dte = derived_dte(r)
=============================================================================
