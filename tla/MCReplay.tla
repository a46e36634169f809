------------------------------ MODULE MCReplay ------------------------------
(* Small suites for Replay.  Scenarios are made at different instants, so that each has a
   ticket of its own; one that is replayed twice has the same ticket both times. *)
EXTENDS Replay, SampleRequests

Now == At(Winter, 960)

Fixture(now, dte, iv) ==
    LET day == now \div TicksPerDay + dte
    IN  [iv_rank |-> [u \in {"XSP"} |-> iv],
         contracts |-> [s \in {"S", "L"} |-> Contract(IF s = "S" THEN 45000 ELSE 44900, day)],
         liquidity |-> {"S", "L"},
         mids |-> [s \in {"S", "L"} |-> IF s = "S" THEN 100 ELSE 50]]

Context(now, dte, iv) ==
    [as_of |-> Utc(now), underlying |-> "XSP", direction |-> "PUT_CREDIT",
     short |-> [option_symbol |-> "S", delta |-> -100],
     long |-> [option_symbol |-> "L", delta |-> -50], contracts |-> 1,
     fixture |-> Fixture(now, dte, iv)]

Quiet ==
    [route_mode |-> "NORMAL", policy_state |-> "NORMAL", broker_native_combo_available |-> TRUE,
     deterministic_market_order_allowed |-> FALSE, requested_order_type |-> "NONE"]

\* The n-th scenario of an instance, on broker b.
Make(n, b, expected) ==
    [strategy |-> "catastrophe_premium_capture", ctx |-> Context(Now + n, 1, 80),
     safety |-> Sound(Now + n, 1), routing_state |-> Quiet, broker |-> b, limit_price |-> 50,
     slippage_per_contract |-> 1, settlement_value_per_spread |-> {40},
     expected_outcome |-> expected, is_failure_drill |-> b # "fill",
     expect_protection_hazard |-> FALSE, resubmit_attempts |-> 0]

MCProfile == [b \in Brokers |-> b]
MCPaperConfig ==
    [submission_enabled |-> TRUE, paper_submit_enabled |-> TRUE, paper_max_contracts |-> 1,
     paper_limit_only |-> TRUE, paper_require_human_confirm |-> TRUE,
     paper_allowed_underlyings |-> {"XSP"}]

Filled == Make(1, "fill", "FILLED")
Drilled == [Make(2, "dupack", "FILLED") EXCEPT !.resubmit_attempts = 2]
Partial == [Make(3, "partial", "PARTIAL_FILL") EXCEPT !.ctx.contracts = 2, !.resubmit_attempts = 1]
Unfilled == [Make(4, "partial", "WORKING") EXCEPT !.settlement_value_per_spread = {}]
BrokerFailures ==
    {Make(5, "reject", "BROKER_REJECTED"), Make(6, "disconnect", "BROKER_DISCONNECTED"),
     Make(7, "slow", "BROKER_TIMEOUT")}
Unproposed ==
    {[Filled EXCEPT !.strategy = "zero_dte_time_decay"], [Filled EXCEPT !.ctx.fixture.liquidity = {"S"}],
     [Filled EXCEPT !.ctx = Context(Now, 1, 79)],
     [Filled EXCEPT !.ctx = Context(Now, 0, 80), !.safety = Sound(Now, 0)]}
Unapproved ==
    {[Filled EXCEPT !.safety.instrument = "SPX"],
     [Filled EXCEPT !.safety.protection = Guard(FALSE, FALSE, FALSE), !.expect_protection_hazard = TRUE],
     [Filled EXCEPT !.routing_state.requested_order_type = "MARKET"],
     [Filled EXCEPT !.routing_state.policy_state = "BROKEN_SPREAD", !.routing_state.route_mode = "BROKEN_SPREAD",
                    !.routing_state.deterministic_market_order_allowed = TRUE]}
AtTheClose ==
    {[Filled EXCEPT !.ctx = Context(t, 1, 80), !.safety = Sound(t, 1)] :
        t \in {At(Winter, 945), At(Winter, 1140) - 1, At(Winter, 1140)}}
Raising ==
    {[Filled EXCEPT !.ctx.fixture.mids = [s \in {"S", "L"} |-> 50]],
     [Filled EXCEPT !.ctx.fixture.contracts["L"] = Contract(44900, Winter + 2)]}
\* Two multipliers in one spread: proposed, and rejected by the gateway.
Mixed ==
    [Filled EXCEPT !.ctx.fixture.contracts["L"].multiplier = 10,
                   !.safety.spread_contract.long_contract.multiplier = 10]
Remote == [Make(8, "remote", "FILLED") EXCEPT !.resubmit_attempts = 1]

Varied ==
    {Filled, Drilled, Partial, Unfilled} \cup BrokerFailures \cup Unproposed \cup Unapproved \cup AtTheClose \cup Raising
        \cup {Mixed}

\* Any scenario before or after one of these.
Kinds == {Filled, Drilled, Partial, Make(7, "slow", "BROKER_TIMEOUT")}
Pairs == {<<a, b>> : a \in Varied, b \in Kinds} \cup {<<a, b>> : a \in Kinds, b \in Varied}
Again == {<<Filled, Make(7, "slow", "BROKER_TIMEOUT")>>, <<Drilled, Partial>>, <<Remote>>}

\* Results in a row, each a gain or a loss, and shorter rows with an unsupported one.
Settled(n, v) == [Make(n, "fill", "FILLED") EXCEPT !.settlement_value_per_spread = v]
Equities ==
    {[i \in 1..4 |-> Settled(i, f[i])] : f \in [1..4 -> {{0}, {60}}]}
        \cup {[i \in 1..3 |-> Settled(i, f[i])] : f \in [1..3 -> {{}, {0}, {60}}]}

\* Pairs of scenarios, falls of the running total, and two runs on one store.
MCSessions ==
    {<<s>> : s \in Pairs \cup Equities} \cup {<<s, s>> : s \in Again} \cup {<<<<Remote, Filled>>, <<Filled>>>>}

AllScenarios ==
    Varied \cup {Remote} \cup {Settled(n, v) : n \in 1..4, v \in {{}, {0}, {60}}}
Ticketed ==
    {sc \in AllScenarios : /\ generate(sc.strategy, sc.ctx) = "Proposal"
                           /\ mint_order_ticket(RequestOf(sc).candidate, sc.routing_state)}
MCTickets == {TicketOf(sc) : sc \in Ticketed}
MCOrderType == [t \in MCTickets |-> t.order_type]
MCContracts == [t \in MCTickets |-> t.candidate.short_leg.contracts]
MCUnderlying == [t \in MCTickets |-> t.candidate.underlying]
=============================================================================
