------------------------------ MODULE Strategy ------------------------------
(***************************************************************************)
(* strategies/ and data/: a strategy reads the fixture records of a spread *)
(* and proposes at most one candidate.  It filters on its own bounds; it   *)
(* approves nothing.                                                       *)
(*                                                                         *)
(* A StrategyContext is a record: as_of, underlying, direction, the two    *)
(* selected legs [option_symbol, delta], contracts, and the fixture behind *)
(* the adapter.  A fixture's dictionaries are functions on the symbols they*)
(* hold; iv_rank is a function on the underlyings with a snapshot.         *)
(***************************************************************************)
EXTENDS OrderRouting

Symbols(ctx) == {ctx.short.option_symbol, ctx.long.option_symbol}

\* get_spread_metadata, once both single-leg lookups succeed.
SpreadOf(ctx) ==
    [short_contract |-> ctx.fixture.contracts[ctx.short.option_symbol],
     long_contract |-> ctx.fixture.contracts[ctx.long.option_symbol]]

\* collect_inputs, in the order of its reads.  A missing record is a
\* MarketDataUnavailableError; a pair the spread schema refuses is a ValidationError.
collect_inputs(ctx) ==
    CASE ctx.underlying \notin DOMAIN ctx.fixture.iv_rank -> "Unavailable"
      [] ~(Symbols(ctx) \subseteq DOMAIN ctx.fixture.contracts) -> "Unavailable"
      [] ~SpreadContractValid(SpreadOf(ctx)) -> "Raises"
      [] ~(Symbols(ctx) \subseteq ctx.fixture.liquidity) -> "Unavailable"
      [] ~(Symbols(ctx) \subseteq DOMAIN ctx.fixture.mids) -> "Unavailable"
      [] OTHER -> "Collected"

InputDte(ctx) == derived_dte([as_of |-> ctx.as_of, spread_contract |-> SpreadOf(ctx)])

\* compute_rationale_id: a hash over the strategy, the selection and the instant; the
\* other fields it covers are fields of the candidate.
compute_rationale_id(name, ctx) == <<name, ctx.short, ctx.long, ctx.as_of>>

ProposedLeg(ctx, side, selected) ==
    [side |-> side, option_type |-> SpreadOf(ctx).short_contract.option_type,
     strike |-> ctx.fixture.contracts[selected.option_symbol].strike,
     delta |-> selected.delta, contracts |-> ctx.contracts]

build_candidate(name, ctx) ==
    [underlying |-> ctx.underlying, direction |-> ctx.direction,
     short_leg |-> ProposedLeg(ctx, "SHORT", ctx.short),
     long_leg |-> ProposedLeg(ctx, "LONG", ctx.long),
     net_credit |-> ctx.fixture.mids[ctx.short.option_symbol]
                        - ctx.fixture.mids[ctx.long.option_symbol],
     multiplier |-> SpreadOf(ctx).short_contract.multiplier,
     dte |-> InputDte(ctx), rationale_id |-> compute_rationale_id(name, ctx)]

-----------------------------------------------------------------------------
CATASTROPHE_GATE == [iv_rank_min |-> 80, dte_min |-> 1, dte_max |-> 5]

\* Mutant: the strategy's window is closed at both ends, the gateway's is not.
WithinWindowThroughClose(ctx) ==
    LET minutes == ct_minutes_since_midnight(ctx)
    IN  ENTRY_WINDOW_OPEN_CT_MIN <= minutes /\ minutes <= ENTRY_WINDOW_CLOSE_CT_MIN

within_entry_window(ctx) ==
    LET minutes == ct_minutes_since_midnight(ctx)
    IN  ENTRY_WINDOW_OPEN_CT_MIN <= minutes /\ minutes < ENTRY_WINDOW_CLOSE_CT_MIN

\* CatastrophePremiumCapture's own filters, after its inputs are collected.
Filtered(ctx) ==
    \/ ~within_entry_window(ctx)
    \/ ctx.fixture.iv_rank[ctx.underlying] < CATASTROPHE_GATE.iv_rank_min
    \/ InputDte(ctx) < CATASTROPHE_GATE.dte_min
    \/ InputDte(ctx) > CATASTROPHE_GATE.dte_max

\* What generate does: it raises MarketDataUnavailableError ("Unavailable") or a
\* ValidationError ("Raises"), or returns no proposal ("None") or one ("Proposal").
\* ZeroDteTimeDecay reads nothing and proposes nothing.
generate(name, ctx) ==
    CASE name = "zero_dte_time_decay" -> "None"
      [] collect_inputs(ctx) # "Collected" -> collect_inputs(ctx)
      [] Filtered(ctx) -> "None"
      [] ~CandidateValid(build_candidate(name, ctx)) -> "Raises"
      [] OTHER -> "Proposal"
=============================================================================
