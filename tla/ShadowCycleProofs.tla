-------------------------- MODULE ShadowCycleProofs --------------------------
(***************************************************************************)
(* Machine-checked proofs about the shadow cycle, for every list of cycles *)
(* with any environments, routing states and requests: what the gateway's  *)
(* approval means, that the store and the heartbeat tell what happened, and*)
(* that every request gets its verdict in turn.                            *)
(***************************************************************************)
EXTENDS ShadowCycle, Induction, SequenceTheorems, FiniteSetTheorems, TLAPS

-----------------------------------------------------------------------------
(* The gateway and the configuration. *)

\* Only validate itself knows the code INTERNAL_CONTRADICTION; no gate returns it.
LEMMA GatesKnowNoContradiction == \A r : "INTERNAL_CONTRADICTION" \notin Collected(r)
<1> TAKE r
<1> DEFINE Silent(gate) == "INTERNAL_CONTRADICTION" \notin gate
<1>1. \A fires, code : code # "INTERNAL_CONTRADICTION" => Silent(Code(fires, code))
  BY DEF Code
<1>2. /\ Silent(gate_account_mode(r.account)) /\ Silent(gate_instrument_permitted(r))
      /\ Silent(gate_contract_metadata(r)) /\ Silent(gate_dte_match(r))
      /\ Silent(gate_delta_band(r.candidate)) /\ Silent(gate_strategy_live(r.strategy_stage))
  BY <1>1 DEF gate_account_mode, gate_instrument_permitted, gate_contract_metadata,
              gate_dte_match, gate_delta_band, gate_strategy_live
<1>3. /\ Silent(gate_portfolio_heat(r.heat)) /\ Silent(gate_concentration(r.concentration))
      /\ Silent(gate_liquidity(r.liquidity))
      /\ Silent(gate_execution_quality(r.execution_quality))
      /\ Silent(gate_drawdown(r.drawdown)) /\ Silent(gate_protection(r.protection))
      /\ Silent(gate_multi_leg(r.multi_leg))
  BY <1>1 DEF gate_portfolio_heat, gate_concentration, gate_liquidity, gate_execution_quality,
              gate_drawdown, gate_protection, gate_multi_leg
<1>4. /\ Silent(gate_entry_window(ct_minutes_since_midnight(r)))
      /\ Silent(gate_event_blackout(r.event_calendar, r.as_of.t))
      /\ Silent(gate_reconciliation(r.reconciliation))
      /\ Silent(gate_feed_certification(r.feed_certification, r.as_of.t,
                                        require_spx_feed_coverage(r)))
  BY <1>1 DEF gate_entry_window, gate_event_blackout, gate_reconciliation,
              gate_feed_certification
<1>5. Silent(gate_data_freshness(r.data_snapshot, is_zero_dte_after_2pm_ct(r)))
  BY DEF gate_data_freshness
<1> QED
  BY <1>2, <1>3, <1>4, <1>5 DEF Collected

\* The gates and the mints agree: what no gate refuses, every mint accepts.
LEMMA CleanMints ==
    ASSUME NEW r, Collected(r) = {} PROVE ValidatedTradeIntentValid(r)
<1>1. /\ gate_portfolio_heat(r.heat) = {}
      /\ gate_feed_certification(r.feed_certification, r.as_of.t,
                                 require_spx_feed_coverage(r)) = {}
      /\ gate_strategy_live(r.strategy_stage) = {}
      /\ gate_delta_band(r.candidate) = {}
  BY DEF Collected
<1> QED
  BY <1>1 DEF gate_portfolio_heat, gate_feed_certification, gate_strategy_live, gate_delta_band,
         Code, ValidatedTradeIntentValid, approve_heat, to_live_feed_token, to_live_strategy_token

\* So validate never answers with INTERNAL_CONTRADICTION.
LEMMA NoContradiction == \A r : "INTERNAL_CONTRADICTION" \notin validate(r)
BY GatesKnowNoContradiction, CleanMints DEF validate, Code

\* Approved is what no gate refuses.
LEMMA ApprovedCollected == ASSUME NEW r, is_approved(r) PROVE Collected(r) = {}
BY DEF is_approved, validate

\* Products of positive numbers are positive.
LEMMA PositiveProduct == \A a, b \in Nat \ {0} : a * b \in Nat \ {0}
OBVIOUS

\* What approval by the gateway means for a request the schemas accept.
LEMMA ApprovalMeansTradable ==
    ASSUME NEW r, RequestValid(r), is_approved(r) PROVE Tradable(r)
<1> DEFINE now == r.as_of.t
           c == r.candidate
           short == r.spread_contract.short_contract
           long == r.spread_contract.long_contract
           quote == r.data_snapshot.option_quote_age
           price == r.data_snapshot.underlying_price_age
<1>0. RequestTyped(r)
  BY DEF RequestValid
<1>1. /\ gate_contract_metadata(r) = {} /\ gate_drawdown(r.drawdown) = {}
      /\ gate_entry_window(ct_minutes_since_midnight(r)) = {}
      /\ gate_event_blackout(r.event_calendar, now) = {}
      /\ gate_data_freshness(r.data_snapshot, is_zero_dte_after_2pm_ct(r)) = {}
  BY ApprovedCollected DEF Collected
<1>2. \A k \in {short, long} : now <= k.last_trading_time /\ now <= k.expiration_time.t
  <2>1. \A k \in {short, long} : now <= k.last_trading_time
    BY <1>1 DEF gate_contract_metadata, Code, contract_is_tradable_as_of
  <2>2. \A k \in {short, long} : k.last_trading_time <= k.expiration_time.t
    BY DEF RequestValid, SpreadContractValid, ContractValid
  <2> QED
    BY <1>0, <2>1, <2>2 DEF RequestTyped
<1>3. (short.strike - long.strike) * (IF short.option_type = "PUT" THEN 1 ELSE -1) > c.net_credit
  <2>1. /\ short.option_type = c.short_leg.option_type
        /\ short.strike = c.short_leg.strike /\ long.strike = c.long_leg.strike
    BY <1>1 DEF gate_contract_metadata, Code, matches_candidate, LegMatches
  <2>2. CandidateValid(c) /\ c.short_leg.strike \in Int /\ c.long_leg.strike \in Int
        /\ c.net_credit \in Int
    BY <1>0 DEF RequestValid, RequestTyped
  <2> QED
    BY <2>1, <2>2 DEF CandidateValid, spread_width, Abs
<1>4. max_loss(c) > 0
  <2>1. CandidateValid(c) /\ c.short_leg.strike \in Int /\ c.long_leg.strike \in Int
        /\ c.net_credit \in Int /\ c.multiplier \in Int /\ c.short_leg.contracts \in Int
    BY <1>0 DEF RequestValid, RequestTyped
  <2>2. /\ spread_width(c) - c.net_credit \in Nat \ {0} /\ c.multiplier \in Nat \ {0}
        /\ c.short_leg.contracts \in Nat \ {0}
    BY <2>1 DEF CandidateValid, SpreadLegValid, spread_width, Abs
  <2>3. (spread_width(c) - c.net_credit) * c.multiplier \in Nat \ {0}
    BY <2>2, PositiveProduct
  <2>4. max_loss(c) \in Nat \ {0}
    BY <2>2, <2>3, PositiveProduct DEF max_loss
  <2> QED
    BY <2>4
<1>5. \A b \in r.event_calendar : now < b.window_start \/ now > b.window_end
  <2> SUFFICES ASSUME NEW b \in r.event_calendar PROVE now < b.window_start \/ now > b.window_end
    OBVIOUS
  <2>1. ~(b.window_start <= now /\ now <= b.window_end + TrailingMinutes(b.event) * TicksPerMinute)
    BY <1>1 DEF gate_event_blackout, Code, blackout_is_active_as_of, effective_block_end
  <2>2. TrailingMinutes(b.event) \in Nat
    BY DEF TrailingMinutes
  <2>3. b.window_start \in Int /\ b.window_end \in Int /\ now \in Int
    BY <1>0 DEF RequestTyped
  <2> QED
    BY <2>1, <2>2, <2>3 DEF TicksPerMinute
<1>6. r.drawdown.active_tier = "NONE"
  BY <1>1 DEF gate_drawdown, Code
<1>7. /\ 0 <= quote /\ quote <= 1001000
      /\ 0 <= price /\ price < 501000
  <2> DEFINE s == r.data_snapshot
  <2>1. quote \in Int /\ price \in Int
    BY <1>0 DEF RequestTyped
  <2>2. ~FromFuture(s)
    BY <1>1 DEF gate_data_freshness
  <2>3. ~PriceStale(s, QuoteLimit(is_zero_dte_after_2pm_ct(r)))
    BY <1>1, <2>2 DEF gate_data_freshness
  <2>4. QuoteLimit(is_zero_dte_after_2pm_ct(r)) \in {500, 1000}
    BY DEF QuoteLimit
  <2>5. quote >= 0 /\ price >= 0
    BY <2>1, <2>2 DEF FromFuture
  <2>6. \A age \in Int : age_ms(age) \in Int
    BY DEF age_ms
  <2>7. age_ms(quote) <= 1000 /\ age_ms(price) <= 500
    BY <2>1, <2>3, <2>4, <2>6 DEF PriceStale
  <2> QED
    BY <2>1, <2>5, <2>7 DEF age_ms
<1>8. 585 * TicksPerMinute <= ChicagoClock(now) /\ ChicagoClock(now) < 780 * TicksPerMinute
  <2>1. /\ 585 <= ct_minutes_since_midnight(r) /\ ct_minutes_since_midnight(r) < 780
    BY <1>1 DEF gate_entry_window, Code, ENTRY_WINDOW_OPEN_CT_MIN, ENTRY_WINDOW_CLOSE_CT_MIN
  <2>2. now \in Int
    BY <1>0 DEF RequestTyped
  <2> DEFINE offset == IF DstStart <= now /\ now < DstEnd THEN 300 ELSE 360
             chicago == (now - offset * 240) % 345600
  <2>3. ct_minutes_since_midnight(r) = chicago \div 240
    BY <2>2 DEF ct_minutes_since_midnight, TicksPerDay, TicksPerMinute
  <2>4. chicago \in Int
    BY <2>2
  <2>5. 585 * 240 <= chicago /\ chicago < 780 * 240
    <3> HIDE DEF chicago
    <3> QED
      BY <2>1, <2>3, <2>4
  <2> QED
    BY <2>5 DEF ChicagoClock, ChicagoTime, TicksPerDay, TicksPerMinute
<1> QED
  BY <1>2, <1>3, <1>4, <1>5, <1>6, <1>7, <1>8 DEF Tradable

\* Inside the entry window the date is the Chicago date at every offset from UTC-12 to UTC+5.
LEMMA ChicagoDate ==
    ASSUME NEW r, Tradable(r), r.as_of.t \in Int,
           r.as_of.off \in Int, -720 <= r.as_of.off, r.as_of.off <= 300
    PROVE  DateOf(r.as_of) = ChicagoDay(r.as_of.t)
<1> DEFINE now == r.as_of.t
           behind == IF DstStart <= now /\ now < DstEnd THEN 300 ELSE 360
           wall == now - behind * 240
           day == wall \div 345600
           rest == wall % 345600
           off == r.as_of.off
           shift == (off + behind) * 240
<1>1. behind \in {300, 360} /\ wall \in Int
  OBVIOUS
<1>2. 585 * 240 <= rest /\ rest < 780 * 240
  BY DEF Tradable, ChicagoClock, ChicagoTime, TicksPerDay, TicksPerMinute
<1>3. shift \in Int /\ -420 * 240 <= shift /\ shift <= 660 * 240
  <2>1. off \in Int /\ -720 <= off /\ off <= 300
    OBVIOUS
  <2> HIDE DEF behind, off
  <2> QED
    BY <1>1, <2>1
<1>4. ChicagoDay(now) = day
  BY DEF ChicagoDay, ChicagoTime, TicksPerDay, TicksPerMinute
<1>5. day \in Int /\ rest \in Int /\ wall = 345600 * day + rest
  <2> HIDE DEF wall
  <2> QED
    BY <1>1
<1>6. now + off * 240 = 345600 * day + (rest + shift)
  <2>1. now + off * 240 = wall + shift
    <3>1. now \in Int /\ off \in Int
      OBVIOUS
    <3> HIDE DEF behind, now, off
    <3> QED
      BY <1>1, <3>1
  <2> HIDE DEF wall, day, rest, shift
  <2> QED
    BY <1>3, <1>5, <2>1
<1>7. (345600 * day + (rest + shift)) \div 345600 = day
  <2> HIDE DEF day, rest, shift
  <2> QED
    BY <1>2, <1>3, <1>5
<1> QED
  BY <1>4, <1>6, <1>7 DEF DateOf, TicksPerDay, TicksPerMinute

\* What from_env lets through arms submission on a paper broker only.
LEMMA ArmedConfig ==
    ASSUME NEW e, ConfigValid(e), submission_armed(e)
    PROVE  e["BROKER_MODE"] = "paper" /\ e["APP_ENV"] \in {"local", "vm_paper"}
<1>1. e["APP_ENV"] \in AppEnv /\ EnvInvariants(e) /\ e["BROKER_MODE"] = "paper"
  BY DEF ConfigValid, Parses, submission_armed
<1>2. e["APP_ENV"] # "vm_shadow" /\ e["APP_ENV"] # "live_readonly"
  BY <1>1 DEF EnvInvariants
<1> QED
  BY <1>1, <1>2 DEF AppEnv

-----------------------------------------------------------------------------
(* The inductive invariant. *)

\* The requests any of the cycles may be given.
Requests == UNION {UNION {Elements(c.batch) : c \in Elements(s)} : s \in Sessions}

\* Where the process is, and what its environment must have passed to get there.
Place ==
    /\ session \in Sessions /\ cycles \in 1..Len(session)
    /\ pc \in {"Load", "Enter", "Next", "Decide", "Ticket"} \cup Ended
    /\ todo \in Seq(Requests) /\ current \subseteq Requests
    /\ pc \in {"Decide", "Ticket"} => \E r \in Requests : current = {r}
    /\ pc \notin {"Load", "Refused", "Raised"} => ConfigValid(env)
    /\ pc \in {"Next", "Decide", "Ticket", "Done"} => require_shadow_safe(env)

\* What every row says.
RowsSound ==
    \A i \in DOMAIN trail :
        /\ trail[i].request \subseteq Requests
        /\ trail[i].recorded_at \in 1..cycles
        /\ "INTERNAL_CONTRADICTION" \notin trail[i].codes
        /\ trail[i].type = "VALIDATED_TRADE_INTENT" =>
               \A r \in trail[i].request : is_approved(r)

\* The last rows of the running cycle, step by step.
LastRows ==
    LET n == Len(trail)
        Is(i, type) == /\ i > 0 /\ trail[i].type = type
                       /\ trail[i].request = current /\ trail[i].recorded_at = cycles
    IN  /\ pc \in {"Load", "Enter"} => \A i \in DOMAIN trail : trail[i].recorded_at < cycles
        /\ pc = "Next" => n > 0 /\ trail[n].type # "GATEWAY_REQUEST"
        /\ pc = "Decide" => Is(n, "GATEWAY_REQUEST")
        /\ pc = "Ticket" => Is(n, "VALIDATED_TRADE_INTENT") /\ Is(n - 1, "GATEWAY_REQUEST")

\* The counters, and the cycle the heartbeat is about: over, or this one at its end.
Counted ==
    /\ approved = Cardinality(RowsOf("ORDER_TICKET", cycles))
    /\ rejected = Cardinality(RowsOf("REJECT", cycles))
    /\ \A h \in heartbeat : h.cycle \in 1..cycles /\ (h.cycle = cycles => pc = "Done")

ShadowInv ==
    /\ IsList(trail) /\ Place /\ RowsSound /\ LastRows /\ OutcomeFollows
    /\ Counted /\ HeartbeatTruthful

-----------------------------------------------------------------------------
(* Lists and rows. *)

\* The requests of a session's cycles are requests the schemas accept, and at most one
\* routing state comes with them.
LEMMA SessionCycle ==
    ASSUME session \in Sessions, NEW i \in 1..Len(session)
    PROVE  /\ session[i].batch \in Seq(Requests)
           /\ \A s, t \in session[i].routing : s = t
           /\ \A s \in session[i].routing : RoutingValid(s)
<1>1. DOMAIN session = 1..Len(session)
  BY ShadowAssumption, LenProperties DEF IsList
<1>2. session[i] \in Elements(session)
  BY <1>1 DEF Elements
<1>3. session[i].batch \in Seq(Elements(session[i].batch))
  BY <1>2, ShadowAssumption DEF IsList
<1>4. Elements(session[i].batch) \subseteq Requests
  BY <1>2 DEF Requests
<1>5. session[i].batch \in Seq(Requests)
  BY <1>3, <1>4, SeqMonotonic
<1> QED
  BY <1>2, <1>5, ShadowAssumption

\* Every request can be constructed.
LEMMA RequestsValid == \A r \in Requests : RequestValid(r)
BY ShadowAssumption DEF Requests

\* One more row, the others as they were.
LEMMA TrailAppend ==
    ASSUME IsList(trail), NEW row, trail' = Append(trail, row)
    PROVE  /\ IsList(trail)' /\ Len(trail) \in Nat /\ Len(trail') = Len(trail) + 1
           /\ DOMAIN trail = 1..Len(trail) /\ DOMAIN trail' = 1..(Len(trail) + 1)
           /\ \A i \in 1..Len(trail) : trail'[i] = trail[i]
           /\ trail'[Len(trail) + 1] = row
<1> DEFINE S == Elements(trail) \cup {row}
<1>1. trail \in Seq(S)
  BY SeqMonotonic DEF IsList
<1> HIDE DEF S
<1>2. /\ Len(trail) \in Nat /\ DOMAIN trail = 1..Len(trail)
  BY <1>1, LenProperties
<1>3. row \in S
  BY DEF S
<1>4. /\ trail' \in Seq(S) /\ Len(trail') = Len(trail) + 1
      /\ \A i \in 1..Len(trail) : trail'[i] = trail[i]
      /\ trail'[Len(trail) + 1] = row
  BY <1>1, <1>3, AppendProperties
<1>5. DOMAIN trail' = 1..(Len(trail) + 1)
  BY <1>4, LenProperties
<1>6. S = Elements(trail)'
  BY <1>2, <1>4, <1>5 DEF S, Elements
<1> QED
  BY <1>2, <1>4, <1>5, <1>6 DEF IsList

\* The length of the trail, and its rows of a type and a cycle.
LEMMA TrailRows ==
    ASSUME IsList(trail), NEW t, NEW c
    PROVE  /\ Len(trail) \in Nat /\ DOMAIN trail = 1..Len(trail)
           /\ IsFiniteSet(RowsOf(t, c)) /\ Cardinality(RowsOf(t, c)) \in Nat
<1>1. Len(trail) \in Nat /\ DOMAIN trail = 1..Len(trail)
  BY LenProperties DEF IsList
<1>2. IsFiniteSet(1..Len(trail))
  BY <1>1, FS_Interval
<1>3. IsFiniteSet(RowsOf(t, c))
  BY <1>1, <1>2, FS_Subset DEF RowsOf
<1> QED
  BY <1>1, <1>3, FS_CardinalityType

\* An append counts among the rows of its own type and cycle only.
LEMMA RowsAppend ==
    ASSUME IsList(trail), NEW row, trail' = Append(trail, row), NEW t, NEW c
    PROVE  /\ row.type = t /\ row.recorded_at = c =>
                  Cardinality(RowsOf(t, c)') = Cardinality(RowsOf(t, c)) + 1
           /\ ~(row.type = t /\ row.recorded_at = c) => RowsOf(t, c)' = RowsOf(t, c)
<1>1. /\ Len(trail) \in Nat /\ Len(trail') = Len(trail) + 1
      /\ DOMAIN trail = 1..Len(trail) /\ DOMAIN trail' = 1..(Len(trail) + 1)
      /\ \A i \in 1..Len(trail) : trail'[i] = trail[i]
      /\ trail'[Len(trail) + 1] = row
  BY TrailAppend
<1>2. CASE row.type = t /\ row.recorded_at = c
  <2>1. RowsOf(t, c)' = RowsOf(t, c) \cup {Len(trail) + 1} /\ Len(trail) + 1 \notin RowsOf(t, c)
    BY <1>1, <1>2 DEF RowsOf
  <2>2. IsFiniteSet(RowsOf(t, c))
    BY TrailRows
  <2> QED
    BY <1>2, <2>1, <2>2, FS_AddElement
<1>3. CASE ~(row.type = t /\ row.recorded_at = c)
  <2>1. RowsOf(t, c)' = RowsOf(t, c)
    BY <1>1, <1>3 DEF RowsOf
  <2> QED
    BY <1>3, <2>1
<1> QED
  BY <1>2, <1>3

\* The same for the running cycle.
LEMMA CountsAppend ==
    ASSUME IsList(trail), NEW row, trail' = Append(trail, row), row.recorded_at = cycles,
           UNCHANGED cycles, NEW t
    PROVE  /\ row.type = t => Cardinality(RowsOf(t, cycles))' = Cardinality(RowsOf(t, cycles)) + 1
           /\ row.type # t => Cardinality(RowsOf(t, cycles))' = Cardinality(RowsOf(t, cycles))
<1>1. PICK c : c = cycles
  OBVIOUS
<1>2. RowsOf(t, cycles) = RowsOf(t, c) /\ RowsOf(t, cycles)' = RowsOf(t, c)'
  BY <1>1 DEF RowsOf
<1>3. /\ row.type = t => Cardinality(RowsOf(t, c)') = Cardinality(RowsOf(t, c)) + 1
      /\ row.type # t => RowsOf(t, c)' = RowsOf(t, c)
  BY <1>1, RowsAppend
<1> QED
  BY <1>2, <1>3

\* OutcomeFollows for the rows 1..n of a list: the row at i is answered, or answers.
Answered(rows, n, i) ==
    (/\ rows[i].type = "GATEWAY_REQUEST" /\ i < n
     /\ rows[i + 1].recorded_at = rows[i].recorded_at) =>
        /\ rows[i + 1].request = rows[i].request
        /\ rows[i + 1].type \in {"REJECT", "VALIDATED_TRADE_INTENT"}

Answers(rows, i) ==
    rows[i].type = "ORDER_TICKET" =>
        /\ i > 2
        /\ rows[i - 1].type = "VALIDATED_TRADE_INTENT"
        /\ rows[i - 2].type = "GATEWAY_REQUEST"
        /\ rows[i].request = rows[i - 2].request
        /\ rows[i].recorded_at = rows[i - 2].recorded_at

\* One more row n + 1: only the request it follows can be answered by it.
LEMMA OneMoreOutcome ==
    ASSUME NEW old, NEW new, NEW n \in Nat,
           \A i \in 1..n : new[i] = old[i],
           \A i \in 1..n : Answered(old, n, i) /\ Answers(old, i),
           n > 0 => Answered(new, n + 1, n),
           Answers(new, n + 1)
    PROVE  \A i \in 1..(n + 1) : Answered(new, n + 1, i) /\ Answers(new, i)
<1> SUFFICES ASSUME NEW i \in 1..(n + 1) PROVE Answered(new, n + 1, i) /\ Answers(new, i)
  OBVIOUS
<1>1. CASE i = n + 1
  BY <1>1 DEF Answered
<1>2. CASE i \in 1..n
  <2>1. Answers(new, i)
    <3>1. i > 2 => i - 1 \in 1..n /\ i - 2 \in 1..n
      BY <1>2
    <3>2. new[i] = old[i] /\ (i > 2 => new[i - 1] = old[i - 1] /\ new[i - 2] = old[i - 2])
      BY <1>2, <3>1
    <3> QED
      BY <1>2, <3>2 DEF Answers
  <2>2. Answered(new, n + 1, i)
    <3>1. CASE i = n
      BY <1>2, <3>1
    <3>2. CASE i < n
      <4>1. i + 1 \in 1..n /\ new[i] = old[i] /\ new[i + 1] = old[i + 1]
        BY <1>2, <3>2
      <4> QED
        BY <1>2, <3>2, <4>1 DEF Answered
    <3> QED
      BY <1>2, <3>1, <3>2
  <2> QED
    BY <2>1, <2>2
<1> QED
  BY <1>1, <1>2

\* A row that may follow the rows 1..n: what it answers is right before it.
Linked(rows, n, row) ==
    /\ (/\ n > 0 /\ rows[n].type = "GATEWAY_REQUEST"
        /\ rows[n].recorded_at = row.recorded_at) =>
           /\ row.request = rows[n].request
           /\ row.type \in {"REJECT", "VALIDATED_TRADE_INTENT"}
    /\ row.type = "ORDER_TICKET" =>
           /\ n > 1
           /\ rows[n].type = "VALIDATED_TRADE_INTENT"
           /\ rows[n - 1].type = "GATEWAY_REQUEST"
           /\ row.request = rows[n - 1].request
           /\ rows[n - 1].recorded_at = row.recorded_at

\* The new row n + 1 answers what is before it.
LEMMA NewestAnswers ==
    ASSUME NEW old, NEW new, NEW n \in Nat, NEW row,
           \A i \in 1..n : new[i] = old[i],
           new[n + 1] = row,
           Linked(old, n, row)
    PROVE  /\ n > 0 => Answered(new, n + 1, n)
           /\ Answers(new, n + 1)
<1>1. n > 0 => new[n] = old[n]
  OBVIOUS
<1>2. n > 1 => new[n - 1] = old[n - 1] /\ (n + 1) - 1 = n /\ (n + 1) - 2 = n - 1 /\ n + 1 > 2
  OBVIOUS
<1>3. n > 0 => Answered(new, n + 1, n)
  BY <1>1 DEF Answered, Linked
<1>4. Answers(new, n + 1)
  BY <1>1, <1>2 DEF Answers, Linked
<1> QED
  BY <1>3, <1>4

-----------------------------------------------------------------------------
(* The two kinds of steps: those that write a row, and those that write none. *)

\* A row of the running cycle that answers what is before it keeps the rows sound.
LEMMA RowWritten ==
    ASSUME ShadowInv, NEW row, trail' = Append(trail, row), UNCHANGED <<cycles, heartbeat>>,
           pc \notin Ended,
           row.recorded_at = cycles, row.request \subseteq Requests,
           "INTERNAL_CONTRADICTION" \notin row.codes,
           row.type = "VALIDATED_TRADE_INTENT" => \A r \in row.request : is_approved(r),
           Linked(trail, Len(trail), row)
    PROVE  /\ IsList(trail)' /\ RowsSound' /\ OutcomeFollows' /\ HeartbeatTruthful'
           /\ \A h \in heartbeat : h.cycle \in 1..cycles /\ h.cycle # cycles
<1>1. /\ IsList(trail)' /\ Len(trail) \in Nat /\ Len(trail') = Len(trail) + 1
      /\ DOMAIN trail = 1..Len(trail) /\ DOMAIN trail' = 1..(Len(trail) + 1)
      /\ \A i \in 1..Len(trail) : trail'[i] = trail[i]
      /\ trail'[Len(trail) + 1] = row
  BY TrailAppend DEF ShadowInv
<1>2. cycles \in Nat \ {0}
  BY ShadowAssumption, LenProperties DEF ShadowInv, Place, IsList
<1>3. RowsSound'
  BY <1>1, <1>2 DEF ShadowInv, RowsSound
<1>4. OutcomeFollows'
  <2> DEFINE n == Len(trail)
  <2>2. (n > 0 => Answered(trail', n + 1, n)) /\ Answers(trail', n + 1)
    BY <1>1, NewestAnswers
  <2>3. \A i \in 1..n : Answered(trail, n, i) /\ Answers(trail, i)
    BY <1>1 DEF ShadowInv, OutcomeFollows, Answered, Answers
  <2>4. \A i \in 1..(n + 1) : Answered(trail', n + 1, i) /\ Answers(trail', i)
    BY <1>1, <2>2, <2>3, OneMoreOutcome
  <2> QED
    BY <1>1, <2>4 DEF OutcomeFollows, Answered, Answers
<1>5. \A h \in heartbeat : h.cycle \in 1..cycles /\ h.cycle # cycles
  BY DEF ShadowInv, Counted, Ended
<1>6. HeartbeatTruthful'
  <2>1. \A h \in heartbeat : h.cycle # row.recorded_at
    BY <1>2, <1>5
  <2>2. \A h \in heartbeat : /\ RowsOf("ORDER_TICKET", h.cycle)' = RowsOf("ORDER_TICKET", h.cycle)
                             /\ RowsOf("REJECT", h.cycle)' = RowsOf("REJECT", h.cycle)
    BY <2>1, RowsAppend DEF ShadowInv
  <2> QED
    BY <2>2 DEF ShadowInv, HeartbeatTruthful
<1> QED
  BY <1>1, <1>3, <1>4, <1>5, <1>6

\* A step that writes no row keeps what the rows say, and their counts.
LEMMA NoRowWritten ==
    ASSUME ShadowInv, UNCHANGED <<trail, cycles, approved, rejected>>
    PROVE  /\ IsList(trail)' /\ RowsSound' /\ OutcomeFollows'
           /\ approved' = Cardinality(RowsOf("ORDER_TICKET", cycles))'
           /\ rejected' = Cardinality(RowsOf("REJECT", cycles))'
           /\ UNCHANGED heartbeat => HeartbeatTruthful'
<1>1. IsList(trail)'
  BY DEF ShadowInv, IsList, Elements
<1>2. RowsSound'
  BY DEF ShadowInv, RowsSound
<1>3. OutcomeFollows'
  BY DEF ShadowInv, OutcomeFollows
<1>4. \A type, c : RowsOf(type, c)' = RowsOf(type, c)
  BY DEF RowsOf
<1>5. approved' = Cardinality(RowsOf("ORDER_TICKET", cycles))'
      /\ rejected' = Cardinality(RowsOf("REJECT", cycles))'
  BY <1>4 DEF ShadowInv, Counted
<1>6. UNCHANGED heartbeat => HeartbeatTruthful'
  BY <1>4 DEF ShadowInv, HeartbeatTruthful
<1> QED
  BY <1>1, <1>2, <1>3, <1>5, <1>6

\* Load, Refuse, NoTicket, RouteRaises and Fail only move on.
LEMMA MovingOn ==
    ASSUME ShadowInv,
           UNCHANGED <<session, todo, current, trail, approved, rejected, heartbeat, cycles>>,
           \/ Load \/ Refuse \/ NoTicket \/ RouteRaises \/ Fail
    PROVE  ShadowInv'
<1>1. /\ IsList(trail)' /\ RowsSound' /\ OutcomeFollows' /\ HeartbeatTruthful'
      /\ approved' = Cardinality(RowsOf("ORDER_TICKET", cycles))'
      /\ rejected' = Cardinality(RowsOf("REJECT", cycles))'
  BY NoRowWritten
<1>2. pc \notin Ended
  BY DEF Load, Refuse, NoTicket, RouteRaises, Fail, Ended
<1>3. /\ pc' \in {"Enter", "Refused", "Next", "Raised"}
      /\ pc' = "Enter" => pc = "Load" /\ ConfigValid(env)
      /\ pc' = "Next" => pc = "Ticket"
  BY DEF Load, Refuse, NoTicket, RouteRaises, Fail
<1>4. env' = env
  BY DEF env
<1>5. Place'
  BY <1>3, <1>4 DEF ShadowInv, Place, Ended
<1>6. LastRows'
  BY <1>3 DEF ShadowInv, LastRows
<1>7. \A h \in heartbeat : h.cycle \in 1..cycles /\ h.cycle # cycles
  BY <1>2 DEF ShadowInv, Counted, Ended
<1>8. Counted'
  BY <1>1, <1>7 DEF Counted
<1> QED
  BY <1>1, <1>5, <1>6, <1>8 DEF ShadowInv

\* Finish and FailInHeartbeat write the heartbeat of the running cycle, or empty it.
LEMMA HeartbeatWritten == ASSUME ShadowInv, Finish \/ FailInHeartbeat PROVE ShadowInv'
<1> USE DEF Finish, FailInHeartbeat
<1>1. /\ IsList(trail)' /\ RowsSound' /\ OutcomeFollows'
      /\ approved' = Cardinality(RowsOf("ORDER_TICKET", cycles))'
      /\ rejected' = Cardinality(RowsOf("REJECT", cycles))'
  BY NoRowWritten
<1>2. /\ pc = "Next" /\ pc' \in {"Done", "Raised"}
      /\ UNCHANGED <<session, todo, current, cycles>> /\ env' = env
  BY DEF env
<1>3. Place'
  BY <1>2 DEF ShadowInv, Place, Ended
<1>4. LastRows'
  BY <1>2 DEF LastRows
<1>5. \A h \in heartbeat' : /\ pc' = "Done" /\ h.cycle = cycles
                            /\ h.approved = approved /\ h.rejected = rejected
  OBVIOUS
<1>6. Counted'
  <2>1. cycles \in Nat \ {0}
    BY ShadowAssumption, LenProperties DEF ShadowInv, Place, IsList
  <2> QED
    BY <1>1, <1>2, <1>5, <2>1 DEF Counted
<1>7. HeartbeatTruthful'
  <2>1. \A h \in heartbeat' : h.approved = approved' /\ h.rejected = rejected' /\ h.cycle = cycles'
    BY <1>5
  <2> QED
    BY <1>1, <2>1 DEF HeartbeatTruthful, RowsOf
<1> QED
  BY <1>1, <1>3, <1>4, <1>6, <1>7 DEF ShadowInv

\* A new cycle starts with no rows of its own.
LEMMA CycleStarts == ASSUME ShadowInv, NextCycle PROVE ShadowInv'
<1> USE DEF NextCycle
<1>1. session \in Sessions /\ cycles \in 1..Len(session) /\ cycles + 1 \in 1..Len(session)
      /\ Len(session) \in Nat /\ cycles \in Nat
  BY ShadowAssumption, LenProperties DEF ShadowInv, Place, IsList
<1>2. \A i \in DOMAIN trail : trail[i].recorded_at \in 1..cycles
  BY DEF ShadowInv, RowsSound
<1>3. IsList(trail)' /\ OutcomeFollows' /\ HeartbeatTruthful'
  <2>1. UNCHANGED <<trail, heartbeat>>
    OBVIOUS
  <2>2. \A type, c : RowsOf(type, c)' = RowsOf(type, c)
    BY <2>1 DEF RowsOf
  <2> QED
    BY <2>1, <2>2 DEF ShadowInv, IsList, Elements, OutcomeFollows, HeartbeatTruthful
<1>4. RowsSound'
  BY <1>1, <1>2 DEF ShadowInv, RowsSound
<1>5. LastRows'
  BY <1>1, <1>2 DEF LastRows
<1>6. Place'
  <2>1. session[cycles + 1].batch \in Seq(Requests)
    BY <1>1, SessionCycle
  <2> QED
    BY <1>1, <2>1 DEF Place
<1>7. Counted'
  <2>1. \A type : RowsOf(type, cycles)' = {}
    BY <1>1, <1>2 DEF RowsOf
  <2>2. Cardinality({}) = 0
    BY FS_EmptySet
  <2>3. \A h \in heartbeat' : h.cycle \in 1..cycles' /\ h.cycle # cycles'
    BY <1>1 DEF ShadowInv, Counted
  <2> QED
    BY <2>1, <2>2, <2>3 DEF Counted
<1> QED
  BY <1>3, <1>4, <1>5, <1>6, <1>7 DEF ShadowInv

-----------------------------------------------------------------------------
(* The four rows a cycle writes. *)

\* require_shadow_safe passed: the first row of the cycle.
LEMMA StartupKeeps == ASSUME ShadowInv, Startup PROVE ShadowInv'
<1> DEFINE row == Row("SHADOW_CYCLE_START", {}, {}, {})
           n == Len(trail)
<1>1. /\ pc = "Enter" /\ pc' = "Next" /\ require_shadow_safe(env)
      /\ trail' = Append(trail, row)
      /\ UNCHANGED <<session, todo, current, approved, rejected, heartbeat, cycles>>
  BY DEF Startup
<1>2. /\ row.type = "SHADOW_CYCLE_START" /\ row.recorded_at = cycles
      /\ row.request = {} /\ row.codes = {}
  BY DEF Row
<1> HIDE DEF row
<1>3. IsList(trail) /\ n \in Nat /\ DOMAIN trail = 1..n
  BY TrailRows DEF ShadowInv
<1>4. Linked(trail, n, row)
  <2>1. \A i \in DOMAIN trail : trail[i].recorded_at \in 1..cycles /\ trail[i].recorded_at < cycles
    BY <1>1 DEF ShadowInv, RowsSound, LastRows
  <2>2. cycles \in Nat
    BY ShadowAssumption, LenProperties DEF ShadowInv, Place, IsList
  <2>3. n > 0 => trail[n].recorded_at # cycles
    BY <1>3, <2>1, <2>2
  <2> QED
    BY <1>2, <2>3 DEF Linked
<1>5. /\ IsList(trail)' /\ RowsSound' /\ OutcomeFollows' /\ HeartbeatTruthful'
      /\ \A h \in heartbeat : h.cycle \in 1..cycles /\ h.cycle # cycles
  BY <1>1, <1>2, <1>4, RowWritten DEF Ended
<1>6. Len(trail') = n + 1 /\ trail'[n + 1] = row
  BY <1>1, <1>3, TrailAppend
<1>7. Place'
  <2>1. env' = env
    BY <1>1 DEF env
  <2> QED
    BY <1>1, <2>1 DEF ShadowInv, Place
<1>8. LastRows'
  BY <1>1, <1>2, <1>3, <1>6 DEF LastRows
<1>9. Counted'
  <2>1. \A type \in {"ORDER_TICKET", "REJECT"} :
            Cardinality(RowsOf(type, cycles))' = Cardinality(RowsOf(type, cycles))
    BY <1>1, <1>2, <1>3, CountsAppend
  <2> QED
    BY <1>1, <1>5, <2>1 DEF ShadowInv, Counted
<1> QED
  BY <1>5, <1>7, <1>8, <1>9 DEF ShadowInv

\* The request is recorded: the row before it is not an unanswered request.
LEMMA RecordKeeps == ASSUME ShadowInv, RecordRequest PROVE ShadowInv'
<1> DEFINE row == Row("GATEWAY_REQUEST", current', {}, {})
           n == Len(trail)
<1>1. /\ pc = "Next" /\ pc' = "Decide" /\ todo # <<>>
      /\ current' = {Head(todo)} /\ todo' = Tail(todo) /\ trail' = Append(trail, row)
      /\ UNCHANGED <<session, approved, rejected, heartbeat, cycles>>
  BY DEF RecordRequest
<1>2. /\ row.type = "GATEWAY_REQUEST" /\ row.recorded_at = cycles
      /\ row.request = current' /\ row.codes = {}
  BY DEF Row
<1> HIDE DEF row
<1>3. IsList(trail) /\ n \in Nat
  BY TrailRows DEF ShadowInv
<1>4. Head(todo) \in Requests /\ Tail(todo) \in Seq(Requests)
  BY <1>1, HeadTailProperties DEF ShadowInv, Place
<1>5. Linked(trail, n, row)
  <2>1. n > 0 /\ trail[n].type # "GATEWAY_REQUEST"
    BY <1>1 DEF ShadowInv, LastRows
  <2> QED
    BY <1>2, <2>1 DEF Linked
<1>6. /\ IsList(trail)' /\ RowsSound' /\ OutcomeFollows' /\ HeartbeatTruthful'
      /\ \A h \in heartbeat : h.cycle \in 1..cycles /\ h.cycle # cycles
  <2>1. row.request \subseteq Requests
    BY <1>1, <1>2, <1>4
  <2> QED
    BY <1>1, <1>2, <1>5, <2>1, RowWritten DEF Ended
<1>7. Len(trail') = n + 1 /\ trail'[n + 1] = row
  BY <1>1, <1>3, TrailAppend
<1>8. Place'
  <2>1. env' = env
    BY <1>1 DEF env
  <2>2. \E r \in Requests : current' = {r}
    BY <1>1, <1>4
  <2> QED
    BY <1>1, <1>4, <2>1, <2>2 DEF ShadowInv, Place
<1>9. LastRows'
  BY <1>1, <1>2, <1>3, <1>7 DEF LastRows
<1>10. Counted'
  <2>1. \A type \in {"ORDER_TICKET", "REJECT"} :
            Cardinality(RowsOf(type, cycles))' = Cardinality(RowsOf(type, cycles))
    BY <1>1, <1>2, <1>3, CountsAppend
  <2> QED
    BY <1>1, <1>6, <2>1 DEF ShadowInv, Counted
<1> QED
  BY <1>6, <1>8, <1>9, <1>10 DEF ShadowInv

\* The refusal is stored right after its request, with the codes of validate, and counted.
LEMMA RejectKeeps == ASSUME ShadowInv, Reject PROVE ShadowInv'
<1> DEFINE n == Len(trail)
<1>1. PICK r \in current : trail' = Append(trail, Row("REJECT", current, validate(r), {}))
  BY DEF Reject
<1> DEFINE row == Row("REJECT", current, validate(r), {})
<1>2. /\ pc = "Decide" /\ pc' = "Next" /\ rejected' = rejected + 1
      /\ trail' = Append(trail, row)
      /\ UNCHANGED <<session, todo, current, approved, heartbeat, cycles>>
  BY <1>1 DEF Reject
<1>3. /\ row.type = "REJECT" /\ row.recorded_at = cycles
      /\ row.request = current /\ row.codes = validate(r)
  BY DEF Row
<1> HIDE DEF row
<1>4. IsList(trail) /\ n \in Nat
  BY TrailRows DEF ShadowInv
<1>5. Linked(trail, n, row)
  <2>1. n > 0 /\ trail[n].request = current
    BY <1>2 DEF ShadowInv, LastRows
  <2> QED
    BY <1>3, <2>1 DEF Linked
<1>6. /\ IsList(trail)' /\ RowsSound' /\ OutcomeFollows' /\ HeartbeatTruthful'
      /\ \A h \in heartbeat : h.cycle \in 1..cycles /\ h.cycle # cycles
  <2>1. row.request \subseteq Requests /\ "INTERNAL_CONTRADICTION" \notin row.codes
    BY <1>3, NoContradiction DEF ShadowInv, Place
  <2> QED
    BY <1>2, <1>3, <1>5, <2>1, RowWritten DEF Ended
<1>7. Len(trail') = n + 1 /\ trail'[n + 1] = row
  BY <1>2, <1>4, TrailAppend
<1>8. Place'
  <2>1. env' = env
    BY <1>2 DEF env
  <2> QED
    BY <1>2, <2>1 DEF ShadowInv, Place
<1>9. LastRows'
  BY <1>2, <1>3, <1>4, <1>7 DEF LastRows
<1>10. Counted'
  <2>1. Cardinality(RowsOf("ORDER_TICKET", cycles))' = Cardinality(RowsOf("ORDER_TICKET", cycles))
    BY <1>2, <1>3, <1>4, CountsAppend
  <2>2. Cardinality(RowsOf("REJECT", cycles))' = Cardinality(RowsOf("REJECT", cycles)) + 1
    BY <1>2, <1>3, <1>4, CountsAppend
  <2> QED
    BY <1>2, <1>6, <2>1, <2>2 DEF ShadowInv, Counted
<1> QED
  BY <1>6, <1>8, <1>9, <1>10 DEF ShadowInv

\* The approval is stored right after its request; nothing is counted yet.
LEMMA ApproveKeeps == ASSUME ShadowInv, Approve PROVE ShadowInv'
<1> DEFINE n == Len(trail)
           row == Row("VALIDATED_TRADE_INTENT", current, {}, {})
<1>1. /\ pc = "Decide" /\ pc' = "Ticket" /\ trail' = Append(trail, row)
      /\ UNCHANGED <<session, todo, current, approved, rejected, heartbeat, cycles>>
  BY DEF Approve
<1>2. \A r \in current : is_approved(r)
  BY <1>1 DEF Approve, ShadowInv, Place
<1>3. /\ row.type = "VALIDATED_TRADE_INTENT" /\ row.recorded_at = cycles
      /\ row.request = current /\ row.codes = {}
  BY DEF Row
<1> HIDE DEF row
<1>4. IsList(trail) /\ n \in Nat
  BY TrailRows DEF ShadowInv
<1>5. /\ n > 0 /\ trail[n].type = "GATEWAY_REQUEST" /\ trail[n].request = current
      /\ trail[n].recorded_at = cycles
  BY <1>1 DEF ShadowInv, LastRows
<1>6. Linked(trail, n, row)
  BY <1>3, <1>5 DEF Linked
<1>7. /\ IsList(trail)' /\ RowsSound' /\ OutcomeFollows' /\ HeartbeatTruthful'
      /\ \A h \in heartbeat : h.cycle \in 1..cycles /\ h.cycle # cycles
  <2>1. row.request \subseteq Requests /\ \A r \in row.request : is_approved(r)
    BY <1>2, <1>3 DEF ShadowInv, Place
  <2> QED
    BY <1>1, <1>3, <1>6, <2>1, RowWritten DEF Ended
<1>8. Len(trail') = n + 1 /\ trail'[n + 1] = row /\ trail'[n] = trail[n]
  BY <1>1, <1>4, <1>5, TrailAppend
<1>9. Place'
  <2>1. env' = env
    BY <1>1 DEF env
  <2> QED
    BY <1>1, <2>1 DEF ShadowInv, Place
<1>10. LastRows'
  BY <1>1, <1>3, <1>4, <1>5, <1>8 DEF LastRows
<1>11. Counted'
  <2>1. \A type \in {"ORDER_TICKET", "REJECT"} :
            Cardinality(RowsOf(type, cycles))' = Cardinality(RowsOf(type, cycles))
    BY <1>1, <1>3, <1>4, CountsAppend
  <2> QED
    BY <1>1, <1>7, <2>1 DEF ShadowInv, Counted
<1> QED
  BY <1>7, <1>9, <1>10, <1>11 DEF ShadowInv

\* The ticket is stored right after the approval it is for, and counted.
LEMMA MintKeeps == ASSUME ShadowInv, MintTicket PROVE ShadowInv'
<1> DEFINE n == Len(trail)
<1>1. PICK r \in current, s \in routing :
          trail' = Append(trail, Row("ORDER_TICKET", current, {}, {Ticket(r.candidate, s)}))
  BY DEF MintTicket
<1> DEFINE row == Row("ORDER_TICKET", current, {}, {Ticket(r.candidate, s)})
<1>2. /\ pc = "Ticket" /\ pc' = "Next" /\ approved' = approved + 1
      /\ trail' = Append(trail, row)
      /\ UNCHANGED <<session, todo, current, rejected, heartbeat, cycles>>
  BY <1>1 DEF MintTicket
<1>3. /\ row.type = "ORDER_TICKET" /\ row.recorded_at = cycles
      /\ row.request = current /\ row.codes = {}
  BY DEF Row
<1> HIDE DEF row
<1>4. IsList(trail) /\ n \in Nat
  BY TrailRows DEF ShadowInv
<1>5. Linked(trail, n, row)
  <2>1. /\ n > 0 /\ trail[n].type = "VALIDATED_TRADE_INTENT"
        /\ n - 1 > 0 /\ trail[n - 1].type = "GATEWAY_REQUEST"
        /\ trail[n - 1].request = current /\ trail[n - 1].recorded_at = cycles
    BY <1>2 DEF ShadowInv, LastRows
  <2> QED
    BY <1>3, <1>4, <2>1 DEF Linked
<1>6. /\ IsList(trail)' /\ RowsSound' /\ OutcomeFollows' /\ HeartbeatTruthful'
      /\ \A h \in heartbeat : h.cycle \in 1..cycles /\ h.cycle # cycles
  <2>1. row.request \subseteq Requests
    BY <1>3 DEF ShadowInv, Place
  <2> QED
    BY <1>2, <1>3, <1>5, <2>1, RowWritten DEF Ended
<1>7. Len(trail') = n + 1 /\ trail'[n + 1] = row
  BY <1>2, <1>4, TrailAppend
<1>8. Place'
  <2>1. env' = env
    BY <1>2 DEF env
  <2> QED
    BY <1>2, <2>1 DEF ShadowInv, Place
<1>9. LastRows'
  BY <1>2, <1>3, <1>4, <1>7 DEF LastRows
<1>10. Counted'
  <2>1. Cardinality(RowsOf("REJECT", cycles))' = Cardinality(RowsOf("REJECT", cycles))
    BY <1>2, <1>3, <1>4, CountsAppend
  <2>2. Cardinality(RowsOf("ORDER_TICKET", cycles))' = Cardinality(RowsOf("ORDER_TICKET", cycles)) + 1
    BY <1>2, <1>3, <1>4, CountsAppend
  <2> QED
    BY <1>2, <1>6, <2>1, <2>2 DEF ShadowInv, Counted
<1> QED
  BY <1>6, <1>8, <1>9, <1>10 DEF ShadowInv

-----------------------------------------------------------------------------
(* The theorems. *)

\* The invariant holds of an empty store.
LEMMA InitShadowInv == ASSUME Init PROVE ShadowInv
<1> USE DEF Init
<1>1. session \in Sessions /\ 1 \in 1..Len(session)
  <2>1. session \in Seq(Elements(session)) /\ session # <<>>
    BY ShadowAssumption DEF IsList
  <2> QED
    BY <2>1, LenProperties, EmptySeq
<1>2. Place
  <2>1. session[1].batch \in Seq(Requests)
    BY <1>1, SessionCycle
  <2> QED
    BY <1>1, <2>1 DEF Place
<1>3. IsList(trail) /\ DOMAIN trail = {}
  BY DEF IsList, Elements
<1>4. RowsSound /\ LastRows /\ OutcomeFollows
  BY <1>3 DEF RowsSound, LastRows, OutcomeFollows
<1>5. Counted /\ HeartbeatTruthful
  <2>1. \A type, c : RowsOf(type, c) = {}
    BY <1>3 DEF RowsOf
  <2> QED
    BY <2>1, FS_EmptySet DEF Counted, HeartbeatTruthful
<1> QED
  BY <1>2, <1>3, <1>4, <1>5 DEF ShadowInv

\* Every step of run_shadow_cycle, every failure and every new cycle keeps the invariant.
LEMMA NextShadowInv == ASSUME ShadowInv, [Next \/ Rest]_vars PROVE ShadowInv'
<1>1. CASE Load \/ Refuse \/ NoTicket \/ RouteRaises \/ Fail
  <2>1. UNCHANGED <<session, todo, current, trail, approved, rejected, heartbeat, cycles>>
    BY <1>1 DEF Load, Refuse, NoTicket, RouteRaises, Fail
  <2> QED
    BY <1>1, <2>1, MovingOn
<1>2. CASE Startup
  BY <1>2, StartupKeeps
<1>3. CASE RecordRequest
  BY <1>3, RecordKeeps
<1>4. CASE Reject
  BY <1>4, RejectKeeps
<1>5. CASE Approve
  BY <1>5, ApproveKeeps
<1>6. CASE MintTicket
  BY <1>6, MintKeeps
<1>7. CASE Finish \/ FailInHeartbeat
  BY <1>7, HeartbeatWritten
<1>8. CASE NextCycle
  BY <1>8, CycleStarts
<1>9. CASE UNCHANGED vars
  <2> USE <1>9 DEF vars
  <2>1. /\ IsList(trail)' /\ RowsSound' /\ OutcomeFollows' /\ HeartbeatTruthful'
        /\ approved' = Cardinality(RowsOf("ORDER_TICKET", cycles))'
        /\ rejected' = Cardinality(RowsOf("REJECT", cycles))'
    BY NoRowWritten
  <2>2. env' = env
    BY DEF env
  <2>3. Place' /\ LastRows'
    BY <2>2 DEF ShadowInv, Place, LastRows
  <2>4. Counted'
    BY <2>1 DEF ShadowInv, Counted
  <2> QED
    BY <2>1, <2>3, <2>4 DEF ShadowInv
<1> QED
  BY <1>1, <1>2, <1>3, <1>4, <1>5, <1>6, <1>7, <1>8, <1>9 DEF Next, Work, Rest

\* The strengthening every other result follows from: for any sessions whatsoever, where
\* the process is, what each row says, which rows are last, and which rows are counted.
THEOREM ShadowInductive == Spec => []ShadowInv
<1>1. Init => ShadowInv
  BY InitShadowInv
<1>2. ShadowInv /\ [Next \/ Rest]_vars => ShadowInv'
  BY NextShadowInv
<1> QED
  BY <1>1, <1>2, PTL DEF Spec

\* Types, and the counters of the running cycle against its rows.
THEOREM ShadowTypeOK == Spec => []TypeOK
<1>1. ShadowInv => TypeOK
  <2> SUFFICES ASSUME ShadowInv PROVE TypeOK
    OBVIOUS
  <2>1. cycles \in DOMAIN session
    BY ShadowAssumption, LenProperties DEF ShadowInv, Place, IsList
  <2>2. \A q \in current \cup UNION {trail[i].request : i \in DOMAIN trail} : q \in Requests
    BY DEF ShadowInv, Place, RowsSound
  <2> QED
    BY <2>1, <2>2, RequestsValid DEF TypeOK, ShadowInv, Place, Counted
<1> QED
  BY <1>1, ShadowInductive, PTL

\* Nothing is silently dropped: the row after a request is its outcome, the row before an
\* outcome what it answers, for any batch, any failure and any number of cycles.
THEOREM OutcomeFollowsHolds == Spec => []OutcomeFollows
<1>1. ShadowInv => OutcomeFollows
  BY DEF ShadowInv
<1> QED
  BY <1>1, ShadowInductive, PTL

\* The heartbeat counts the rows of the cycle it names, whatever later cycles did.
THEOREM HeartbeatTruthfulHolds == Spec => []HeartbeatTruthful
<1>1. ShadowInv => HeartbeatTruthful
  BY DEF ShadowInv
<1> QED
  BY <1>1, ShadowInductive, PTL

\* Every approval on the store is of a request one may trade at its instant: the eighteen
\* gates decide for every request the schemas accept, not just the sampled ones.
THEOREM ApprovedIsTradableHolds == Spec => []ApprovedIsTradable
<1>1. ShadowInv => ApprovedIsTradable
  <2> SUFFICES ASSUME ShadowInv, NEW r \in ApprovedRequests PROVE Tradable(r)
    BY DEF ApprovedIsTradable
  <2>1. r \in Requests /\ is_approved(r)
    BY DEF ApprovedRequests, ShadowInv, RowsSound
  <2> QED
    BY <2>1, RequestsValid, ApprovalMeansTradable
<1> QED
  BY <1>1, ShadowInductive, PTL

\* An approved spread expires on the day it claims to, counted on the calendar in Chicago,
\* for every request and at every offset from UTC-12 to UTC+5.
THEOREM ExpiresAsClaimedHolds == Spec => []ExpiresAsClaimed
<1>1. ShadowInv => ExpiresAsClaimed
  <2> DEFINE expiry(r) == r.spread_contract.short_contract.expiration_time
  <2> SUFFICES ASSUME ShadowInv, NEW r \in ApprovedRequests,
                      -720 <= r.as_of.off, r.as_of.off <= 300,
                      DateOf(expiry(r)) = ChicagoDay(expiry(r).t)
               PROVE  r.candidate.dte = ChicagoDay(expiry(r).t) - ChicagoDay(r.as_of.t)
    BY DEF ExpiresAsClaimed
  <2>1. RequestValid(r) /\ is_approved(r)
    BY RequestsValid DEF ApprovedRequests, ShadowInv, RowsSound
  <2>2. Tradable(r)
    BY <2>1, ApprovalMeansTradable
  <2>3. DateOf(r.as_of) = ChicagoDay(r.as_of.t)
    <3>1. r.as_of.t \in Int /\ r.as_of.off \in Int
      BY <2>1 DEF RequestValid, RequestTyped
    <3> QED
      BY <2>2, <3>1, ChicagoDate
  <2>4. gate_dte_match(r) = {}
    BY <2>1, ApprovedCollected DEF Collected
  <2>5. r.candidate.dte = DateOf(expiry(r)) - DateOf(r.as_of)
    BY <2>4 DEF gate_dte_match, Code, dte_matches_claim, derived_dte
  <2> QED
    BY <2>3, <2>5
<1> QED
  BY <1>1, ShadowInductive, PTL

\* The gates and the mints never disagree.
THEOREM NoInternalContradictionHolds == Spec => []NoInternalContradiction
<1>1. ShadowInv => NoInternalContradiction
  BY DEF ShadowInv, RowsSound, NoInternalContradiction
<1> QED
  BY <1>1, ShadowInductive, PTL

\* Armed submission means a paper broker, and a cycle writes only where nothing is armed.
THEOREM ArmedMeansPaperHolds == Spec => []ArmedMeansPaper
<1>1. ShadowInv => ArmedMeansPaper
  <2> SUFFICES ASSUME ShadowInv PROVE ArmedMeansPaper
    OBVIOUS
  <2>1. pc \notin {"Load", "Refused", "Raised"} /\ submission_armed(env) =>
            env["BROKER_MODE"] = "paper" /\ env["APP_ENV"] \in {"local", "vm_paper"}
    BY ArmedConfig DEF ShadowInv, Place
  <2>2. pc \in {"Next", "Decide", "Ticket", "Done"} => \A f \in SubmitFlags : ~On(env, f)
    BY DEF ShadowInv, Place, require_shadow_safe
  <2> QED
    BY <2>1, <2>2 DEF ArmedMeansPaper
<1> QED
  BY <1>1, ShadowInductive, PTL

-----------------------------------------------------------------------------
(* Tickets. *)

\* MARKET is the routing state's decision alone, and the long leg is first.
LEMMA MintedTicket ==
    ASSUME NEW r, RequestValid(r), NEW s, RoutingValid(s), mint_order_ticket(r.candidate, s),
           NEW t, t = Ticket(r.candidate, s)
    PROVE  /\ t.order_type = "MARKET" =>
                  /\ s.policy_state # "NORMAL" /\ s.deterministic_market_order_allowed
                  /\ s.requested_order_type # "MARKET"
           /\ t.legs[1].source_leg = t.candidate.long_leg
           /\ t.legs[2].source_leg = t.candidate.short_leg
           /\ t.legs[1].source_leg.contracts = t.legs[2].source_leg.contracts
<1>1. /\ t.candidate = r.candidate /\ t.order_type = decide_order_route(s).order_type
      /\ t.legs = ordered_legs(r.candidate)
  BY DEF Ticket
<1>2. /\ t.legs[1].source_leg = r.candidate.long_leg
      /\ t.legs[2].source_leg = r.candidate.short_leg
  BY <1>1 DEF ordered_legs
<1>3. r.candidate.long_leg.contracts = r.candidate.short_leg.contracts
  BY DEF RequestValid, CandidateValid
<1>4. t.order_type = "MARKET" => /\ s.policy_state # "NORMAL"
                                 /\ s.deterministic_market_order_allowed
                                 /\ s.requested_order_type # "MARKET"
  BY <1>1 DEF decide_order_route, resolve_order_type, market_orders_allowed, mint_order_ticket
<1> QED
  BY <1>1, <1>2, <1>3, <1>4

\* MARKET comes from deterministic emergency state alone, and no ticket routes the short
\* leg ahead of the long that bounds it: for every routing state and request.
THEOREM TicketSafeHolds == Spec => TicketSafe
<1> DEFINE Sent == UNION {trail'[i].ticket : i \in DOMAIN trail' \ DOMAIN trail}
           Safe(t) == /\ t.order_type = "MARKET" =>
                             \A s \in routing : /\ s.policy_state # "NORMAL"
                                                /\ s.deterministic_market_order_allowed
                                                /\ s.requested_order_type # "MARKET"
                      /\ t.legs[1].source_leg = t.candidate.long_leg
                      /\ t.legs[2].source_leg = t.candidate.short_leg
                      /\ t.legs[1].source_leg.contracts = t.legs[2].source_leg.contracts
<1>1. ASSUME ShadowInv, Next \/ Rest, NEW t \in Sent PROVE Safe(t)
  <2>1. \A row : trail' = Append(trail, row) => Sent = row.ticket
    <3> SUFFICES ASSUME NEW row, trail' = Append(trail, row) PROVE Sent = row.ticket
      OBVIOUS
    <3>1. /\ Len(trail) \in Nat /\ DOMAIN trail = 1..Len(trail)
          /\ DOMAIN trail' = 1..(Len(trail) + 1) /\ trail'[Len(trail) + 1] = row
      BY <1>1, TrailAppend DEF ShadowInv
    <3>2. DOMAIN trail' \ DOMAIN trail = {Len(trail) + 1}
      BY <3>1
    <3> QED
      BY <3>1, <3>2
  <2>2. trail' # trail
    BY <1>1
  <2>3. \A type, r, codes, ticket : Row(type, r, codes, ticket).ticket = ticket
    BY DEF Row
  <2> HIDE DEF Sent
  <2>4. ~Startup /\ ~RecordRequest /\ ~Reject /\ ~Approve
    BY <1>1, <2>1, <2>3 DEF Startup, RecordRequest, Reject, Approve
  <2>5. MintTicket
    BY <1>1, <2>2, <2>4 DEF Next, Work, Rest, Load, Refuse, NoTicket, RouteRaises, Finish,
                            Fail, FailInHeartbeat, NextCycle, vars
  <2>6. PICK r \in current, s \in routing :
            /\ mint_order_ticket(r.candidate, s)
            /\ trail' = Append(trail, Row("ORDER_TICKET", current, {}, {Ticket(r.candidate, s)}))
    BY <2>5 DEF MintTicket
  <2>7. t = Ticket(r.candidate, s)
    BY <1>1, <2>1, <2>3, <2>6
  <2>8. RequestValid(r)
    BY <1>1, RequestsValid DEF ShadowInv, Place
  <2>9. RoutingValid(s) /\ \A other \in routing : other = s
    BY <1>1, SessionCycle DEF ShadowInv, Place, routing
  <2> QED
    BY <2>6, <2>7, <2>8, <2>9, MintedTicket
<1>2. ASSUME ShadowInv, [Next \/ Rest]_vars PROVE [\A t \in Sent : Safe(t)]_vars
  BY <1>1, <1>2
<1> QED
  BY <1>2, ShadowInductive, PTL DEF Spec, TicketSafe

-----------------------------------------------------------------------------
(* The verdicts read off the rows. *)

\* A row with a verdict of the cycle.
Decides(row, c) == row.type \in {"REJECT", "VALIDATED_TRADE_INTENT"} /\ row.recorded_at = c

\* The verdicts s, and the one of the row.
Add(s, row, c) == IF Decides(row, c) THEN Append(s, Outcome(row)) ELSE s

\* g lists the verdicts on record after every number of rows.
Reads(g, rows, c) ==
    g = [n \in 0..Len(rows) |-> IF n = 0 THEN <<>> ELSE Add(g[n - 1], rows[n], c)]

\* A list of rows can be read.
LEMMA RowsRead ==
    ASSUME NEW rows, IsList(rows), NEW c
    PROVE  \E g : Reads(g, rows, c) /\ DecidedIn(rows, c) = g[Len(rows)]
<1> DEFINE N == Len(rows)
           T == {Outcome(row) : row \in Elements(rows)}
           S == Seq(T)
           Step(s, n) == Add(s, rows[n], c)
           d == [x \in S \X (1..N) |-> Step(x[1], x[2])]
           h == CHOOSE g : Reads(g, rows, c)
<1>1. N \in Nat /\ DOMAIN rows = 1..N
  BY LenProperties DEF IsList
<1>2. \A n \in 1..N : Outcome(rows[n]) \in T
  BY <1>1 DEF Elements
<1> HIDE DEF T
<1>3. \A s \in S, n \in 1..N : Step(s, n) \in S
  BY <1>2, AppendProperties DEF Add
<1>4. <<>> \in S
  OBVIOUS
<1> HIDE DEF S, Step
<1>5. d \in Body(S, N) /\ \A s \in S, n \in 1..N : d[<<s, n>>] = Step(s, n)
  BY <1>3 DEF Body
<1> HIDE DEF d, N
<1>6. PICK g \in [0..N -> S] : Lists(g, N, <<>>, d)
  BY <1>1, <1>4, <1>5, LoopValues
<1>7. \A n \in 1..N : g[n] = Step(g[n - 1], n)
  <2> TAKE n \in 1..N
  <2>1. n - 1 \in 0..N /\ g[n - 1] \in S
    BY <1>1
  <2>2. g[n] = d[<<g[n - 1], n>>]
    BY <1>6 DEF Lists
  <2> QED
    BY <1>5, <2>1, <2>2
<1>8. g[0] = <<>>
  BY <1>6 DEF Lists
<1>9. Reads(g, rows, c)
  BY <1>1, <1>7, <1>8 DEF Reads, Step, N
<1>10. Reads(h, rows, c)
  BY <1>9
<1>11. DecidedIn(rows, c) = h[Len(rows)]
  BY DEF DecidedIn, Reads, Add, Decides
<1> QED
  BY <1>10, <1>11

\* One row more adds its verdict, if it has one for the cycle.
LEMMA OneMoreRead ==
    ASSUME NEW rows, IsList(rows), NEW more, IsList(more), NEW row, NEW c,
           Len(more) = Len(rows) + 1, \A i \in 1..Len(rows) : more[i] = rows[i],
           more[Len(rows) + 1] = row
    PROVE  DecidedIn(more, c) = Add(DecidedIn(rows, c), row, c)
<1> DEFINE N == Len(rows)
<1>1. N \in Nat
  BY LenProperties DEF IsList
<1>2. PICK g : Reads(g, rows, c) /\ DecidedIn(rows, c) = g[N]
  BY RowsRead
<1>3. PICK h : Reads(h, more, c) /\ DecidedIn(more, c) = h[N + 1]
  BY RowsRead
<1>4. /\ g[0] = <<>>
      /\ \A n \in 1..N : g[n] = Add(g[n - 1], rows[n], c)
  BY <1>1, <1>2 DEF Reads
<1>5. /\ h[0] = <<>>
      /\ \A n \in 1..(N + 1) : h[n] = Add(h[n - 1], more[n], c)
  BY <1>1, <1>3 DEF Reads
<1> DEFINE P == {n \in 0..N : h[n] = g[n]}
<1>6. 0 \in P
  BY <1>1, <1>4, <1>5
<1>7. ASSUME NEW n \in 1..N, n - 1 \in P PROVE n \in P
  <2>1. n \in 1..(N + 1) /\ more[n] = rows[n] /\ h[n - 1] = g[n - 1] /\ n \in 0..N
    BY <1>1, <1>7
  <2>2. h[n] = Add(h[n - 1], more[n], c)
    BY <1>5, <2>1
  <2>3. g[n] = Add(g[n - 1], rows[n], c)
    BY <1>4
  <2> QED
    BY <2>1, <2>2, <2>3
<1> HIDE DEF P
<1>8. 0..N \subseteq P
  BY <1>1, <1>6, <1>7, InductionUpTo
<1>9. h[N] = g[N]
  BY <1>1, <1>8 DEF P
<1>10. h[N + 1] = Add(h[N], row, c)
  <2>1. N + 1 \in 1..(N + 1) /\ (N + 1) - 1 = N /\ more[N + 1] = row
    BY <1>1
  <2> QED
    BY <1>5, <2>1
<1> QED
  BY <1>2, <1>3, <1>9, <1>10

\* Rows of other cycles have no verdict of this one.
LEMMA NothingRead ==
    ASSUME NEW rows, IsList(rows), NEW c, \A i \in DOMAIN rows : ~Decides(rows[i], c)
    PROVE  DecidedIn(rows, c) = <<>>
<1> DEFINE N == Len(rows)
<1>1. N \in Nat /\ DOMAIN rows = 1..N
  BY LenProperties DEF IsList
<1>2. PICK g : Reads(g, rows, c) /\ DecidedIn(rows, c) = g[N]
  BY RowsRead
<1>3. g[0] = <<>> /\ \A n \in 1..N : g[n] = g[n - 1]
  <2>1. g[0] = <<>> /\ \A n \in 1..N : g[n] = Add(g[n - 1], rows[n], c)
    BY <1>1, <1>2 DEF Reads
  <2> QED
    BY <1>1, <2>1 DEF Add
<1> DEFINE P == {n \in 0..N : g[n] = <<>>}
<1>4. 0 \in P
  BY <1>1, <1>3
<1>5. ASSUME NEW n \in 1..N, n - 1 \in P PROVE n \in P
  BY <1>1, <1>3, <1>5
<1> HIDE DEF P
<1>6. 0..N \subseteq P
  BY <1>1, <1>4, <1>5, InductionUpTo
<1>7. g[N] = <<>>
  BY <1>1, <1>6 DEF P
<1> QED
  BY <1>2, <1>7

\* The verdicts of the running cycle, and where they stand.
D == DecidedIn(trail, cycles)

status == IF pc = "Done" THEN "done" ELSE IF pc \in Ended THEN "failed" ELSE "running"

\* What is left of the batch is its end, and the verdicts, the request at work and what is
\* left make up the batch.
Turn ==
    LET b == session[cycles].batch
    IN  /\ IsList(D)
        /\ pc \notin Ended => \A k \in 1..Len(todo) : todo[k] = b[(Len(b) - Len(todo)) + k]
        /\ pc \in {"Load", "Enter", "Next", "Ticket"} => Len(D) + Len(todo) = Len(b)
        /\ pc = "Decide" => Len(D) + 1 + Len(todo) = Len(b) /\ current = {b[Len(D) + 1]}

\* The lengths are numbers.
LEMMA TurnLengths ==
    ASSUME ShadowInv, Turn
    PROVE  /\ Len(D) \in Nat /\ Len(todo) \in Nat /\ Len(session[cycles].batch) \in Nat
           /\ todo \in Seq(Requests)
<1>1. session[cycles].batch \in Seq(Requests) /\ todo \in Seq(Requests)
  BY SessionCycle DEF ShadowInv, Place
<1> QED
  BY <1>1, LenProperties DEF Turn, IsList

\* A step that leaves the store alone leaves the verdicts alone.
LEMMA SameRead == ASSUME UNCHANGED <<trail, cycles>> PROVE D' = D
BY DEF D

\* A row written adds its verdict.
LEMMA RowRead ==
    ASSUME ShadowInv, NEW row, trail' = Append(trail, row), cycles' = cycles
    PROVE  D' = Add(D, row, cycles)
<1>1. /\ IsList(trail) /\ IsList(trail') /\ Len(trail') = Len(trail) + 1
      /\ \A i \in 1..Len(trail) : trail'[i] = trail[i]
      /\ trail'[Len(trail) + 1] = row
  BY TrailAppend DEF ShadowInv
<1>2. PICK rows, more, c : rows = trail /\ more = trail' /\ c = cycles
  OBVIOUS
<1>3. /\ IsList(rows) /\ IsList(more) /\ Len(more) = Len(rows) + 1
      /\ \A i \in 1..Len(rows) : more[i] = rows[i]
      /\ more[Len(rows) + 1] = row
  BY <1>1, <1>2
<1>4. DecidedIn(more, c) = Add(DecidedIn(rows, c), row, c)
  BY <1>3, OneMoreRead
<1> QED
  BY <1>2, <1>4 DEF D

\* The request at work, its verdict stored, is the next one in turn.
LEMMA VerdictStored ==
    ASSUME ShadowInv, Turn, pc = "Decide", NEW row, NEW r \in current,
           trail' = Append(trail, row), Outcome(row) = Due(r), row.recorded_at = cycles,
           row.type \in {"REJECT", "VALIDATED_TRADE_INTENT"},
           pc' \in {"Next", "Ticket"}, UNCHANGED <<session, cycles, todo>>
    PROVE  Turn' /\ Verdicts!Decide
<1> DEFINE b == session[cycles].batch
<1>1. /\ Len(D) \in Nat /\ Len(todo) \in Nat /\ Len(b) \in Nat
      /\ Len(D) + 1 + Len(todo) = Len(b) /\ r = b[Len(D) + 1]
  BY TurnLengths DEF Turn
<1>2. D' = Append(D, Due(r))
  BY RowRead DEF Add, Decides
<1>3. IsList(D)' /\ Len(D') = Len(D) + 1
  <2> DEFINE S == Elements(D) \cup {Due(r)}
  <2>1. D \in Seq(S) /\ Due(r) \in S
    BY SeqMonotonic DEF Turn, IsList
  <2> HIDE DEF S
  <2>2. /\ D' \in Seq(S) /\ Len(D') = Len(D) + 1
        /\ \A i \in 1..Len(D) : D'[i] = D[i]
        /\ D'[Len(D) + 1] = Due(r)
    BY <1>2, <2>1, AppendProperties
  <2>3. DOMAIN D = 1..Len(D) /\ DOMAIN D' = 1..(Len(D) + 1)
    BY <2>1, <2>2, LenProperties
  <2>4. S = Elements(D)'
    BY <1>1, <2>2, <2>3 DEF S, Elements
  <2> QED
    BY <2>2, <2>4 DEF IsList
<1>4. Turn'
  <2>1. pc \notin Ended /\ \A k \in 1..Len(todo) : todo[k] = b[(Len(b) - Len(todo)) + k]
    BY DEF Turn, Ended
  <2> QED
    BY <1>1, <1>3, <2>1 DEF Turn
<1>5. Verdicts!Decide
  <2>1. pc \notin Ended /\ pc' \notin Ended /\ pc # "Done" /\ pc' # "Done"
    BY DEF Ended
  <2> QED
    BY <1>1, <1>2, <2>1 DEF Verdicts!Decide, Verdicts!batch, D
<1> QED
  BY <1>4, <1>5

\* A step that changes nothing the promise is about.
Unseen == UNCHANGED <<session, cycles>> /\ D' = D /\ status' = status

LEMMA UnseenStep == ASSUME Unseen PROVE UNCHANGED Verdicts!verdictVars
BY DEF Unseen, Verdicts!verdictVars, D, status

\* Nothing is on record before the first cycle starts.
LEMMA TurnInit == ASSUME Init, ShadowInv PROVE Turn /\ Verdicts!VerdictInit
<1>1. D = <<>>
  <2>1. PICK rows, c : rows = trail /\ c = cycles
    OBVIOUS
  <2>2. IsList(rows) /\ DOMAIN rows = {}
    BY <2>1 DEF Init, ShadowInv
  <2>3. DecidedIn(rows, c) = <<>>
    BY <2>2, NothingRead
  <2> QED
    BY <2>1, <2>3 DEF D
<1>2. IsList(D)
  BY <1>1 DEF IsList, Elements
<1>3. session[cycles].batch \in Seq(Requests)
  BY SessionCycle DEF ShadowInv, Place
<1>4. Len(session[cycles].batch) \in Nat /\ Len(D) = 0
  BY <1>1, <1>3, LenProperties
<1>5. Turn
  <2>1. pc = "Load" /\ todo = session[cycles].batch
    BY DEF Init
  <2> QED
    BY <1>2, <1>4, <2>1 DEF Turn
<1>6. Verdicts!VerdictInit
  BY <1>1 DEF Verdicts!VerdictInit, Init, Ended, D
<1> QED
  BY <1>5, <1>6

\* The next cycle starts with its whole batch: no row is stamped with it yet.
LEMMA TurnNextCycle == ASSUME ShadowInv, Turn, NextCycle PROVE Turn' /\ Verdicts!Start
<1>1. /\ pc \in Ended /\ cycles < Len(session) /\ cycles' = cycles + 1 /\ pc' = "Load"
      /\ todo' = session[cycles'].batch /\ UNCHANGED <<session, trail>>
  BY DEF NextCycle
<1>2. session \in Sessions /\ cycles \in 1..Len(session) /\ Len(session) \in Nat
  BY ShadowAssumption, LenProperties DEF ShadowInv, Place, IsList
<1>3. session[cycles + 1].batch \in Seq(Requests)
  BY <1>1, <1>2, SessionCycle
<1>4. D' = <<>>
  <2>1. PICK rows, c : rows = trail /\ c = cycles + 1
    OBVIOUS
  <2>2. \A i \in DOMAIN rows : rows[i].recorded_at # c
    BY <1>2, <2>1 DEF ShadowInv, RowsSound
  <2>3. IsList(rows) /\ \A i \in DOMAIN rows : ~Decides(rows[i], c)
    BY <2>1, <2>2 DEF ShadowInv, Decides
  <2>4. DecidedIn(rows, c) = <<>>
    BY <2>3, NothingRead
  <2> QED
    BY <1>1, <2>1, <2>4 DEF D
<1>5. Turn'
  <2>1. IsList(D)'
    BY <1>4 DEF IsList, Elements
  <2>2. todo' = session'[cycles'].batch /\ Len(todo') \in Nat /\ Len(D') = 0
    BY <1>1, <1>3, <1>4, LenProperties
  <2> QED
    BY <1>1, <2>1, <2>2 DEF Turn
<1>6. Verdicts!Start
  BY <1>1, <1>4 DEF Verdicts!Start, D, Ended
<1> QED
  BY <1>5, <1>6

\* The next request is taken from the front.
LEMMA TurnRecord == ASSUME ShadowInv, Turn, RecordRequest PROVE Turn' /\ Unseen
<1> DEFINE row == Row("GATEWAY_REQUEST", current', {}, {})
           b == session[cycles].batch
<1>1. /\ pc = "Next" /\ pc' = "Decide" /\ todo # <<>>
      /\ current' = {Head(todo)} /\ todo' = Tail(todo) /\ trail' = Append(trail, row)
      /\ UNCHANGED <<session, approved, rejected, heartbeat, cycles>>
  BY DEF RecordRequest
<1>2. row.type = "GATEWAY_REQUEST"
  BY DEF Row
<1> HIDE DEF row
<1>3. D' = D
  BY <1>1, <1>2, RowRead DEF Add, Decides
<1>4. /\ Len(D) \in Nat /\ Len(todo) \in Nat /\ Len(b) \in Nat
      /\ todo \in Seq(Requests) /\ Len(D) + Len(todo) = Len(b)
      /\ \A k \in 1..Len(todo) : todo[k] = b[(Len(b) - Len(todo)) + k]
  BY <1>1, TurnLengths DEF Turn, Ended
<1>5. /\ Len(todo') = Len(todo) - 1 /\ Len(todo) >= 1
      /\ \A k \in 1..(Len(todo) - 1) : todo'[k] = todo[k + 1]
      /\ current' = {todo[1]}
  <2>1. /\ Head(todo) = todo[1] /\ Len(Tail(todo)) = Len(todo) - 1
        /\ \A k \in 1..Len(Tail(todo)) : Tail(todo)[k] = todo[k + 1]
    BY <1>1, <1>4, HeadTailProperties, TailIsSubSeq
  <2>2. Len(todo) # 0
    BY <1>1, <1>4, EmptySeq
  <2> QED
    BY <1>1, <1>4, <2>1, <2>2
<1>6. PICK n, l, m \in Nat : n = Len(b) /\ l = Len(todo) /\ m = Len(D)
  BY <1>4
<1>7. m + l = n /\ l >= 1 /\ Len(todo') = l - 1
  BY <1>4, <1>5, <1>6
<1>8. 1 \in 1..l /\ (n - l) + 1 = m + 1 /\ m + 1 + (l - 1) = n
  BY <1>7
<1>9. todo[1] = b[Len(D) + 1] /\ Len(D) + 1 + Len(todo') = Len(b)
  BY <1>4, <1>6, <1>7, <1>8
<1>10. ASSUME NEW k \in 1..(l - 1) PROVE todo'[k] = b[(n - (l - 1)) + k]
  <2>1. k + 1 \in 1..l /\ (n - l) + (k + 1) = (n - (l - 1)) + k
    OBVIOUS
  <2>2. todo'[k] = todo[k + 1]
    BY <1>5, <1>6
  <2> QED
    BY <1>4, <1>6, <2>1, <2>2
<1>11. \A k \in 1..Len(todo') : todo'[k] = b[(Len(b) - Len(todo')) + k]
  BY <1>6, <1>7, <1>10
<1>12. Turn'
  BY <1>1, <1>3, <1>5, <1>9, <1>11 DEF Turn
<1>13. Unseen
  BY <1>1, <1>3 DEF Unseen, status, Ended
<1> QED
  BY <1>12, <1>13

\* A verdict is stored with what the gateway said.
LEMMA TurnDecide == ASSUME ShadowInv, Turn, Reject \/ Approve PROVE Turn' /\ Verdicts!Decide
<1>1. pc = "Decide" /\ UNCHANGED <<session, cycles, todo>> /\ pc' \in {"Next", "Ticket"}
  BY DEF Reject, Approve
<1>2. CASE Reject
  <2>1. PICK r \in current :
            ~is_approved(r) /\ trail' = Append(trail, Row("REJECT", current, validate(r), {}))
    BY <1>2 DEF Reject
  <2>2. current = {r}
    BY <1>1 DEF ShadowInv, Place
  <2> DEFINE row == Row("REJECT", current, validate(r), {})
  <2>3. row.recorded_at = cycles /\ row.type = "REJECT" /\ Outcome(row) = Due(r)
    BY <2>1, <2>2 DEF Row, Outcome, Due
  <2> HIDE DEF row
  <2> QED
    BY <1>1, <2>1, <2>3, VerdictStored DEF row
<1>3. CASE Approve
  <2>1. PICK r \in current :
            is_approved(r) /\ trail' = Append(trail, Row("VALIDATED_TRADE_INTENT", current, {}, {}))
    BY <1>3 DEF Approve
  <2>2. current = {r}
    BY <1>1 DEF ShadowInv, Place
  <2> DEFINE row == Row("VALIDATED_TRADE_INTENT", current, {}, {})
  <2>3. row.recorded_at = cycles /\ row.type = "VALIDATED_TRADE_INTENT" /\ Outcome(row) = Due(r)
    BY <2>1, <2>2 DEF Row, Outcome, Due, is_approved
  <2> HIDE DEF row
  <2> QED
    BY <1>1, <2>1, <2>3, VerdictStored DEF row
<1> QED
  BY <1>2, <1>3

\* A row that is no verdict, or no row at all, while the cycle goes on.
LEMMA TurnGoesOn ==
    ASSUME ShadowInv, Turn, Startup \/ NoTicket \/ MintTicket \/ (Load /\ pc' = "Enter")
    PROVE  Turn' /\ Unseen
<1>1. /\ UNCHANGED <<session, todo, cycles>>
      /\ pc \in {"Load", "Enter", "Ticket"} /\ pc' \in {"Enter", "Next"}
  BY DEF Startup, NoTicket, MintTicket, Load
<1>2. D' = D
  <2>1. CASE UNCHANGED trail
    BY <1>1, <2>1, SameRead
  <2>2. CASE Startup
    <3> DEFINE row == Row("SHADOW_CYCLE_START", {}, {}, {})
    <3>1. trail' = Append(trail, row) /\ row.type = "SHADOW_CYCLE_START"
      BY <2>2 DEF Startup, Row
    <3> HIDE DEF row
    <3> QED
      BY <1>1, <3>1, RowRead DEF Add, Decides
  <2>3. CASE MintTicket
    <3>1. PICK r \in current, s \in routing :
              trail' = Append(trail, Row("ORDER_TICKET", current, {}, {Ticket(r.candidate, s)}))
      BY <2>3 DEF MintTicket
    <3> DEFINE row == Row("ORDER_TICKET", current, {}, {Ticket(r.candidate, s)})
    <3>2. row.type = "ORDER_TICKET"
      BY DEF Row
    <3>3. trail' = Append(trail, row)
      BY <3>1
    <3> HIDE DEF row
    <3> QED
      BY <1>1, <3>2, <3>3, RowRead DEF Add, Decides
  <2> QED
    BY <2>1, <2>2, <2>3 DEF NoTicket, Load
<1>3. Turn'
  BY <1>1, <1>2 DEF Turn, Ended
<1>4. Unseen
  BY <1>1, <1>2 DEF Unseen, status, Ended
<1> QED
  BY <1>3, <1>4

\* The cycle fails, or completes with nothing left to decide.
LEMMA TurnEnds ==
    ASSUME ShadowInv, Turn, pc \notin Ended, pc' \in Ended,
           UNCHANGED <<session, todo, trail, cycles>>, pc' = "Done" => pc = "Next" /\ todo = <<>>
    PROVE  Turn' /\ (Verdicts!Complete \/ Verdicts!Abort)
<1>1. D' = D
  BY SameRead
<1>2. Turn'
  BY <1>1 DEF Turn, Ended
<1>3. CASE pc' = "Done"
  <2>1. Len(D) + Len(todo) = Len(session[cycles].batch) /\ Len(todo) = 0 /\ Len(D) \in Nat
    BY <1>3, TurnLengths DEF Turn
  <2>2. Len(D) = Len(session[cycles].batch)
    BY <2>1
  <2>3. status = "running" /\ status' = "done"
    BY <1>3 DEF status, Ended
  <2> QED
    BY <1>1, <1>2, <2>2, <2>3 DEF Verdicts!Complete, Verdicts!batch, D, status
<1>4. CASE pc' # "Done"
  <2>1. status = "running" /\ status' = "failed"
    BY <1>4 DEF status, Ended
  <2> QED
    BY <1>1, <1>2, <2>1 DEF Verdicts!Abort, D, status
<1> QED
  BY <1>2, <1>3, <1>4

\* Every step of the cycle is a step of its promise or leaves it alone.
LEMMA VerdictStep ==
    ASSUME ShadowInv, Turn, [Next \/ Rest]_vars
    PROVE  Turn' /\ [Verdicts!VerdictNext]_(Verdicts!verdictVars)
<1> USE DEF Verdicts!VerdictNext
<1>1. CASE Startup \/ NoTicket \/ MintTicket \/ (Load /\ pc' = "Enter")
  BY <1>1, TurnGoesOn, UnseenStep
<1>2. CASE RecordRequest
  BY <1>2, TurnRecord, UnseenStep
<1>3. CASE Reject \/ Approve
  BY <1>3, TurnDecide
<1>4. CASE NextCycle
  BY <1>4, TurnNextCycle
<1>5. CASE (Load /\ pc' # "Enter") \/ Refuse \/ RouteRaises \/ Finish \/ Fail \/ FailInHeartbeat
  <2>1. /\ pc \notin Ended /\ pc' \in Ended /\ UNCHANGED <<session, todo, trail, cycles>>
        /\ pc' = "Done" => pc = "Next" /\ todo = <<>>
    BY <1>5 DEF Load, Refuse, RouteRaises, Finish, Fail, FailInHeartbeat, Ended
  <2> QED
    BY <2>1, TurnEnds
<1>6. CASE UNCHANGED vars
  <2>1. D' = D
    BY <1>6, SameRead DEF vars
  <2> QED
    BY <1>6, <2>1, UnseenStep DEF Turn, Unseen, status, vars
<1> QED
  BY <1>1, <1>2, <1>3, <1>4, <1>5, <1>6 DEF Next, Work, Rest

\* The shadow cycle implements its promise, for any requests, any environments and any
\* number of cycles: every request gets the gateway's verdict, in turn and for good, and a
\* cycle completes only when all have one.
THEOREM VerdictRefinement == Spec => ImplementsVerdicts
<1>1. Init => ShadowInv /\ Turn /\ Verdicts!VerdictInit
  BY InitShadowInv, TurnInit
<1>2. ShadowInv /\ Turn /\ [Next \/ Rest]_vars =>
          Turn' /\ [Verdicts!VerdictNext]_(Verdicts!verdictVars)
  BY VerdictStep
<1> QED
  BY <1>1, <1>2, ShadowInductive, PTL DEF Spec, ImplementsVerdicts, Verdicts!VerdictSpec

\* What the promise says of the state, in the terms of the cycle.
Kept ==
    LET b == session[cycles].batch
    IN  /\ Len(D) <= Len(b)
        /\ \A k \in 1..Len(D) : D[k] = Due(b[k])
        /\ status = "done" => Len(D) = Len(b)

\* One more verdict in turn keeps it.
LEMMA KeptDecide ==
    ASSUME ShadowInv, Turn, Kept, Verdicts!Decide PROVE Kept'
<1> DEFINE b == session[cycles].batch
<1>1. /\ Len(D) < Len(b) /\ D' = Append(D, Due(b[Len(D) + 1]))
      /\ status = "running" /\ status' = "running" /\ UNCHANGED <<session, cycles>>
  BY DEF Verdicts!Decide, Verdicts!batch, D, status
<1>2. Len(D) \in Nat /\ Len(b) \in Nat
  BY TurnLengths
<1>3. PICK r : r = Due(b[Len(D) + 1])
  OBVIOUS
<1>4. /\ Len(D') = Len(D) + 1 /\ D'[Len(D) + 1] = r
      /\ \A k \in 1..Len(D) : D'[k] = D[k]
  <2> DEFINE S == Elements(D) \cup {r}
  <2>1. D \in Seq(S) /\ r \in S
    BY SeqMonotonic DEF Turn, IsList
  <2> HIDE DEF S
  <2> QED
    BY <1>1, <1>3, <2>1, AppendProperties
<1>5. \A k \in 1..Len(D) : D[k] = Due(b[k])
  BY DEF Kept
<1>6. \A k \in 1..Len(D') : D'[k] = Due(b[k])
  <2> TAKE k \in 1..Len(D')
  <2>1. k \in 1..Len(D) \/ k = Len(D) + 1
    BY <1>2, <1>4
  <2> QED
    BY <1>3, <1>4, <1>5, <2>1
<1>7. Len(D') <= Len(b) /\ status' # "done"
  BY <1>1, <1>2, <1>4
<1> QED
  BY <1>1, <1>6, <1>7 DEF Kept

\* So a cycle that ended well has, on record, the verdict of every request of its batch in
\* the order they came.
THEOREM InTurnHolds == Spec => []Verdicts!InTurn
<1>1. Verdicts!InTurn <=> Kept
  BY DEF Verdicts!InTurn, Verdicts!batch, Kept, D, status
<1>2. Init => ShadowInv /\ Turn /\ Kept
  <2> SUFFICES ASSUME Init PROVE ShadowInv /\ Turn /\ Kept
    OBVIOUS
  <2>1. ShadowInv /\ Turn /\ Verdicts!VerdictInit
    BY InitShadowInv, TurnInit
  <2>2. D = <<>> /\ status = "running" /\ Len(session[cycles].batch) \in Nat
    BY <2>1, TurnLengths DEF Verdicts!VerdictInit, D, status
  <2> QED
    BY <2>1, <2>2 DEF Kept
<1>3. ASSUME ShadowInv, Turn, Kept, [Next \/ Rest]_vars PROVE Turn' /\ Kept'
  <2>1. Turn' /\ [Verdicts!VerdictNext]_(Verdicts!verdictVars)
    BY <1>3, VerdictStep
  <2>2. CASE Verdicts!Decide
    BY <1>3, <2>1, <2>2, KeptDecide
  <2>3. CASE Verdicts!Complete \/ Verdicts!Abort
    <3>1. /\ D' = D /\ UNCHANGED <<session, cycles>>
          /\ status' = "done" => Len(D) = Len(session[cycles].batch)
      BY <2>3 DEF Verdicts!Complete, Verdicts!Abort, Verdicts!batch, D, status
    <3> QED
      BY <1>3, <2>1, <3>1 DEF Kept
  <2>4. CASE Verdicts!Start
    <3>1. D' = <<>> /\ status' = "running" /\ Len(D') = 0
      BY <2>4 DEF Verdicts!Start, D, status
    <3>2. Len(session[cycles].batch)' \in Nat
      <4>1. ShadowInv'
        BY <1>3, NextShadowInv
      <4>2. session' \in Sessions /\ cycles' \in 1..Len(session')
        BY <4>1 DEF ShadowInv, Place
      <4>3. session' = session
        BY <2>4 DEF Verdicts!Start
      <4>4. session \in Sessions /\ cycles' \in 1..Len(session)
        BY <4>2, <4>3
      <4>5. session[cycles'].batch \in Seq(Requests)
        BY <4>4, SessionCycle
      <4> QED
        BY <4>3, <4>5, LenProperties
    <3> QED
      BY <2>1, <3>1, <3>2 DEF Kept
  <2>5. CASE UNCHANGED Verdicts!verdictVars
    <3>1. D' = D /\ status' = status /\ UNCHANGED <<session, cycles>>
      BY <2>5 DEF Verdicts!verdictVars, D, status
    <3> QED
      BY <1>3, <2>1, <3>1 DEF Kept
  <2> QED
    BY <2>1, <2>2, <2>3, <2>4, <2>5 DEF Verdicts!VerdictNext
<1>4. ShadowInv /\ Turn /\ Kept /\ [Next \/ Rest]_vars => Turn' /\ Kept'
  BY <1>3
<1> QED
  BY <1>1, <1>2, <1>4, ShadowInductive, PTL DEF Spec
=============================================================================
