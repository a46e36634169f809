---------------------------- MODULE ReplayProofs ----------------------------
(***************************************************************************)
(* Machine-checked proofs about replay runs, for every set of suites on    *)
(* one store, with any brokers, however often a run raises, is killed or   *)
(* is started again.                                                       *)
(***************************************************************************)
EXTENDS Replay, Induction, SequenceTheorems, FiniteSetTheorems, TLAPS

-----------------------------------------------------------------------------
(* Lists, and the rows the reads of the store look at. *)

\* The elements of a list, and what makes a value a list.
Elements(l) == {l[i] : i \in DOMAIN l}

IsList(l) == l \in Seq(Elements(l))

\* The shape of a list.
LEMMA ListShape == ASSUME NEW l, IsList(l) PROVE Len(l) \in Nat /\ DOMAIN l = 1..Len(l)
BY LenProperties DEF IsList

\* One more element, the others as they were.
LEMMA ListAppend ==
    ASSUME NEW l, IsList(l), NEW e
    PROVE  /\ IsList(Append(l, e)) /\ Len(l) \in Nat /\ Len(Append(l, e)) = Len(l) + 1
           /\ DOMAIN l = 1..Len(l) /\ DOMAIN Append(l, e) = 1..(Len(l) + 1)
           /\ \A i \in 1..Len(l) : Append(l, e)[i] = l[i]
           /\ Append(l, e)[Len(l) + 1] = e
<1> DEFINE m == Append(l, e)
           S == Elements(l) \cup {e}
<1>1. l \in Seq(S)
  BY SeqMonotonic DEF IsList
<1>2. e \in S
  OBVIOUS
<1> HIDE DEF S
<1>3. /\ Len(l) \in Nat /\ DOMAIN l = 1..Len(l)
  BY <1>1, LenProperties
<1>4. /\ m \in Seq(S) /\ Len(m) = Len(l) + 1
      /\ \A i \in 1..Len(l) : m[i] = l[i]
      /\ m[Len(l) + 1] = e
  BY <1>1, <1>2, AppendProperties
<1> HIDE DEF m
<1>5. DOMAIN m = 1..(Len(l) + 1)
  BY <1>4, LenProperties
<1>6. S = Elements(m)
  BY <1>3, <1>4, <1>5 DEF S, Elements
<1> QED
  BY <1>3, <1>4, <1>5, <1>6 DEF IsList, m

\* An append adds its own row to the attempts or the reports of its own key.
LEMMA RowsOfKey ==
    ASSUME NEW l, IsList(l), NEW e
    PROVE  \A k :
             /\ SubmitsOf(Append(l, e), k) = SubmitsOf(l, k) \cup
                   (IF e.type = "BROKER_SUBMIT_INTENT" /\ e.key = k THEN {Len(l) + 1} ELSE {})
             /\ ReportsOf(Append(l, e), k) = ReportsOf(l, k) \cup
                   (IF e.type = "EXECUTION_REPORT" /\ e.key = k THEN {Len(l) + 1} ELSE {})
<1> DEFINE m == Append(l, e)
<1>1. /\ Len(l) \in Nat /\ Len(m) = Len(l) + 1
      /\ \A i \in 1..Len(l) : m[i] = l[i]
      /\ m[Len(l) + 1] = e
  BY ListAppend
<1> HIDE DEF m
<1>2. 1..Len(m) = (1..Len(l)) \cup {Len(l) + 1}
  BY <1>1
<1>3. ASSUME NEW k
      PROVE  /\ SubmitsOf(m, k) = SubmitsOf(l, k) \cup
                   (IF e.type = "BROKER_SUBMIT_INTENT" /\ e.key = k THEN {Len(l) + 1} ELSE {})
             /\ ReportsOf(m, k) = ReportsOf(l, k) \cup
                   (IF e.type = "EXECUTION_REPORT" /\ e.key = k THEN {Len(l) + 1} ELSE {})
  BY <1>1, <1>2 DEF SubmitsOf, ReportsOf
<1> QED
  BY <1>3 DEF m

-----------------------------------------------------------------------------
(* What the strategy filters on, the gateway does not reject. *)

\* Which gate a code comes from.
LEMMA CodesOfGates ==
    ASSUME NEW r
    PROVE  /\ "DTE_MISMATCH" \in Collected(r) => ~dte_matches_claim(r)
           /\ "CONTRACT_SPREAD_MISMATCH" \in Collected(r) =>
                 ~matches_candidate(r.spread_contract, r.candidate)
           /\ "ENTRY_WINDOW_CLOSED" \in Collected(r) =>
                 ~(/\ ENTRY_WINDOW_OPEN_CT_MIN <= ct_minutes_since_midnight(r)
                   /\ ct_minutes_since_midnight(r) < ENTRY_WINDOW_CLOSE_CT_MIN)
<1> DEFINE Silent(gate) == /\ "DTE_MISMATCH" \notin gate
                           /\ "CONTRACT_SPREAD_MISMATCH" \notin gate
                           /\ "ENTRY_WINDOW_CLOSED" \notin gate
<1>1. \A fires, code :
          code \notin {"DTE_MISMATCH", "CONTRACT_SPREAD_MISMATCH", "ENTRY_WINDOW_CLOSED"} =>
              Silent(Code(fires, code))
  BY DEF Code
<1>2. /\ Silent(gate_account_mode(r.account)) /\ Silent(gate_instrument_permitted(r))
      /\ Silent(gate_delta_band(r.candidate)) /\ Silent(gate_strategy_live(r.strategy_stage))
  BY <1>1 DEF gate_account_mode, gate_instrument_permitted, gate_delta_band, gate_strategy_live
<1>3. /\ Silent(gate_portfolio_heat(r.heat)) /\ Silent(gate_concentration(r.concentration))
      /\ Silent(gate_liquidity(r.liquidity))
      /\ Silent(gate_execution_quality(r.execution_quality))
  BY <1>1 DEF gate_portfolio_heat, gate_concentration, gate_liquidity, gate_execution_quality
<1>4. /\ Silent(gate_drawdown(r.drawdown)) /\ Silent(gate_protection(r.protection))
      /\ Silent(gate_multi_leg(r.multi_leg))
  BY <1>1 DEF gate_drawdown, gate_protection, gate_multi_leg
<1>5. /\ Silent(gate_event_blackout(r.event_calendar, r.as_of.t))
      /\ Silent(gate_reconciliation(r.reconciliation))
      /\ Silent(gate_feed_certification(r.feed_certification, r.as_of.t,
                                        require_spx_feed_coverage(r)))
  BY <1>1 DEF gate_event_blackout, gate_reconciliation, gate_feed_certification
<1>6. Silent(gate_data_freshness(r.data_snapshot, is_zero_dte_after_2pm_ct(r)))
  BY DEF gate_data_freshness
<1>7. \A c \in {"DTE_MISMATCH", "CONTRACT_SPREAD_MISMATCH", "ENTRY_WINDOW_CLOSED"} :
          c \in Collected(r) =>
              \/ c \in gate_contract_metadata(r) \/ c \in gate_dte_match(r)
              \/ c \in gate_entry_window(ct_minutes_since_midnight(r))
  BY <1>2, <1>3, <1>4, <1>5, <1>6 DEF Collected
<1>8. \A c \in gate_dte_match(r) : c = "DTE_MISMATCH" /\ ~dte_matches_claim(r)
  BY DEF gate_dte_match, Code
<1>9. \A c \in gate_contract_metadata(r) :
          \/ c = "CONTRACT_METADATA_INVALID"
          \/ c = "CONTRACT_SPREAD_MISMATCH" /\ ~matches_candidate(r.spread_contract, r.candidate)
  BY DEF gate_contract_metadata, Code
<1>10. \A c \in gate_entry_window(ct_minutes_since_midnight(r)) :
          /\ c = "ENTRY_WINDOW_CLOSED"
          /\ ~(/\ ENTRY_WINDOW_OPEN_CT_MIN <= ct_minutes_since_midnight(r)
               /\ ct_minutes_since_midnight(r) < ENTRY_WINDOW_CLOSE_CT_MIN)
  BY DEF gate_entry_window, Code
<1> QED
  BY <1>7, <1>8, <1>9, <1>10

\* The strategy and the safety state look at the same contracts, with one multiplier.
SameContracts(sc) ==
    /\ Symbols(sc.ctx) \subseteq DOMAIN sc.ctx.fixture.contracts
    /\ sc.safety.spread_contract = SpreadOf(sc.ctx)
    /\ sc.ctx.underlying = SpreadOf(sc.ctx).short_contract.underlying
    /\ SpreadOf(sc.ctx).short_contract.multiplier = SpreadOf(sc.ctx).long_contract.multiplier

\* A proposal built from them gets none of the three codes.
LEMMA Prefiltered ==
    ASSUME NEW sc \in Scenarios, generate(sc.strategy, sc.ctx) = "Proposal", SameContracts(sc)
    PROVE  validate(RequestOf(sc)) \cap
               {"DTE_MISMATCH", "CONTRACT_SPREAD_MISMATCH", "ENTRY_WINDOW_CLOSED"} = {}
<1> DEFINE r == RequestOf(sc)
           c == build_candidate(sc.strategy, sc.ctx)
<1>1. {"candidate", "as_of", "spread_contract"} \subseteq DOMAIN sc.safety
  BY ReplayAssumption
<1>2. /\ r.candidate = c /\ r.as_of = sc.ctx.as_of
      /\ r.spread_contract = SpreadOf(sc.ctx)
  BY <1>1 DEF RequestOf, SameContracts
<1>3. collect_inputs(sc.ctx) = "Collected" /\ ~Filtered(sc.ctx)
  <2>1. collect_inputs(sc.ctx) \in {"Unavailable", "Raises", "Collected"}
    BY DEF collect_inputs
  <2> QED
    BY <2>1 DEF generate
<1>4. SpreadContractValid(SpreadOf(sc.ctx))
  BY <1>3 DEF collect_inputs
<1> HIDE DEF r
<1>5. dte_matches_claim(r)
  BY <1>2 DEF dte_matches_claim, build_candidate, InputDte, derived_dte
<1>6. matches_candidate(r.spread_contract, r.candidate)
  <2> DEFINE short == SpreadOf(sc.ctx).short_contract
             long == SpreadOf(sc.ctx).long_contract
  <2>1. /\ short.underlying = long.underlying /\ short.option_type = long.option_type
        /\ short.multiplier = long.multiplier /\ sc.ctx.underlying = short.underlying
    BY <1>4 DEF SpreadContractValid, SameContracts
  <2>2. /\ c.underlying = sc.ctx.underlying /\ c.multiplier = short.multiplier
        /\ c.short_leg.option_type = short.option_type
        /\ c.long_leg.option_type = short.option_type
    BY DEF build_candidate, ProposedLeg
  <2>3. c.short_leg.strike = short.strike /\ c.long_leg.strike = long.strike
    BY DEF build_candidate, ProposedLeg, SpreadOf
  <2> HIDE DEF c
  <2> QED
    BY <1>2, <2>1, <2>2, <2>3 DEF matches_candidate, LegMatches
<1>7. /\ ENTRY_WINDOW_OPEN_CT_MIN <= ct_minutes_since_midnight(r)
      /\ ct_minutes_since_midnight(r) < ENTRY_WINDOW_CLOSE_CT_MIN
  <2>1. ct_minutes_since_midnight(r) = ct_minutes_since_midnight(sc.ctx)
    BY <1>2 DEF ct_minutes_since_midnight
  <2>2. within_entry_window(sc.ctx)
    BY <1>3 DEF Filtered
  <2> QED
    BY <2>1, <2>2 DEF within_entry_window
<1>8. Collected(r) \cap {"DTE_MISMATCH", "CONTRACT_SPREAD_MISMATCH", "ENTRY_WINDOW_CLOSED"} = {}
  BY <1>5, <1>6, <1>7, CodesOfGates
<1>9. validate(r) \subseteq Collected(r) \cup {"INTERNAL_CONTRADICTION"}
  BY DEF validate, Code
<1> QED
  BY <1>8, <1>9 DEF r

-----------------------------------------------------------------------------
(* The inductive invariant. *)

\* A scenario is being replayed; its attempt is on record.
Sent == {"Submit", "Failed", "Report", "Drill"}
Midway == {"Decide", "Ticket", "Intent"} \cup Sent

Key == KeyOf(IntentOf(Scenario))

Rejects(l, S) == {i \in S : l[i].decision = "REJECT"}

\* The rows a result owns tell how it came about.
Evidenced(l, r) ==
    LET own == r.audit_event_seqs
    IN  IF r.idempotency_key = NoKey
        THEN \E i \in own : /\ l[i].decision \in {"REJECT", "NO_TRADE"}
                            /\ \A j \in own : j <= i
        ELSE /\ \E i \in own \cap SubmitsOf(l, r.idempotency_key) :
                   \E j \in Rejects(l, own) \cup ReportsOf(l, r.idempotency_key) :
                      j \in own /\ i < j
             /\ r.outcome \in {"FILLED", "PARTIAL_FILL", "WORKING"} /\ ~r.drill.deduped =>
                   Cardinality(Rejects(l, own)) = r.submit_attempts - 1

\* One report at most for a result's key, and it says what the result says.
Reported(l, r) ==
    r.idempotency_key # NoKey =>
        /\ r.idempotency_key \in Keys /\ SubmitsOf(l, r.idempotency_key) # {}
        /\ \/ ReportsOf(l, r.idempotency_key) = {} /\ r.outcome \in UNRESOLVED_OUTCOMES
           \/ \E i \in 1..Len(l) :
                 /\ ReportsOf(l, r.idempotency_key) = {i}
                 /\ r.outcome = LifecycleOutcome(l[i].life)
                 /\ Profile[r.scenario.broker] # "remote" =>
                       l[i].life \in {"FILLED", "PARTIAL_FILL", "WORKING"}

Coded(r) ==
    SameContracts(r.scenario) =>
        r.reason_codes \cap {"DTE_MISMATCH", "CONTRACT_SPREAD_MISMATCH", "ENTRY_WINDOW_CLOSED"} = {}

ResultSound(l, r) ==
    /\ r.audit_event_seqs \subseteq 1..Len(l)
    /\ Evidenced(l, r) /\ Reported(l, r) /\ Coded(r)
    /\ r.unresolved <=> r.outcome \in UNRESOLVED_OUTCOMES

Shapes ==
    /\ IsList(log) /\ IsList(results) /\ suite \in Seq(Scenarios)
    /\ session \in Sessions /\ runs \in 1..Len(session)
    /\ pc \in {"Start"} \cup Midway \cup Ended
    /\ book \in [Brokers -> [Keys -> Order \cup {NoOrder}]] /\ placed \in [Keys -> Nat]

\* What the steps behind the scenario have decided.
Place ==
    /\ pc \in Midway => suite # <<>> /\ generate(Scenario.strategy, Scenario.ctx) = "Proposal"
    /\ pc \in Sent \cup {"Intent"} =>
          mint_order_ticket(RequestOf(Scenario).candidate, Scenario.routing_state)
    /\ pc \in Sent => IntentMints(Scenario)

\* No two results share a row, nor does the scenario at work with any of them.
Claims ==
    /\ \A i, j \in DOMAIN results :
          i # j => results[i].audit_event_seqs \cap results[j].audit_event_seqs = {}
    /\ pc \in Midway =>
          /\ claimed \subseteq 1..Len(log)
          /\ \A i \in DOMAIN results : claimed \cap results[i].audit_event_seqs = {}

\* No order without its attempt, no report without an attempt, and before the broker is
\* called the key is new to it.
Orders ==
    /\ \A k \in Keys : /\ placed[k] <= 1
                       /\ placed[k] > 0 \/ ReportsOf(log, k) # {} => SubmitsOf(log, k) # {}
    /\ \A b \in Brokers, k \in Keys : book[b][k] # NoOrder => placed[k] > 0
    /\ pc = "Submit" => placed[Key] = 0
    /\ pc \in {"Report", "Drill"} => book[Scenario.broker][Key] # NoOrder

\* What the scenario at work has on record so far.
Own ==
    /\ pc \in {"Start"} \cup (Midway \ {"Drill"}) => drill = NoDrill
    /\ pc \in Midway \ {"Drill"} => Rejects(log, claimed) = {}
    /\ pc \in Sent => claimed \cap SubmitsOf(log, Key) # {}
    /\ pc \in {"Submit", "Failed", "Report"} => attempts = 1 /\ ReportsOf(log, Key) = {}
    /\ pc \in {"Report", "Drill"} => \A o, q \in fill : o = q
    /\ pc \in {"Report", "Drill"} /\ Profile[Scenario.broker] # "remote" =>
          \A o \in fill : o.life \in {"FILLED", "PARTIAL_FILL", "WORKING"}
    /\ pc = "Drill" =>
          /\ attempts \in Nat
          /\ ~drill.deduped => Cardinality(Rejects(log, claimed)) = attempts - 1
          /\ \E i \in claimed \cap SubmitsOf(log, Key), j \in claimed :
                /\ i < j /\ ReportsOf(log, Key) = {j}
                /\ \A o \in fill : log[j].life = o.life

AllSound ==
    /\ \A i \in DOMAIN results : ResultSound(log, results[i])
    /\ pc \in Sent => \A i \in DOMAIN results : results[i].idempotency_key # Key

ReplayInv == Shapes /\ Place /\ Claims /\ Orders /\ Own /\ AllSound

-----------------------------------------------------------------------------
(* What later steps leave of a result. *)

\* A result stays sound while rows are only added and none is a report for its key.
LEMMA SoundKept ==
    ASSUME NEW l, NEW m, NEW r, ResultSound(l, r), Len(l) \in Nat, Len(m) \in Nat,
           Len(l) <= Len(m), \A i \in 1..Len(l) : m[i] = l[i],
           r.idempotency_key # NoKey =>
               ReportsOf(m, r.idempotency_key) = ReportsOf(l, r.idempotency_key)
    PROVE  ResultSound(m, r)
<1> DEFINE own == r.audit_event_seqs
           k == r.idempotency_key
<1>1. own \subseteq 1..Len(l) /\ own \subseteq 1..Len(m) /\ \A i \in own : m[i] = l[i]
  BY DEF ResultSound
<1>2. SubmitsOf(l, k) \subseteq SubmitsOf(m, k)
  BY DEF SubmitsOf
<1>3. Rejects(m, own) = Rejects(l, own)
  BY <1>1 DEF Rejects
<1>4. Evidenced(m, r)
  <2>1. CASE k = NoKey
    BY <1>1, <2>1 DEF ResultSound, Evidenced
  <2>2. CASE k # NoKey
    <3>1. Evidenced(l, r) /\ ReportsOf(m, k) = ReportsOf(l, k)
      BY <2>2 DEF ResultSound
    <3> QED
      BY <1>2, <1>3, <2>2, <3>1 DEF Evidenced
  <2> QED
    BY <2>1, <2>2
<1>5. Reported(m, r)
  <2>1. SUFFICES ASSUME k # NoKey PROVE Reported(m, r)
    BY DEF Reported
  <2>2. Reported(l, r) /\ ReportsOf(m, k) = ReportsOf(l, k)
    BY <2>1 DEF ResultSound
  <2>3. k \in Keys /\ SubmitsOf(m, k) # {}
    BY <1>2, <2>1, <2>2 DEF Reported
  <2>4. CASE ReportsOf(l, k) = {} /\ r.outcome \in UNRESOLVED_OUTCOMES
    BY <2>2, <2>3, <2>4 DEF Reported
  <2>5. CASE \E i \in 1..Len(l) :
                /\ ReportsOf(l, k) = {i} /\ r.outcome = LifecycleOutcome(l[i].life)
                /\ Profile[r.scenario.broker] # "remote" =>
                      l[i].life \in {"FILLED", "PARTIAL_FILL", "WORKING"}
    <3>1. PICK i \in 1..Len(l) :
                /\ ReportsOf(l, k) = {i} /\ r.outcome = LifecycleOutcome(l[i].life)
                /\ Profile[r.scenario.broker] # "remote" =>
                      l[i].life \in {"FILLED", "PARTIAL_FILL", "WORKING"}
      BY <2>5
    <3>2. i \in 1..Len(m) /\ m[i] = l[i]
      OBVIOUS
    <3> QED
      BY <2>2, <2>3, <3>1, <3>2 DEF Reported
  <2> QED
    BY <2>1, <2>2, <2>4, <2>5 DEF Reported
<1> QED
  BY <1>1, <1>4, <1>5 DEF ResultSound

\* So do all of them.
LEMMA AllKept ==
    ASSUME ReplayInv, Len(log') \in Nat, Len(log) <= Len(log'),
           \A i \in 1..Len(log) : log'[i] = log[i],
           \A i \in DOMAIN results : results[i].idempotency_key # NoKey =>
               ReportsOf(log', results[i].idempotency_key) = ReportsOf(log, results[i].idempotency_key)
    PROVE  \A i \in DOMAIN results : ResultSound(log', results[i])
<1>1. Len(log) \in Nat
  BY ListShape DEF ReplayInv, Shapes
<1> TAKE i \in DOMAIN results
<1>2. ResultSound(log, results[i])
  BY DEF ReplayInv, AllSound
<1> QED
  BY <1>1, <1>2, SoundKept

\* A row that is neither an attempt nor a report is invisible to the reads of the store.
Unseen(e) == e.type \notin {"BROKER_SUBMIT_INTENT", "EXECUTION_REPORT"}

\* The store after no append, or after one of such a row.
LEMMA QuietLog ==
    ASSUME IsList(log), UNCHANGED log \/ \E e : log' = Append(log, e) /\ Unseen(e)
    PROVE  /\ IsList(log') /\ Len(log) \in Nat /\ Len(log') \in Nat /\ Len(log) <= Len(log')
           /\ \A i \in 1..Len(log) : log'[i] = log[i]
           /\ \A k : SubmitsOf(log', k) = SubmitsOf(log, k) /\ ReportsOf(log', k) = ReportsOf(log, k)
<1>1. CASE UNCHANGED log
  <2>1. Len(log) \in Nat
    BY ListShape
  <2> QED
    BY <1>1, <2>1
<1>2. CASE \E e : log' = Append(log, e) /\ Unseen(e)
  <2>1. PICK e : log' = Append(log, e) /\ Unseen(e)
    BY <1>2
  <2>2. /\ IsList(log') /\ Len(log) \in Nat /\ Len(log') = Len(log) + 1
        /\ \A i \in 1..Len(log) : log'[i] = log[i]
    BY <2>1, ListAppend
  <2>3. \A k : SubmitsOf(log', k) = SubmitsOf(log, k) /\ ReportsOf(log', k) = ReportsOf(log, k)
    <3>1. e.type # "BROKER_SUBMIT_INTENT" /\ e.type # "EXECUTION_REPORT"
      BY <2>1 DEF Unseen
    <3>2. \A k :
             /\ SubmitsOf(log', k) = SubmitsOf(log, k) \cup
                   (IF e.type = "BROKER_SUBMIT_INTENT" /\ e.key = k THEN {Len(log) + 1} ELSE {})
             /\ ReportsOf(log', k) = ReportsOf(log, k) \cup
                   (IF e.type = "EXECUTION_REPORT" /\ e.key = k THEN {Len(log) + 1} ELSE {})
      BY <2>1, RowsOfKey
    <3> QED
      BY <3>1, <3>2
  <2> QED
    BY <2>2, <2>3
<1> QED
  BY <1>1, <1>2

-----------------------------------------------------------------------------
(* One lemma per kind of step. *)

\* _finalize: a sound result with rows of its own is added, and the next scenario starts.
LEMMA Finalized ==
    ASSUME ReplayInv, suite # <<>>, suite' = Tail(suite), pc' = "Start", Fresh,
           UNCHANGED <<book, placed, session, runs>>,
           UNCHANGED log \/ \E e : log' = Append(log, e) /\ Unseen(e),
           \E r : /\ results' = Append(results, r) /\ ResultSound(log', r)
                  /\ \A i \in DOMAIN results : r.audit_event_seqs \cap results[i].audit_event_seqs = {}
    PROVE  ReplayInv'
<1>1. /\ IsList(log) /\ IsList(results) /\ suite \in Seq(Scenarios)
      /\ session \in Sessions /\ runs \in 1..Len(session)
      /\ book \in [Brokers -> [Keys -> Order \cup {NoOrder}]] /\ placed \in [Keys -> Nat]
  BY DEF ReplayInv, Shapes
<1>2. /\ IsList(log') /\ Len(log) \in Nat /\ Len(log') \in Nat /\ Len(log) <= Len(log')
      /\ \A i \in 1..Len(log) : log'[i] = log[i]
      /\ \A k : SubmitsOf(log', k) = SubmitsOf(log, k) /\ ReportsOf(log', k) = ReportsOf(log, k)
  BY <1>1, QuietLog
<1>3. PICK r : /\ results' = Append(results, r) /\ ResultSound(log', r)
               /\ \A i \in DOMAIN results : r.audit_event_seqs \cap results[i].audit_event_seqs = {}
  OBVIOUS
<1>4. /\ IsList(results') /\ Len(results) \in Nat /\ DOMAIN results = 1..Len(results)
      /\ DOMAIN results' = 1..(Len(results) + 1)
      /\ \A i \in 1..Len(results) : results'[i] = results[i]
      /\ results'[Len(results) + 1] = r
  BY <1>1, <1>3, ListAppend
<1>5. \A i \in DOMAIN results' : i \in DOMAIN results \/ i = Len(results) + 1
  BY <1>4
<1>6. pc' \notin Midway /\ pc' \notin Sent \cup {"Intent"} /\ pc' # "Submit"
      /\ pc' \notin {"Report", "Drill"} /\ pc' \notin Sent /\ pc' # "Drill"
      /\ pc' \notin {"Submit", "Failed", "Report"}
  BY DEF Midway, Sent
<1>7. Shapes'
  <2>1. suite' \in Seq(Scenarios)
    BY <1>1, HeadTailProperties
  <2> QED
    BY <1>1, <1>2, <1>4, <2>1 DEF Shapes
<1>8. Claims'
  <2>1. \A i, j \in DOMAIN results' :
           i # j => results'[i].audit_event_seqs \cap results'[j].audit_event_seqs = {}
    <3> TAKE i, j \in DOMAIN results'
    <3> HAVE i # j
    <3>1. CASE i \in DOMAIN results /\ j \in DOMAIN results
      BY <1>4, <3>1 DEF ReplayInv, Claims
    <3>2. CASE i \in DOMAIN results /\ j = Len(results) + 1
      BY <1>3, <1>4, <3>2
    <3>3. CASE j \in DOMAIN results /\ i = Len(results) + 1
      BY <1>3, <1>4, <3>3
    <3> QED
      BY <1>5, <3>1, <3>2, <3>3
  <2> QED
    BY <1>6, <2>1 DEF Claims
<1>9. Orders'
  BY <1>2, <1>6 DEF ReplayInv, Orders
<1>10. Own'
  BY <1>6 DEF Own, Fresh
<1>11. AllSound'
  <2>1. \A i \in DOMAIN results : ResultSound(log', results[i])
    BY <1>2, AllKept
  <2>2. \A i \in DOMAIN results' : ResultSound(log', results'[i])
    BY <1>3, <1>4, <1>5, <2>1
  <2> QED
    BY <1>6, <2>2 DEF AllSound
<1> QED
  BY <1>6, <1>7, <1>8, <1>9, <1>10, <1>11 DEF ReplayInv, Place

\* The scenario at work is one of the suites', and its key one of the store's.
LEMMA AtWork ==
    ASSUME ReplayInv, suite # <<>>
    PROVE  /\ Scenario \in Scenarios /\ Scenario.broker \in Brokers
           /\ Mintable(Scenario) =>
                 /\ IntentOf(Scenario) \in Intents /\ Key \in Keys /\ Key # NoKey
<1>1. Scenario \in Scenarios
  BY HeadTailProperties DEF ReplayInv, Shapes, Scenario
<1>2. Scenario.broker \in Brokers
  BY <1>1, ReplayAssumption
<1>3. Mintable(Scenario) => IntentOf(Scenario) \in Intents
  BY <1>1, ReplayAssumption
<1>4. \A intent \in Intents : KeyOf(intent) \in Keys
  BY DEF Intents, Keys, KeyOf
<1> QED
  BY <1>1, <1>2, <1>3, <1>4, ReplayAssumption DEF Key

\* So it is once the attempt is on record.
LEMMA AtSent ==
    ASSUME ReplayInv, pc \in Sent
    PROVE  /\ suite # <<>> /\ Scenario \in Scenarios /\ Scenario.broker \in Brokers
           /\ IntentOf(Scenario) \in Intents /\ Key \in Keys /\ Key # NoKey
<1>1. suite # <<>> /\ Mintable(Scenario)
  BY DEF ReplayInv, Place, Mintable, Midway
<1> QED
  BY <1>1, AtWork

\* A scenario that ends in an artifact before anything is submitted.
LEMMA Unsent ==
    ASSUME ReplayInv, suite # <<>>, NEW d \in {"REJECT", "NO_TRADE"}, append(AuditArtifact(d)),
           \/ claimed' = {Len(log) + 1}
           \/ pc \in Midway /\ claimed' = claimed \cup {Len(log) + 1},
           NEW outcome, NEW codes, finalize(outcome, codes, NoKey, {}),
           SameContracts(Scenario) =>
               codes \cap {"DTE_MISMATCH", "CONTRACT_SPREAD_MISMATCH", "ENTRY_WINDOW_CLOSED"} = {},
           Fresh, UNCHANGED <<book, placed, session, runs>>
    PROVE  ReplayInv'
<1> DEFINE e == AuditArtifact(d)
           r == [scenario |-> Scenario, outcome |-> outcome, reason_codes |-> codes,
                 passed |-> passed(Scenario, outcome, codes \cap HazardCodes # {}),
                 idempotency_key |-> NoKey,
                 submit_attempts |-> attempts, drill |-> drill, realized_pnl |-> {},
                 unresolved |-> outcome \in UNRESOLVED_OUTCOMES, audit_event_seqs |-> claimed']
<1>1. /\ results' = Append(results, r) /\ suite' = Tail(suite) /\ pc' = "Start"
      /\ log' = Append(log, e)
  BY DEF finalize, append
<1>2. /\ r.scenario = Scenario /\ r.outcome = outcome /\ r.reason_codes = codes
      /\ r.idempotency_key = NoKey /\ r.audit_event_seqs = claimed'
      /\ r.unresolved <=> outcome \in UNRESOLVED_OUTCOMES
  OBVIOUS
<1>3. e.decision = d /\ Unseen(e)
  BY DEF AuditArtifact, Plain, Unseen
<1> HIDE DEF e, r
<1>4. /\ Len(log) \in Nat /\ Len(log') = Len(log) + 1
      /\ log'[Len(log) + 1] = e
  BY <1>1, ListAppend DEF ReplayInv, Shapes
<1>5. /\ claimed' \subseteq 1..Len(log') /\ Len(log) + 1 \in claimed'
      /\ \A j \in claimed' : j <= Len(log) + 1
  BY <1>4 DEF ReplayInv, Claims
<1>6. \A i \in DOMAIN results : r.audit_event_seqs \cap results[i].audit_event_seqs = {}
  <2> TAKE i \in DOMAIN results
  <2>1. results[i].audit_event_seqs \subseteq 1..Len(log)
    BY DEF ReplayInv, AllSound, ResultSound
  <2>2. pc \in Midway => claimed \cap results[i].audit_event_seqs = {}
    BY DEF ReplayInv, Claims
  <2> QED
    BY <1>2, <1>4, <2>1, <2>2
<1>7. ResultSound(log', r)
  <2>1. Evidenced(log', r)
    BY <1>2, <1>3, <1>4, <1>5 DEF Evidenced
  <2>2. Reported(log', r) /\ Coded(r)
    BY <1>2 DEF Reported, Coded
  <2> QED
    BY <1>2, <1>5, <2>1, <2>2 DEF ResultSound
<1> QED
  BY <1>1, <1>3, <1>6, <1>7, Finalized

\* A scenario whose attempt failed at the broker or at its report.
LEMMA SentFails ==
    ASSUME ReplayInv, pc \in {"Failed", "Report"}, Audit(AuditArtifact("REJECT")),
           NEW outcome \in UNRESOLVED_OUTCOMES \ {"FILLED", "PARTIAL_FILL", "WORKING"},
           NEW codes \in SUBSET {"INTERNAL_CONTRADICTION"}, finalize(outcome, codes, Key, {}),
           Fresh, UNCHANGED <<book, placed, session, runs>>
    PROVE  ReplayInv'
<1> DEFINE e == AuditArtifact("REJECT")
           k == Key
           r == [scenario |-> Scenario, outcome |-> outcome, reason_codes |-> codes,
                 passed |-> passed(Scenario, outcome, codes \cap HazardCodes # {}),
                 idempotency_key |-> k,
                 submit_attempts |-> attempts, drill |-> drill, realized_pnl |-> {},
                 unresolved |-> outcome \in UNRESOLVED_OUTCOMES, audit_event_seqs |-> claimed']
<1>1. /\ results' = Append(results, r) /\ suite' = Tail(suite) /\ pc' = "Start"
      /\ log' = Append(log, e) /\ claimed' = claimed \cup {Len(log) + 1}
  BY DEF finalize, append, Audit
<1>2. /\ r.scenario = Scenario /\ r.outcome = outcome /\ r.reason_codes = codes
      /\ r.idempotency_key = k /\ r.audit_event_seqs = claimed'
      /\ r.unresolved <=> outcome \in UNRESOLVED_OUTCOMES
  OBVIOUS
<1>3. e.decision = "REJECT" /\ Unseen(e)
  BY DEF AuditArtifact, Plain, Unseen
<1>4. pc \in Sent /\ pc \in Midway /\ suite # <<>> /\ k \in Keys /\ k # NoKey
  BY AtSent DEF Sent, Midway
<1>5. /\ claimed \cap SubmitsOf(log, k) # {} /\ ReportsOf(log, k) = {}
      /\ claimed \subseteq 1..Len(log)
  BY <1>4 DEF ReplayInv, Own, Claims
<1> HIDE DEF e, r, k
<1>6. /\ Len(log) \in Nat /\ Len(log') = Len(log) + 1
      /\ log'[Len(log) + 1] = e
  BY <1>1, ListAppend DEF ReplayInv, Shapes
<1>7. SubmitsOf(log', k) = SubmitsOf(log, k) /\ ReportsOf(log', k) = {}
  <2>1. IsList(log)
    BY DEF ReplayInv, Shapes
  <2>2. \A j : SubmitsOf(log', j) = SubmitsOf(log, j) /\ ReportsOf(log', j) = ReportsOf(log, j)
    BY <1>1, <1>3, <2>1, QuietLog
  <2> QED
    BY <1>5, <2>2
<1>8. /\ claimed' = claimed \cup {Len(log) + 1} /\ claimed' \subseteq 1..Len(log')
      /\ \A i \in claimed : i < Len(log) + 1
  <2>1. claimed' = claimed \cup {Len(log) + 1} /\ \A i \in claimed : i \in 1..Len(log)
    BY <1>1, <1>5
  <2>2. \A i \in claimed : i \in 1..(Len(log) + 1) /\ i < Len(log) + 1
    BY <1>6, <2>1
  <2> QED
    BY <1>6, <2>1, <2>2
<1>9. \A i \in DOMAIN results : r.audit_event_seqs \cap results[i].audit_event_seqs = {}
  <2> TAKE i \in DOMAIN results
  <2>1. results[i].audit_event_seqs \subseteq 1..Len(log)
    BY DEF ReplayInv, AllSound, ResultSound
  <2>2. claimed \cap results[i].audit_event_seqs = {}
    BY <1>4 DEF ReplayInv, Claims
  <2> QED
    BY <1>1, <1>2, <1>6, <2>1, <2>2
<1>10. ResultSound(log', r)
  <2>1. PICK i \in claimed : i \in SubmitsOf(log', k)
    BY <1>5, <1>7
  <2>2. Len(log) + 1 \in Rejects(log', claimed') /\ i < Len(log) + 1
    BY <1>3, <1>6, <1>8, <2>1 DEF Rejects
  <2>3. Evidenced(log', r)
    BY <1>1, <1>2, <1>4, <2>1, <2>2 DEF Evidenced
  <2>4. Reported(log', r)
    BY <1>2, <1>4, <1>7, <2>1 DEF Reported
  <2>5. Coded(r)
    BY <1>2 DEF Coded
  <2> QED
    BY <1>2, <1>8, <2>3, <2>4, <2>5 DEF ResultSound
<1> QED
  BY <1>1, <1>3, <1>4, <1>9, <1>10, Finalized

\* A scenario that goes through to its outcome.
LEMMA Completed == ASSUME ReplayInv, Complete PROVE ReplayInv'
<1>1. /\ pc = "Drill" /\ UNCHANGED <<log, claimed>> /\ Fresh
      /\ UNCHANGED <<book, placed, session, runs>>
  BY DEF Complete, Running
<1>2. PICK order \in fill :
             finalize(LifecycleOutcome(order.life), {}, KeyOf(IntentOf(Scenario)),
                      compute_pnl(Scenario, order))
  BY DEF Complete
<1> DEFINE k == Key
           outcome == LifecycleOutcome(order.life)
           r == [scenario |-> Scenario, outcome |-> outcome, reason_codes |-> {},
                 passed |-> passed(Scenario, outcome, {} \cap HazardCodes # {}),
                 idempotency_key |-> k, submit_attempts |-> attempts, drill |-> drill,
                 realized_pnl |-> compute_pnl(Scenario, order),
                 unresolved |-> outcome \in UNRESOLVED_OUTCOMES, audit_event_seqs |-> claimed']
<1>3. results' = Append(results, r) /\ suite' = Tail(suite) /\ pc' = "Start"
  BY <1>2 DEF finalize, Key
<1>4. /\ r.scenario = Scenario /\ r.outcome = outcome /\ r.reason_codes = {}
      /\ r.idempotency_key = k /\ r.audit_event_seqs = claimed'
      /\ r.submit_attempts = attempts /\ r.drill = drill
      /\ r.unresolved <=> outcome \in UNRESOLVED_OUTCOMES
  OBVIOUS
<1>5. pc \in Sent /\ pc \in Midway /\ suite # <<>> /\ k \in Keys /\ k # NoKey
  BY <1>1, AtSent DEF Sent, Midway
<1>6. /\ ~drill.deduped => Cardinality(Rejects(log, claimed)) = attempts - 1
      /\ Profile[Scenario.broker] # "remote" => order.life \in {"FILLED", "PARTIAL_FILL", "WORKING"}
      /\ \E i \in claimed \cap SubmitsOf(log, k), j \in claimed :
            i < j /\ ReportsOf(log, k) = {j} /\ log[j].life = order.life
      /\ claimed \subseteq 1..Len(log)
  BY <1>1, <1>5 DEF ReplayInv, Own, Claims
<1> HIDE DEF r, k, outcome
<1>7. PICK i \in claimed \cap SubmitsOf(log, k), j \in claimed :
             i < j /\ ReportsOf(log, k) = {j} /\ log[j].life = order.life
  BY <1>6
<1>8. Evidenced(log, r)
  BY <1>1, <1>4, <1>5, <1>6, <1>7 DEF Evidenced
<1>9. Reported(log, r)
  BY <1>4, <1>5, <1>6, <1>7 DEF Reported, outcome
<1>10. ResultSound(log', r)
  BY <1>1, <1>4, <1>6, <1>8, <1>9 DEF ResultSound, Coded
<1>11. \A n \in DOMAIN results : r.audit_event_seqs \cap results[n].audit_event_seqs = {}
  BY <1>1, <1>4, <1>5 DEF ReplayInv, Claims
<1> QED
  BY <1>1, <1>3, <1>5, <1>10, <1>11, Finalized

\* A step towards the submit intent, with its row.
LEMMA Moved ==
    ASSUME ReplayInv, suite # <<>>, NEW t, append(Plain(t, "NONE")),
           t \notin {"BROKER_SUBMIT_INTENT", "EXECUTION_REPORT"},
           \/ pc = "Start" /\ claimed' = {Len(log) + 1}
           \/ pc \in {"Decide", "Ticket"} /\ claimed' = claimed \cup {Len(log) + 1},
           pc' \in {"Decide", "Ticket", "Intent"},
           generate(Scenario.strategy, Scenario.ctx) = "Proposal",
           pc' = "Intent" => mint_order_ticket(RequestOf(Scenario).candidate, Scenario.routing_state),
           UNCHANGED <<book, placed, suite, drill, results, session, runs>>
    PROVE  ReplayInv'
<1> DEFINE e == Plain(t, "NONE")
<1>1. log' = Append(log, e) /\ e.decision = "NONE" /\ Unseen(e)
  BY DEF append, Plain, Unseen
<1> HIDE DEF e
<1>2. IsList(log)
  BY DEF ReplayInv, Shapes
<1>3. /\ IsList(log') /\ Len(log) \in Nat /\ Len(log') = Len(log) + 1
      /\ \A i \in 1..Len(log) : log'[i] = log[i]
      /\ log'[Len(log) + 1] = e
  BY <1>1, <1>2, ListAppend
<1>4. \A k : SubmitsOf(log', k) = SubmitsOf(log, k) /\ ReportsOf(log', k) = ReportsOf(log, k)
  BY <1>1, <1>2, QuietLog
<1>5. /\ pc' \in Midway /\ pc' \notin Sent /\ pc' # "Submit" /\ pc' \notin {"Report", "Drill"}
      /\ pc' \notin {"Submit", "Failed", "Report"} /\ pc' # "Drill"
      /\ pc' \in Sent \cup {"Intent"} => pc' = "Intent"
  BY DEF Midway, Sent
<1>6. /\ pc \in {"Decide", "Ticket"} => claimed \subseteq 1..Len(log) /\ Rejects(log, claimed) = {}
      /\ drill = NoDrill
  BY DEF ReplayInv, Claims, Own, Midway, Sent
<1>7. Shapes'
  BY <1>3, <1>5 DEF ReplayInv, Shapes
<1>8. Place'
  BY <1>5 DEF Place, Scenario
<1>9. Claims'
  <2>1. claimed' \subseteq 1..Len(log')
    BY <1>3, <1>6
  <2>2. ASSUME NEW i \in DOMAIN results PROVE claimed' \cap results[i].audit_event_seqs = {}
    <3>1. results[i].audit_event_seqs \subseteq 1..Len(log)
      BY DEF ReplayInv, AllSound, ResultSound
    <3>2. pc \in {"Decide", "Ticket"} => claimed \cap results[i].audit_event_seqs = {}
      BY DEF ReplayInv, Claims, Midway
    <3> QED
      BY <1>3, <3>1, <3>2
  <2> QED
    BY <2>1, <2>2 DEF ReplayInv, Claims
<1>10. Orders'
  BY <1>4, <1>5 DEF ReplayInv, Orders
<1>11. Own'
  <2>1. Rejects(log', claimed') = {}
    BY <1>1, <1>3, <1>6 DEF Rejects
  <2> QED
    BY <1>5, <1>6, <2>1 DEF Own
<1>12. AllSound'
  <2>1. \A i \in DOMAIN results : ResultSound(log', results[i])
    BY <1>3, <1>4, AllKept
  <2> QED
    BY <1>5, <2>1 DEF AllSound
<1> QED
  BY <1>7, <1>8, <1>9, <1>10, <1>11, <1>12 DEF ReplayInv

\* add_submit_attempt: the key was new to the store, so to the broker and to every result.
LEMMA Recorded == ASSUME ReplayInv, RecordAttempt PROVE ReplayInv'
<1> DEFINE k == Key
           e == SubmitEvent(IntentOf(Scenario))
<1>1. /\ pc = "Intent" /\ suite # <<>> /\ IntentMints(Scenario)
      /\ log' = Append(log, e) /\ SubmitsOf(log, k) = {}
      /\ claimed' = claimed \cup {Len(log) + 1} /\ attempts' = 1 /\ pc' = "Submit"
      /\ UNCHANGED <<book, placed, suite, fill, drill, results, summary, session, runs>>
  BY DEF RecordAttempt, Running, record_submit_attempt, append, DuplicateIdempotencyKey, Key
<1>2. /\ e.type = "BROKER_SUBMIT_INTENT" /\ e.key = k /\ e.decision = "NONE"
  BY DEF SubmitEvent, Key
<1>3. /\ pc \in Midway /\ generate(Scenario.strategy, Scenario.ctx) = "Proposal"
      /\ mint_order_ticket(RequestOf(Scenario).candidate, Scenario.routing_state)
  BY <1>1 DEF ReplayInv, Place, Midway
<1>4. k \in Keys /\ k # NoKey
  BY <1>1, <1>3, AtWork DEF Mintable
<1>5. k' = k
  BY <1>1 DEF Key, Scenario
<1> HIDE DEF e
<1>6. IsList(log)
  BY DEF ReplayInv, Shapes
<1>7. /\ IsList(log') /\ Len(log) \in Nat /\ Len(log') = Len(log) + 1
      /\ \A i \in 1..Len(log) : log'[i] = log[i]
      /\ log'[Len(log) + 1] = e
  BY <1>1, <1>6, ListAppend
<1>8. /\ \A j : SubmitsOf(log', j) = SubmitsOf(log, j) \cup (IF k = j THEN {Len(log) + 1} ELSE {})
      /\ \A j : ReportsOf(log', j) = ReportsOf(log, j)
  <2>1. \A j :
             /\ SubmitsOf(log', j) = SubmitsOf(log, j) \cup
                   (IF e.type = "BROKER_SUBMIT_INTENT" /\ e.key = j THEN {Len(log) + 1} ELSE {})
             /\ ReportsOf(log', j) = ReportsOf(log, j) \cup
                   (IF e.type = "EXECUTION_REPORT" /\ e.key = j THEN {Len(log) + 1} ELSE {})
    BY <1>1, <1>6, RowsOfKey
  <2> QED
    BY <1>2, <2>1
<1>9. /\ placed \in [Keys -> Nat] /\ ReportsOf(log, k) = {} /\ placed[k] = 0
  BY <1>1, <1>4 DEF ReplayInv, Shapes, Orders
<1> HIDE DEF k
<1>10. /\ pc' \in Midway /\ pc' \in Sent /\ pc' \notin {"Report", "Drill"}
       /\ pc' \in Sent \cup {"Intent"} /\ pc' # "Drill"
  BY <1>1 DEF Midway, Sent
<1>11. claimed \subseteq 1..Len(log) /\ Rejects(log, claimed) = {} /\ drill = NoDrill
  BY <1>1, <1>3 DEF ReplayInv, Claims, Own
<1>12. Shapes'
  BY <1>1, <1>7, <1>10 DEF ReplayInv, Shapes
<1>13. Place'
  BY <1>1, <1>3 DEF Place, Scenario
<1>14. Claims'
  <2>1. claimed' \subseteq 1..Len(log')
    <3>1. claimed' = claimed \cup {Len(log) + 1} /\ \A i \in claimed : i \in 1..(Len(log) + 1)
      BY <1>1, <1>7, <1>11
    <3> QED
      BY <1>7, <3>1
  <2>2. ASSUME NEW i \in DOMAIN results PROVE claimed' \cap results[i].audit_event_seqs = {}
    <3>1. results[i].audit_event_seqs \subseteq 1..Len(log)
      BY DEF ReplayInv, AllSound, ResultSound
    <3>2. claimed \cap results[i].audit_event_seqs = {}
      BY <1>3 DEF ReplayInv, Claims
    <3> QED
      BY <1>1, <1>7, <3>1, <3>2
  <2> QED
    BY <1>1, <2>1, <2>2 DEF ReplayInv, Claims
<1>15. Orders'
  <2>1. \A j \in Keys : /\ placed[j] <= 1
                        /\ placed[j] > 0 \/ ReportsOf(log', j) # {} => SubmitsOf(log', j) # {}
    BY <1>8 DEF ReplayInv, Orders
  <2>2. placed'[Key'] = 0
    BY <1>1, <1>5, <1>9 DEF k
  <2> QED
    BY <1>1, <1>10, <2>1, <2>2 DEF ReplayInv, Orders
<1>16. Own'
  <2>1. Rejects(log', claimed') = {}
    BY <1>1, <1>2, <1>7, <1>11 DEF Rejects
  <2>2. Len(log) + 1 \in claimed' \cap SubmitsOf(log', k)
    BY <1>1, <1>8
  <2>3. claimed' \cap SubmitsOf(log', Key') # {} /\ ReportsOf(log', Key') = {}
    BY <1>5, <1>8, <1>9, <2>2 DEF k
  <2> QED
    BY <1>1, <1>10, <1>11, <2>1, <2>3 DEF Own
<1>17. AllSound'
  <2>1. \A i \in DOMAIN results : ResultSound(log', results[i])
    BY <1>7, <1>8, AllKept
  <2>2. \A i \in DOMAIN results : results[i].idempotency_key # k
    <3> TAKE i \in DOMAIN results
    <3>1. results[i].idempotency_key # NoKey => SubmitsOf(log, results[i].idempotency_key) # {}
      BY DEF ReplayInv, AllSound, ResultSound, Reported
    <3> QED
      BY <1>1, <1>4, <3>1
  <2> QED
    BY <1>1, <1>5, <2>1, <2>2 DEF AllSound, k
<1> QED
  BY <1>12, <1>13, <1>14, <1>15, <1>16, <1>17 DEF ReplayInv

\* What an adapter answers to a key it does not hold: the fakes fill or work it.
LEMMA NewOutcome ==
    ASSUME NEW b \in Brokers, NEW i \in Intents, book[b][KeyOf(i)] = NoOrder,
           NEW o \in SubmitOutcomes(b, i)
    PROVE  /\ o.order \in Order \cup {NoOrder}
           /\ o.reply = "ack" =>
                 /\ o.order \in Order
                 /\ Profile[b] # "remote" => o.order.life \in {"FILLED", "PARTIAL_FILL", "WORKING"}
<1> DEFINE new == simulate(Profile[b], i)
           worked == {[intent |-> i, life |-> "WORKING", filled |-> 0],
                      [intent |-> i, life |-> "REJECTED", filled |-> 0],
                      [intent |-> i, life |-> "FILLED", filled |-> Requested(i)]}
<1>1. Requested(i) \in Nat /\ Requested(i) - 1 \in Nat
  BY TicketAssumption DEF Intents, Requested
<1>2. {"WORKING", "REJECTED", "FILLED", "PARTIAL_FILL"} \subseteq OrderLifecycleState
  BY DEF OrderLifecycleState, NON_TERMINAL_LIFECYCLE
<1>3. worked \subseteq Order
  BY <1>1, <1>2 DEF Order
<1>4. \/ new = NoOrder
      \/ new \in Order /\ new.life \in {"FILLED", "PARTIAL_FILL", "WORKING"}
  BY <1>1, <1>2 DEF simulate, Order
<1> HIDE DEF new, worked
<1>5. CASE Profile[b] = "remote"
  <2>1. o \in [reply : {"ack", "error"}, order : worked] \/ o = [reply |-> "error", order |-> NoOrder]
    BY <1>5 DEF SubmitOutcomes, RemoteSubmit, worked
  <2>2. CASE o \in [reply : {"ack", "error"}, order : worked]
    BY <1>3, <1>5, <2>2
  <2>3. CASE o = [reply |-> "error", order |-> NoOrder]
    BY <2>3
  <2> QED
    BY <2>1, <2>2, <2>3
<1>6. CASE Profile[b] # "remote"
  <2>1. o = [reply |-> IF new = NoOrder THEN "error" ELSE "ack", order |-> new]
    BY <1>6 DEF SubmitOutcomes, new
  <2> QED
    BY <1>4, <2>1
<1> QED
  BY <1>5, <1>6

\* One it holds comes back as it is.
LEMMA KnownOutcome ==
    ASSUME NEW b \in Brokers, NEW i, book[b][KeyOf(i)] # NoOrder, NEW o \in ResubmitOutcomes(b, i)
    PROVE  o.order = book[b][KeyOf(i)]
BY DEF ResubmitOutcomes, SubmitOutcomes

\* The broker's first answer.
LEMMA Submitted == ASSUME ReplayInv, Submit PROVE ReplayInv'
<1> DEFINE k == Key
           b == Scenario.broker
<1>1. /\ pc = "Submit" /\ suite # <<>>
      /\ UNCHANGED <<log, suite, attempts, drill, claimed, results, summary, session, runs>>
  BY DEF Submit, Running
<1>2. PICK o \in SubmitOutcomes(b, IntentOf(Scenario)) :
             /\ submit_order(b, IntentOf(Scenario), o)
             /\ fill' = IF o.reply = "ack" THEN {o.order} ELSE {}
             /\ pc' = IF o.reply = "ack" THEN "Report" ELSE "Failed"
  BY DEF Submit
<1>3. pc \in Sent /\ pc \in Midway
  BY <1>1 DEF Sent, Midway
<1>4. b \in Brokers /\ IntentOf(Scenario) \in Intents /\ k \in Keys
  BY <1>3, AtSent
<1>5. /\ book \in [Brokers -> [Keys -> Order \cup {NoOrder}]] /\ placed \in [Keys -> Nat]
  BY DEF ReplayInv, Shapes
<1>6. placed[k] = 0 /\ SubmitsOf(log, k) # {} /\ \A c \in Brokers : book[c][k] = NoOrder
  <2>1. placed[k] = 0 /\ \A c \in Brokers : book[c][k] # NoOrder => placed[k] > 0
    BY <1>1, <1>4 DEF ReplayInv, Orders
  <2>2. claimed \cap SubmitsOf(log, k) # {}
    BY <1>3 DEF ReplayInv, Own
  <2> QED
    BY <2>1, <2>2
<1>7. /\ o.order \in Order \cup {NoOrder}
      /\ o.reply = "ack" =>
            /\ o.order \in Order
            /\ Profile[b] # "remote" => o.order.life \in {"FILLED", "PARTIAL_FILL", "WORKING"}
  <2>1. book[b][KeyOf(IntentOf(Scenario))] = NoOrder
    BY <1>4, <1>6 DEF Key
  <2> QED
    BY <1>2, <1>4, <2>1, NewOutcome
<1>8. /\ book' = [book EXCEPT ![b][k] = o.order]
      /\ placed' = [placed EXCEPT ![k] = IF o.order # NoOrder THEN @ + 1 ELSE @]
  <2>1. book[b][k] = NoOrder
    BY <1>4, <1>6
  <2> QED
    BY <1>2, <2>1 DEF submit_order, Key
<1>9. k' = k /\ b' = b /\ Scenario' = Scenario
  BY <1>1 DEF Key, Scenario
<1>10. /\ pc' \in {"Report", "Failed"} /\ pc' \in Midway /\ pc' \in Sent /\ pc' # "Drill"
       /\ pc' # "Submit" /\ pc' = "Report" => o.reply = "ack"
  BY <1>2 DEF Sent, Midway
<1> HIDE DEF k, b
<1>11. Shapes'
  <2>1. book' \in [Brokers -> [Keys -> Order \cup {NoOrder}]] /\ placed' \in [Keys -> Nat]
    BY <1>4, <1>5, <1>7, <1>8
  <2> QED
    BY <1>1, <1>10, <2>1 DEF ReplayInv, Shapes
<1>12. Place'
  BY <1>1, <1>3, <1>9 DEF ReplayInv, Place
<1>13. Claims'
  BY <1>1, <1>3 DEF ReplayInv, Claims
<1>14. Orders'
  <2>1. \A j \in Keys : placed'[j] = IF j = k /\ o.order # NoOrder THEN placed[j] + 1 ELSE placed[j]
    BY <1>5, <1>8
  <2>2. \A j \in Keys : placed'[j] <= 1
    BY <1>6, <2>1 DEF ReplayInv, Orders
  <2>3. \A j \in Keys : placed'[j] > 0 \/ ReportsOf(log, j) # {} => SubmitsOf(log, j) # {}
    BY <1>6, <2>1 DEF ReplayInv, Orders
  <2>4. ASSUME NEW c \in Brokers, NEW j \in Keys, book'[c][j] # NoOrder PROVE placed'[j] > 0
    <3>1. CASE c = b /\ j = k
      BY <1>4, <1>5, <1>6, <1>8, <2>1, <2>4, <3>1
    <3>2. CASE ~(c = b /\ j = k)
      <4>1. book'[c][j] = book[c][j]
        BY <1>4, <1>5, <1>8, <3>2
      <4>2. placed[j] > 0 /\ placed[j] \in Nat
        BY <1>5, <2>4, <4>1 DEF ReplayInv, Orders
      <4> QED
        BY <2>1, <4>2
    <3> QED
      BY <3>1, <3>2
  <2>5. pc' \in {"Report", "Drill"} => book'[Scenario'.broker][Key'] # NoOrder
    <3>1. o.reply = "ack" => book'[b][k] # NoOrder
      BY <1>4, <1>5, <1>7, <1>8, ReplayAssumption
    <3> QED
      BY <1>9, <1>10, <3>1 DEF k, b
  <2> QED
    BY <1>1, <1>10, <2>2, <2>3, <2>4, <2>5 DEF Orders
<1>15. Own'
  <2>1. /\ drill = NoDrill /\ Rejects(log, claimed) = {} /\ claimed \cap SubmitsOf(log, Key) # {}
        /\ attempts = 1 /\ ReportsOf(log, Key) = {}
    BY <1>1, <1>3 DEF ReplayInv, Own
  <2>2. /\ pc' \in {"Report", "Drill"} => fill' = {o.order}
        /\ Key' = Key /\ Scenario' = Scenario
    BY <1>2, <1>9, <1>10 DEF k
  <2>3. pc' \in {"Report", "Drill"} /\ Profile[Scenario.broker] # "remote" =>
           o.order.life \in {"FILLED", "PARTIAL_FILL", "WORKING"}
    BY <1>7, <1>10 DEF b
  <2> QED
    BY <1>1, <1>10, <2>1, <2>2, <2>3 DEF Own
<1>16. AllSound'
  BY <1>1, <1>3, <1>9 DEF ReplayInv, AllSound, k
<1> QED
  BY <1>11, <1>12, <1>13, <1>14, <1>15, <1>16 DEF ReplayInv

\* The report of the first answer.
LEMMA ReportWritten == ASSUME ReplayInv, Report PROVE ReplayInv'
<1> DEFINE k == Key
<1>1. /\ pc = "Report" /\ suite # <<>> /\ pc' = "Drill"
      /\ UNCHANGED <<book, placed, suite, fill, attempts, drill, results, summary, session, runs>>
  BY DEF Report, Running
<1>2. PICK order \in fill : Audit(ReportEvent(KeyOf(IntentOf(Scenario)), order.life, order.filled))
  BY DEF Report
<1> DEFINE e == ReportEvent(k, order.life, order.filled)
<1>3. log' = Append(log, e) /\ claimed' = claimed \cup {Len(log) + 1}
  BY <1>2 DEF Audit, append, Key
<1>4. /\ e.type = "EXECUTION_REPORT" /\ e.key = k /\ e.decision = "NONE" /\ e.life = order.life
  BY DEF ReportEvent
<1> HIDE DEF e
<1>5. pc \in Sent /\ pc \in Midway
  BY <1>1 DEF Sent, Midway
<1>6. k \in Keys /\ k # NoKey
  BY <1>5, AtSent
<1>7. k' = k /\ Scenario' = Scenario
  BY <1>1 DEF Key, Scenario
<1>8. /\ claimed \subseteq 1..Len(log) /\ drill = NoDrill /\ Rejects(log, claimed) = {}
      /\ claimed \cap SubmitsOf(log, k) # {} /\ attempts = 1 /\ ReportsOf(log, k) = {}
      /\ \A o \in fill : o = order
      /\ Profile[Scenario.broker] # "remote" =>
            \A o \in fill : o.life \in {"FILLED", "PARTIAL_FILL", "WORKING"}
  BY <1>1, <1>5 DEF ReplayInv, Own, Claims
<1>9. IsList(log)
  BY DEF ReplayInv, Shapes
<1>10. /\ IsList(log') /\ Len(log) \in Nat /\ Len(log') = Len(log) + 1
       /\ \A i \in 1..Len(log) : log'[i] = log[i]
       /\ log'[Len(log) + 1] = e
  BY <1>3, <1>9, ListAppend
<1>11. /\ \A j : ReportsOf(log', j) = ReportsOf(log, j) \cup (IF k = j THEN {Len(log) + 1} ELSE {})
       /\ \A j : SubmitsOf(log', j) = SubmitsOf(log, j)
  <2>1. \A j :
             /\ SubmitsOf(log', j) = SubmitsOf(log, j) \cup
                   (IF e.type = "BROKER_SUBMIT_INTENT" /\ e.key = j THEN {Len(log) + 1} ELSE {})
             /\ ReportsOf(log', j) = ReportsOf(log, j) \cup
                   (IF e.type = "EXECUTION_REPORT" /\ e.key = j THEN {Len(log) + 1} ELSE {})
    BY <1>3, <1>9, RowsOfKey
  <2> QED
    BY <1>4, <2>1
<1>12. pc' \in Midway /\ pc' \in Sent
  BY <1>1 DEF Sent, Midway
<1> HIDE DEF k
<1>13. Shapes'
  BY <1>1, <1>10, <1>12 DEF ReplayInv, Shapes
<1>14. Place'
  BY <1>1, <1>5, <1>7 DEF ReplayInv, Place
<1>15. Claims'
  <2>1. claimed' \subseteq 1..Len(log')
    <3>1. claimed' = claimed \cup {Len(log) + 1} /\ \A i \in claimed : i \in 1..(Len(log) + 1)
      BY <1>3, <1>8, <1>10
    <3> QED
      BY <1>10, <3>1
  <2>2. ASSUME NEW i \in DOMAIN results PROVE claimed' \cap results[i].audit_event_seqs = {}
    <3>1. results[i].audit_event_seqs \subseteq 1..Len(log)
      BY DEF ReplayInv, AllSound, ResultSound
    <3>2. claimed \cap results[i].audit_event_seqs = {}
      BY <1>5 DEF ReplayInv, Claims
    <3> QED
      BY <1>3, <1>10, <3>1, <3>2
  <2> QED
    BY <1>1, <2>1, <2>2 DEF ReplayInv, Claims
<1>16. Orders'
  <2>1. \A j \in Keys : /\ placed[j] <= 1
                        /\ placed[j] > 0 \/ ReportsOf(log', j) # {} => SubmitsOf(log', j) # {}
    BY <1>8, <1>11 DEF ReplayInv, Orders
  <2> QED
    BY <1>1, <1>7, <2>1 DEF ReplayInv, Orders, k
<1>17. Own'
  <2>1. Rejects(log', claimed') = {}
    BY <1>3, <1>4, <1>8, <1>10 DEF Rejects
  <2>2. Cardinality(Rejects(log', claimed')) = attempts - 1
    <3>1. Cardinality({}) = 0
      BY FS_EmptySet
    <3> QED
      BY <1>8, <2>1, <3>1
  <2>3. \E i \in claimed' \cap SubmitsOf(log', k), j \in claimed' :
                /\ i < j /\ ReportsOf(log', k) = {j}
                /\ \A o \in fill : log'[j].life = o.life
    <3>1. PICK i \in claimed : i \in SubmitsOf(log', k)
      BY <1>8, <1>11
    <3>2. i \in claimed' /\ Len(log) + 1 \in claimed' /\ i < Len(log) + 1
      BY <1>3, <1>8, <1>10, <3>1
    <3>3. ReportsOf(log', k) = {Len(log) + 1}
      BY <1>8, <1>11
    <3>4. \A o \in fill : log'[Len(log) + 1].life = o.life
      BY <1>4, <1>8, <1>10
    <3> QED
      BY <3>1, <3>2, <3>3, <3>4
  <2>4. claimed' \cap SubmitsOf(log', k) # {}
    BY <2>3
  <2>5. /\ pc' = "Drill" /\ fill' = fill /\ attempts' = 1 /\ drill' = drill /\ Key' = k
        /\ Scenario' = Scenario /\ pc' \in Sent
    BY <1>1, <1>7, <1>8, <1>12 DEF k
  <2> QED
    BY <1>8, <2>2, <2>3, <2>4, <2>5 DEF Own
<1>18. AllSound'
  <2>1. \A i \in DOMAIN results : results[i].idempotency_key # k
    BY <1>5 DEF ReplayInv, AllSound, k
  <2>2. \A i \in DOMAIN results : ResultSound(log', results[i])
    <3>1. \A i \in DOMAIN results :
             ReportsOf(log', results[i].idempotency_key) = ReportsOf(log, results[i].idempotency_key)
      BY <1>11, <2>1
    <3> QED
      BY <1>10, <3>1, AllKept
  <2> QED
    BY <1>1, <1>7, <2>1, <2>2 DEF AllSound, k
<1> QED
  BY <1>13, <1>14, <1>15, <1>16, <1>17, <1>18 DEF ReplayInv

\* A resubmission is answered with the order there is.
LEMMA NothingPlaced ==
    ASSUME ReplayInv, pc = "Drill", NEW o \in ResubmitOutcomes(Scenario.broker, IntentOf(Scenario)),
           submit_order(Scenario.broker, IntentOf(Scenario), o)
    PROVE  UNCHANGED <<book, placed>>
<1> DEFINE k == Key
           b == Scenario.broker
<1>1. b \in Brokers /\ k \in Keys
  BY AtSent DEF Sent
<1>2. book[b][k] # NoOrder
  BY DEF ReplayInv, Orders
<1>3. /\ book \in [Brokers -> [Keys -> Order \cup {NoOrder}]] /\ placed \in [Keys -> Nat]
  BY DEF ReplayInv, Shapes
<1>4. o.order = book[b][k]
  BY <1>1, <1>2, KnownOutcome DEF Key
<1>5. /\ book' = [book EXCEPT ![b][k] = book[b][k]]
      /\ placed' = [placed EXCEPT ![k] = placed[k]]
  BY <1>2, <1>4 DEF submit_order, Key
<1> HIDE DEF k, b
<1> QED
  BY <1>1, <1>3, <1>5

\* A resubmission: the attempt counts, its row or its refusal is on record, and the order
\* and its report stay the ones there are.
LEMMA Resubmitted == ASSUME ReplayInv, Resubmit \/ ResubmitFails PROVE ReplayInv'
<1> DEFINE k == Key
           e == AuditArtifact("REJECT")
<1>1. /\ pc = "Drill" /\ suite # <<>> /\ attempts' = attempts + 1
      /\ UNCHANGED <<pc, suite, fill, results, summary, session, runs>>
  BY DEF Resubmit, ResubmitFails, Running
<1>2. pc \in Sent /\ pc \in Midway /\ pc' \in Sent /\ pc' \in Midway
  BY <1>1 DEF Sent, Midway
<1>3. UNCHANGED <<book, placed>>
  BY <1>1, NothingPlaced DEF Resubmit, ResubmitFails
<1>4. k' = k /\ Scenario' = Scenario
  BY <1>1 DEF Key, Scenario
<1>5. PICK i \in claimed \cap SubmitsOf(log, k), j \in claimed :
             /\ i < j /\ ReportsOf(log, k) = {j}
             /\ \A o \in fill : log[j].life = o.life
  BY <1>1 DEF ReplayInv, Own
<1>6. /\ claimed \subseteq 1..Len(log) /\ attempts \in Nat
      /\ ~drill.deduped => Cardinality(Rejects(log, claimed)) = attempts - 1
      /\ \A o, q \in fill : o = q
      /\ Profile[Scenario.broker] # "remote" =>
            \A o \in fill : o.life \in {"FILLED", "PARTIAL_FILL", "WORKING"}
  BY <1>1, <1>2 DEF ReplayInv, Own, Claims
<1>7. \/ UNCHANGED <<log, claimed>> /\ drill'.deduped
      \/ log' = Append(log, e) /\ claimed' = claimed \cup {Len(log) + 1} /\ UNCHANGED drill
  <2>1. CASE Resubmit
    <3>1. DuplicateIdempotencyKey(KeyOf(IntentOf(Scenario)))
      BY <1>5 DEF DuplicateIdempotencyKey, Key
    <3>2. UNCHANGED <<log, claimed>>
      BY <2>1, <3>1 DEF Resubmit
    <3>3. PICK second : drill' = [second |-> second,
                  deduped |-> drill.deduped \/ DuplicateIdempotencyKey(KeyOf(IntentOf(Scenario)))]
      BY <2>1 DEF Resubmit
    <3>4. drill'.deduped = (drill.deduped \/ DuplicateIdempotencyKey(KeyOf(IntentOf(Scenario))))
      BY <3>3
    <3>5. drill'.deduped
      BY <3>1, <3>4
    <3> QED
      BY <3>2, <3>5
  <2>2. CASE ResubmitFails
    BY <2>2 DEF ResubmitFails, Audit, append
  <2> QED
    BY <2>1, <2>2
<1>8. e.decision = "REJECT" /\ Unseen(e)
  BY DEF AuditArtifact, Plain, Unseen
<1> HIDE DEF e, k
<1>9. IsList(log)
  BY DEF ReplayInv, Shapes
<1>10. /\ IsList(log') /\ Len(log) \in Nat /\ Len(log') \in Nat /\ Len(log) <= Len(log')
       /\ \A n \in 1..Len(log) : log'[n] = log[n]
       /\ \A q : SubmitsOf(log', q) = SubmitsOf(log, q) /\ ReportsOf(log', q) = ReportsOf(log, q)
  BY <1>7, <1>8, <1>9, QuietLog
<1>11. log' = Append(log, e) => Len(log') = Len(log) + 1 /\ log'[Len(log) + 1] = e
  BY <1>9, ListAppend
<1>12. claimed \subseteq claimed' /\ claimed' \subseteq 1..Len(log')
  <2>1. CASE UNCHANGED <<log, claimed>>
    BY <1>6, <2>1
  <2>2. CASE log' = Append(log, e) /\ claimed' = claimed \cup {Len(log) + 1}
    <3>1. \A n \in claimed : n \in 1..(Len(log) + 1)
      BY <1>6, <1>10
    <3> QED
      BY <1>10, <1>11, <2>2, <3>1
  <2> QED
    BY <1>7, <2>1, <2>2
<1>13. Shapes'
  BY <1>1, <1>3, <1>10 DEF ReplayInv, Shapes
<1>14. Place'
  BY <1>1, <1>4 DEF ReplayInv, Place
<1>15. Claims'
  <2>1. ASSUME NEW n \in DOMAIN results PROVE claimed' \cap results[n].audit_event_seqs = {}
    <3>1. results[n].audit_event_seqs \subseteq 1..Len(log)
      BY DEF ReplayInv, AllSound, ResultSound
    <3>2. claimed \cap results[n].audit_event_seqs = {}
      BY <1>2 DEF ReplayInv, Claims
    <3>3. Len(log) + 1 \notin results[n].audit_event_seqs
      BY <1>10, <3>1
    <3> QED
      BY <1>7, <3>2, <3>3
  <2> QED
    BY <1>1, <1>12, <2>1 DEF ReplayInv, Claims
<1>16. Orders'
  BY <1>1, <1>3, <1>4, <1>10 DEF ReplayInv, Orders, k
<1>17. Own'
  <2>1. ~drill'.deduped => Cardinality(Rejects(log', claimed')) = attempts' - 1
    <3> SUFFICES ASSUME ~drill'.deduped PROVE Cardinality(Rejects(log', claimed')) = attempts' - 1
      OBVIOUS
    <3>1. /\ log' = Append(log, e) /\ claimed' = claimed \cup {Len(log) + 1}
          /\ Cardinality(Rejects(log, claimed)) = attempts - 1
      BY <1>6, <1>7
    <3>2. \A n \in claimed : log'[n] = log[n] /\ n # Len(log) + 1
      BY <1>6, <1>10
    <3>3. /\ Rejects(log', claimed') = Rejects(log, claimed) \cup {Len(log) + 1}
          /\ Len(log) + 1 \notin Rejects(log, claimed)
      BY <1>8, <1>11, <3>1, <3>2 DEF Rejects
    <3>4. IsFiniteSet(1..Len(log))
      BY <1>10, FS_Interval
    <3>5. Rejects(log, claimed) \subseteq 1..Len(log)
      BY <1>6 DEF Rejects
    <3>6. IsFiniteSet(Rejects(log, claimed))
      BY <3>4, <3>5, FS_Subset
    <3>7. Cardinality(Rejects(log', claimed')) = Cardinality(Rejects(log, claimed)) + 1
      BY <3>3, <3>6, FS_AddElement
    <3> QED
      BY <1>1, <1>6, <3>1, <3>7
  <2>2. /\ i \in claimed' \cap SubmitsOf(log', k) /\ j \in claimed' /\ i < j
        /\ ReportsOf(log', k) = {j} /\ \A o \in fill : log'[j].life = o.life
    BY <1>5, <1>6, <1>10, <1>12
  <2>3. Key' = k /\ pc' = "Drill" /\ attempts' \in Nat /\ fill' = fill
    BY <1>1, <1>4, <1>6 DEF k
  <2> QED
    BY <1>4, <1>6, <2>1, <2>2, <2>3 DEF Own
<1>18. AllSound'
  <2>1. \A n \in DOMAIN results : ResultSound(log', results[n])
    BY <1>10, AllKept
  <2> QED
    BY <1>1, <1>2, <1>4, <2>1 DEF ReplayInv, AllSound, k
<1> QED
  BY <1>13, <1>14, <1>15, <1>16, <1>17, <1>18 DEF ReplayInv

\* A run ends or is killed: the store, the orders and the results are what they were.
LEMMA Stopped ==
    ASSUME ReplayInv, pc' \in Ended,
           UNCHANGED <<log, book, placed, suite, results, session, runs>>
    PROVE  ReplayInv'
<1>1. /\ pc' \notin Midway /\ pc' \notin Sent \cup {"Intent"} /\ pc' \notin Sent
      /\ pc' \notin {"Start"} \cup (Midway \ {"Drill"}) /\ pc' # "Drill" /\ pc' # "Submit"
      /\ pc' \notin {"Report", "Drill"} /\ pc' \notin {"Submit", "Failed", "Report"}
  BY DEF Midway, Sent, Ended
<1>2. Shapes' /\ Place' /\ Claims'
  BY <1>1 DEF ReplayInv, Shapes, Place, Claims
<1>3. Orders'
  BY <1>1 DEF ReplayInv, Orders
<1>4. Own' /\ AllSound'
  BY <1>1 DEF ReplayInv, Own, AllSound
<1> QED
  BY <1>2, <1>3, <1>4 DEF ReplayInv

\* A suite of a session is a list of scenarios.
LEMMA SuiteType ==
    ASSUME NEW s \in Sessions, NEW n \in 1..Len(s)
    PROVE  s[n] \in Seq(Scenarios) /\ Len(s) \in Nat
<1>1. s \in Seq(Seq(Scenarios))
  BY ReplayAssumption
<1> QED
  BY <1>1, ElementOfSeq, LenProperties

\* The empty list.
LEMMA EmptyList == IsList(<<>>) /\ DOMAIN <<>> = {}
BY DEF IsList, Elements

\* Another run on the same store: its results start over, the store does not.
LEMMA Rerunning == ASSUME ReplayInv, Rerun PROVE ReplayInv'
<1>1. /\ runs < Len(session) /\ runs' = runs + 1 /\ pc' = "Start" /\ suite' = session[runs']
      /\ drill' = NoDrill /\ results' = <<>> /\ UNCHANGED <<log, placed, session>>
      /\ book' = [b \in Brokers |-> IF Profile[b] = "remote" THEN book[b]
                                    ELSE [k \in Keys |-> NoOrder]]
  BY DEF Rerun
<1>2. /\ pc' \notin Midway /\ pc' \notin Sent \cup {"Intent"} /\ pc' \notin Sent /\ pc' # "Drill"
      /\ pc' # "Submit" /\ pc' \notin {"Report", "Drill"} /\ pc' \notin {"Submit", "Failed", "Report"}
      /\ pc' \notin Midway \ {"Drill"}
  BY <1>1 DEF Midway, Sent
<1>3. /\ session \in Sessions /\ runs \in 1..Len(session)
      /\ book \in [Brokers -> [Keys -> Order \cup {NoOrder}]]
  BY DEF ReplayInv, Shapes
<1>4. Len(session) \in Nat
  BY <1>3, SuiteType
<1>5. runs' \in 1..Len(session)
  BY <1>1, <1>3, <1>4
<1>6. suite' \in Seq(Scenarios)
  BY <1>1, <1>3, <1>5, SuiteType
<1>7. book' \in [Brokers -> [Keys -> Order \cup {NoOrder}]]
  BY <1>1, <1>3
<1>8. Shapes'
  BY <1>1, <1>5, <1>6, <1>7, EmptyList DEF ReplayInv, Shapes
<1>9. Place' /\ Claims' /\ Own' /\ AllSound'
  BY <1>1, <1>2, EmptyList DEF Place, Claims, Own, AllSound
<1>10. Orders'
  <2>1. \A b \in Brokers, k \in Keys : book'[b][k] # NoOrder => book[b][k] # NoOrder
    BY <1>1, <1>3
  <2> QED
    BY <1>1, <1>2, <2>1 DEF ReplayInv, Orders
<1> QED
  BY <1>8, <1>9, <1>10 DEF ReplayInv

-----------------------------------------------------------------------------
(* The invariant holds at the start and after every step. *)

\* An empty store, no orders, the first suite of a session to be replayed.
LEMMA InitReplayInv == ASSUME Init PROVE ReplayInv
<1>1. /\ log = <<>> /\ results = <<>> /\ runs = 1 /\ session \in Sessions /\ pc = "Start"
      /\ suite = session[1] /\ drill = NoDrill
      /\ book = [b \in Brokers |-> [k \in Keys |-> NoOrder]] /\ placed = [k \in Keys |-> 0]
  BY DEF Init, Begin
<1>2. /\ pc \notin Midway /\ pc \notin Sent \cup {"Intent"} /\ pc \notin Sent /\ pc # "Drill"
      /\ pc # "Submit" /\ pc \notin {"Report", "Drill"} /\ pc \notin {"Submit", "Failed", "Report"}
      /\ pc \notin Midway \ {"Drill"}
  BY <1>1 DEF Midway, Sent
<1>3. 1 \in 1..Len(session)
  <2>1. session \in Seq(Seq(Scenarios)) /\ session # <<>>
    BY <1>1, ReplayAssumption
  <2>2. Len(session) \in Nat /\ Len(session) # 0
    BY <2>1, LenProperties, EmptySeq
  <2> QED
    BY <2>2
<1>4. suite \in Seq(Scenarios)
  BY <1>1, <1>3, SuiteType
<1>5. Shapes
  BY <1>1, <1>3, <1>4, EmptyList DEF Shapes
<1>6. Place /\ Claims /\ Own /\ AllSound
  BY <1>1, <1>2, EmptyList DEF Place, Claims, Own, AllSound
<1>7. Orders
  <2>1. \A k \in Keys : placed[k] = 0
    BY <1>1
  <2>2. \A k : ReportsOf(log, k) = {}
    BY <1>1 DEF ReportsOf
  <2>3. \A b \in Brokers, k \in Keys : book[b][k] = NoOrder
    BY <1>1
  <2> QED
    BY <1>2, <2>1, <2>2, <2>3 DEF Orders
<1> QED
  BY <1>5, <1>6, <1>7 DEF ReplayInv

\* A scenario that ends before its attempt.
LEMMA EndsUnsent ==
    ASSUME ReplayInv, NoProposal \/ AssemblyFails \/ GatewayRejects \/ MintFails
    PROVE  ReplayInv'
<1> DEFINE Silent(codes) ==
        SameContracts(Scenario) =>
            codes \cap {"DTE_MISMATCH", "CONTRACT_SPREAD_MISMATCH", "ENTRY_WINDOW_CLOSED"} = {}
<1>1. Silent({}) /\ Silent({"INTERNAL_CONTRADICTION"})
  OBVIOUS
<1>2. ASSUME NoProposal PROVE ReplayInv'
  <2>1. PICK outcome : finalize(outcome, {}, NoKey, {})
    BY <1>2 DEF NoProposal
  <2>2. /\ suite # <<>> /\ append(AuditArtifact("NO_TRADE")) /\ claimed' = {Len(log) + 1}
        /\ Fresh /\ UNCHANGED <<book, placed, session, runs>>
    BY <1>2 DEF NoProposal, Running
  <2> QED
    BY <1>1, <2>1, <2>2, Unsent
<1>3. ASSUME AssemblyFails PROVE ReplayInv'
  <2>1. /\ suite # <<>> /\ append(AuditArtifact("REJECT")) /\ claimed' = {Len(log) + 1}
        /\ finalize("GATEWAY_REJECTED", {"INTERNAL_CONTRADICTION"}, NoKey, {})
        /\ Fresh /\ UNCHANGED <<book, placed, session, runs>>
    BY <1>3 DEF AssemblyFails, Running
  <2> QED
    BY <1>1, <2>1, Unsent
<1>4. ASSUME GatewayRejects PROVE ReplayInv'
  <2> DEFINE codes == validate(RequestOf(Scenario))
  <2>1. /\ suite # <<>> /\ append(AuditArtifact("REJECT")) /\ claimed' = claimed \cup {Len(log) + 1}
        /\ finalize("GATEWAY_REJECTED", codes, NoKey, {})
        /\ Fresh /\ UNCHANGED <<book, placed, session, runs>> /\ pc = "Decide"
    BY <1>4 DEF GatewayRejects, Running, Audit
  <2>2. pc \in Midway
    BY <2>1 DEF Midway
  <2>3. generate(Scenario.strategy, Scenario.ctx) = "Proposal" /\ Scenario \in Scenarios
    BY <2>1, <2>2, AtWork DEF ReplayInv, Place
  <2>4. Silent(codes)
    BY <2>3, Prefiltered
  <2> HIDE DEF codes
  <2> QED
    BY <2>1, <2>2, <2>4, Unsent
<1>5. ASSUME MintFails PROVE ReplayInv'
  <2>1. /\ suite # <<>> /\ append(AuditArtifact("REJECT")) /\ claimed' = claimed \cup {Len(log) + 1}
        /\ finalize("GATEWAY_REJECTED", {"INTERNAL_CONTRADICTION"}, NoKey, {})
        /\ Fresh /\ UNCHANGED <<book, placed, session, runs>> /\ pc \in {"Ticket", "Intent"}
    BY <1>5 DEF MintFails, Running, Audit
  <2>2. pc \in Midway
    BY <2>1 DEF Midway
  <2> QED
    BY <1>1, <2>1, <2>2, Unsent
<1> QED
  BY <1>2, <1>3, <1>4, <1>5

\* A step towards the submit intent.
LEMMA MovesOn == ASSUME ReplayInv, Assemble \/ GatewayApproves \/ MintTicket PROVE ReplayInv'
<1>1. pc \in {"Decide", "Ticket"} =>
          pc \in Midway /\ generate(Scenario.strategy, Scenario.ctx) = "Proposal"
  BY DEF ReplayInv, Place, Midway
<1>2. ASSUME Assemble PROVE ReplayInv'
  <2>1. /\ suite # <<>> /\ append(Plain("GATEWAY_REQUEST", "NONE"))
        /\ pc = "Start" /\ claimed' = {Len(log) + 1} /\ pc' = "Decide"
        /\ generate(Scenario.strategy, Scenario.ctx) = "Proposal"
        /\ UNCHANGED <<book, placed, suite, drill, results, session, runs>>
    BY <1>2 DEF Assemble, Running, Generated
  <2> QED
    BY <2>1, Moved
<1>3. ASSUME GatewayApproves PROVE ReplayInv'
  <2>1. /\ suite # <<>> /\ append(Plain("VALIDATED_TRADE_INTENT", "NONE"))
        /\ pc = "Decide" /\ claimed' = claimed \cup {Len(log) + 1} /\ pc' = "Ticket"
        /\ UNCHANGED <<book, placed, suite, drill, results, session, runs>>
    BY <1>3 DEF GatewayApproves, Running, Audit
  <2> QED
    BY <1>1, <2>1, Moved
<1>4. ASSUME MintTicket PROVE ReplayInv'
  <2>1. /\ suite # <<>> /\ append(Plain("ORDER_TICKET", "NONE"))
        /\ pc = "Ticket" /\ claimed' = claimed \cup {Len(log) + 1} /\ pc' = "Intent"
        /\ mint_order_ticket(RequestOf(Scenario).candidate, Scenario.routing_state)
        /\ UNCHANGED <<book, placed, suite, drill, results, session, runs>>
    BY <1>4 DEF MintTicket, Running, Audit
  <2> QED
    BY <1>1, <2>1, Moved
<1> QED
  BY <1>2, <1>3, <1>4

\* A scenario whose broker raised, or whose report did not hold together.
LEMMA EndsSent == ASSUME ReplayInv, AuditBrokerError \/ ReportFails PROVE ReplayInv'
<1>1. ASSUME AuditBrokerError PROVE ReplayInv'
  <2>1. PICK outcome \in BrokerOutcomes(Profile[Scenario.broker]) : finalize(outcome, {}, Key, {})
    BY <1>1 DEF AuditBrokerError, Key
  <2>2. outcome \in UNRESOLVED_OUTCOMES \ {"FILLED", "PARTIAL_FILL", "WORKING"}
    BY DEF BrokerOutcomes, UNRESOLVED_OUTCOMES
  <2>3. /\ pc = "Failed" /\ Audit(AuditArtifact("REJECT")) /\ Fresh
        /\ UNCHANGED <<book, placed, session, runs>>
    BY <1>1 DEF AuditBrokerError, Running
  <2> QED
    BY <2>1, <2>2, <2>3, SentFails
<1>2. ASSUME ReportFails PROVE ReplayInv'
  <2>1. /\ pc = "Report" /\ Audit(AuditArtifact("REJECT")) /\ Fresh
        /\ finalize("REPORT_REJECTED", {"INTERNAL_CONTRADICTION"}, Key, {})
        /\ UNCHANGED <<book, placed, session, runs>>
    BY <1>2 DEF ReportFails, Running, Key
  <2>2. "REPORT_REJECTED" \in UNRESOLVED_OUTCOMES \ {"FILLED", "PARTIAL_FILL", "WORKING"}
    BY DEF UNRESOLVED_OUTCOMES
  <2> QED
    BY <2>1, <2>2, SentFails
<1> QED
  BY <1>1, <1>2

\* A step that changes nothing.
LEMMA Unmoved == ASSUME ReplayInv, UNCHANGED vars PROVE ReplayInv'
<1>1. /\ log' = log /\ book' = book /\ placed' = placed /\ session' = session /\ pc' = pc
      /\ suite' = suite /\ fill' = fill /\ attempts' = attempts /\ drill' = drill
      /\ claimed' = claimed /\ results' = results /\ runs' = runs
  BY DEF vars
<1>2. Scenario' = Scenario /\ Key' = Key
  BY <1>1 DEF Scenario, Key
<1>3. Shapes' /\ Place' /\ Claims'
  BY <1>1, <1>2 DEF ReplayInv, Shapes, Place, Claims
<1>4. Orders' /\ AllSound'
  BY <1>1, <1>2 DEF ReplayInv, Orders, AllSound
<1>5. Own'
  BY <1>1, <1>2 DEF ReplayInv, Own
<1> QED
  BY <1>3, <1>4, <1>5 DEF ReplayInv

\* Every step keeps the invariant.
LEMMA NextReplayInv ==
    ASSUME ReplayInv, [Work \/ Kill \/ Rerun \/ Rest]_vars
    PROVE  ReplayInv'
<1>1. CASE NoProposal \/ AssemblyFails \/ GatewayRejects \/ MintFails
  BY <1>1, EndsUnsent
<1>2. CASE Assemble \/ GatewayApproves \/ MintTicket
  BY <1>2, MovesOn
<1>3. CASE RecordAttempt
  BY <1>3, Recorded
<1>4. CASE Submit
  BY <1>4, Submitted
<1>5. CASE AuditBrokerError \/ ReportFails
  BY <1>5, EndsSent
<1>6. CASE Report
  BY <1>6, ReportWritten
<1>7. CASE Resubmit \/ ResubmitFails
  BY <1>7, Resubmitted
<1>8. CASE Complete
  BY <1>8, Completed
<1>9. CASE GenerateRaises \/ DuplicateAttempt \/ Kill \/ Aggregate
  <2>1. pc' \in Ended
    BY <1>9 DEF GenerateRaises, DuplicateAttempt, Kill, Aggregate, Ended
  <2>2. UNCHANGED <<log, book, placed, suite, results, session, runs>>
    BY <1>9 DEF GenerateRaises, DuplicateAttempt, Kill, Aggregate
  <2> QED
    BY <2>1, <2>2, Stopped
<1>10. CASE Rerun
  BY <1>10, Rerunning
<1>11. CASE Rest \/ UNCHANGED vars
  BY <1>11, Unmoved DEF Rest
<1> QED
  BY <1>1, <1>2, <1>3, <1>4, <1>5, <1>6, <1>7, <1>8, <1>9, <1>10, <1>11 DEF Work

-----------------------------------------------------------------------------
(* The theorems. *)

\* The inductive invariant holds through every replay, rerun and kill of run_scenarios
\* (runner.py:164-449,513-520) on one store.
THEOREM ReplayInductive == Spec => []ReplayInv
<1>1. Init => ReplayInv
  BY InitReplayInv
<1>2. ReplayInv /\ [Work \/ Kill \/ Rerun \/ Rest]_vars => ReplayInv'
  BY NextReplayInv
<1> QED
  BY <1>1, <1>2, PTL DEF Spec

\* Types; the audit_event_seqs a result reports (results.py) are rows of the store, and no
\* row is claimed by two results.
THEOREM ReplayTypeOK == Spec => []TypeOK
<1>1. ReplayInv => TypeOK
  <2> SUFFICES ASSUME ReplayInv PROVE TypeOK
    OBVIOUS
  <2>1. DOMAIN log = 1..Len(log)
    BY ListShape DEF ReplayInv, Shapes
  <2>2. pc \in {"Start", "Decide", "Ticket", "Intent", "Submit", "Failed", "Report", "Drill"}
                   \cup Ended
    BY DEF ReplayInv, Shapes, Midway, Sent
  <2>3. \A r \in Results : r.audit_event_seqs \subseteq DOMAIN log
    BY <2>1 DEF ReplayInv, AllSound, ResultSound, Results
  <2> QED
    BY <2>2, <2>3 DEF TypeOK, ReplayInv, Claims
<1> QED
  BY <1>1, ReplayInductive, PTL

\* Persist before call (runner.py:285,313): no order without its attempt on record, and
\* never a second one for a key, however often suites are killed and replayed.
THEOREM AtMostOneOrderHolds == Spec => []AtMostOneOrder
<1>1. ReplayInv => AtMostOneOrder
  BY DEF ReplayInv, Orders, AtMostOneOrder
<1> QED
  BY <1>1, ReplayInductive, PTL

\* Nothing is dropped silently (runner.py:13,16-18): every result owns the rows that tell
\* how it came about.
THEOREM OutcomeEvidencedHolds == Spec => []OutcomeEvidenced
<1>1. ReplayInv => OutcomeEvidenced
  <2> SUFFICES ASSUME ReplayInv PROVE OutcomeEvidenced
    OBVIOUS
  <2>1. \A r \in Results : Evidenced(log, r)
    BY DEF ReplayInv, AllSound, ResultSound, Results
  <2> QED
    BY <2>1 DEF Evidenced, Rejects, OutcomeEvidenced
<1> QED
  BY <1>1, ReplayInductive, PTL

\* The unresolved flag of a result (results.py:62-77) and unresolved_open_orders of the
\* store agree.
THEOREM UnresolvedAgreesHolds == Spec => []UnresolvedAgrees
<1>1. ReplayInv => UnresolvedAgrees
  <2> SUFFICES ASSUME ReplayInv, NEW r \in Results, r.idempotency_key # NoKey
               PROVE  /\ r.idempotency_key \in unresolved_open_orders(log) => r.unresolved
                      /\ r.unresolved /\ Profile[r.scenario.broker] # "remote" =>
                            r.idempotency_key \in unresolved_open_orders(log)
    BY DEF UnresolvedAgrees
  <2> DEFINE k == r.idempotency_key
  <2>1. Reported(log, r) /\ (r.unresolved <=> r.outcome \in UNRESOLVED_OUTCOMES)
    BY DEF ReplayInv, AllSound, ResultSound, Results
  <2>2. k \in unresolved_open_orders(log) <=> ~HasTerminalReport(log, k)
    BY <2>1 DEF Reported, unresolved_open_orders
  <2>3. CASE ReportsOf(log, k) = {} /\ r.outcome \in UNRESOLVED_OUTCOMES
    BY <2>1, <2>2, <2>3 DEF HasTerminalReport
  <2>4. CASE \E i \in 1..Len(log) :
                /\ ReportsOf(log, k) = {i} /\ r.outcome = LifecycleOutcome(log[i].life)
                /\ Profile[r.scenario.broker] # "remote" =>
                      log[i].life \in {"FILLED", "PARTIAL_FILL", "WORKING"}
    <3>1. PICK i \in 1..Len(log) :
                /\ ReportsOf(log, k) = {i} /\ r.outcome = LifecycleOutcome(log[i].life)
                /\ Profile[r.scenario.broker] # "remote" =>
                      log[i].life \in {"FILLED", "PARTIAL_FILL", "WORKING"}
      BY <2>4
    <3>2. HasTerminalReport(log, k) <=> log[i].life \notin NON_TERMINAL_LIFECYCLE
      BY <3>1 DEF HasTerminalReport, LatestReport
    <3>3. \A life : life \in NON_TERMINAL_LIFECYCLE =>
                       LifecycleOutcome(life) \in UNRESOLVED_OUTCOMES
      BY DEF NON_TERMINAL_LIFECYCLE, LifecycleOutcome, UNRESOLVED_OUTCOMES
    <3>4. \A life \in {"FILLED", "PARTIAL_FILL", "WORKING"} :
             LifecycleOutcome(life) \in UNRESOLVED_OUTCOMES => life \in NON_TERMINAL_LIFECYCLE
      BY DEF NON_TERMINAL_LIFECYCLE, LifecycleOutcome, UNRESOLVED_OUTCOMES
    <3> QED
      BY <2>1, <2>2, <3>1, <3>2, <3>3, <3>4
  <2> QED
    BY <2>1, <2>3, <2>4 DEF Reported
<1> QED
  BY <1>1, ReplayInductive, PTL

\* What the strategy filters on, the gateway does not reject
\* (catastrophe_premium_capture.py:49, request.py:105-121).
THEOREM PrefilterAgreesHolds == Spec => []PrefilterAgrees
<1>1. ReplayInv => PrefilterAgrees
  <2> SUFFICES ASSUME ReplayInv PROVE PrefilterAgrees
    OBVIOUS
  <2>1. \A r \in Results : Coded(r)
    BY DEF ReplayInv, AllSound, ResultSound, Results
  <2> QED
    BY <2>1 DEF Coded, SameContracts, PrefilterAgrees
<1> QED
  BY <1>1, ReplayInductive, PTL

-----------------------------------------------------------------------------
(* The drawdown of a suite. *)

\* The profit and loss of every result is a number.
Numbers(rs) == \A i \in 1..Len(rs) : rs[i].realized_pnl \subseteq Int

\* A supported result adds its number.
LEMMA PnlType ==
    ASSUME NEW rs, Numbers(rs), NEW i \in 1..Len(rs), Supported(rs, i) PROVE Pnl(rs, i) \in Int
BY DEF Numbers, Supported, Pnl

\* The running total: 0 at first, then what it was and what the result adds.
LEMMA TotalValues ==
    ASSUME NEW rs, Len(rs) \in Nat, Numbers(rs)
    PROVE  /\ RunningTotal(rs)[0] = 0
           /\ \A n \in 0..Len(rs) : RunningTotal(rs)[n] \in Int
           /\ \A n \in 1..Len(rs) : RunningTotal(rs)[n] = RunningTotal(rs)[n - 1] +
                  (IF Supported(rs, n) THEN Pnl(rs, n) ELSE 0)
<1> DEFINE N == Len(rs)
           add(n) == IF Supported(rs, n) THEN Pnl(rs, n) ELSE 0
           d == [x \in Int \X (1..N) |-> x[1] + add(x[2])]
           Is(g) == g = [n \in 0..N |-> IF n = 0 THEN 0 ELSE g[n - 1] + add(n)]
           t == RunningTotal(rs)
<1>1. \A i \in 1..N : add(i) \in Int
  BY PnlType
<1>2. t = CHOOSE h : Is(h)
  BY DEF RunningTotal
<1> HIDE DEF add
<1>3. d \in Body(Int, N)
  BY <1>1 DEF Body
<1>4. \A x \in Int, i \in 1..N : d[<<x, i>>] = x + add(i)
  OBVIOUS
<1> HIDE DEF d, t
<1>5. N \in Nat /\ 0 \in Int
  OBVIOUS
<1> HIDE DEF N
<1>6. PICK g \in [0..N -> Int] : Lists(g, N, 0, d)
  BY <1>3, <1>5, LoopValues
<1>7. ASSUME NEW n \in 0..N PROVE g[n] = IF n = 0 THEN 0 ELSE g[n - 1] + add(n)
  <2>1. CASE n # 0
    <3>1. n \in 1..N /\ n - 1 \in 0..N
      BY <2>1, <1>5
    <3> QED
      BY <2>1, <3>1, <1>4, <1>6 DEF Lists
  <2> QED
    BY <2>1, <1>6 DEF Lists
<1>8. Is(g)
  BY <1>7
<1>9. Is(t)
  <2> HIDE DEF Is
  <2> QED
    BY <1>2, <1>8
<1>10. t[0] = 0 /\ \A n \in 1..N : t[n] = t[n - 1] + add(n)
  BY <1>5, <1>9
<1> DEFINE S == {n \in 0..N : t[n] \in Int}
<1>11. 0 \in S
  BY <1>5, <1>10
<1>12. ASSUME NEW i \in 1..N, i - 1 \in S PROVE i \in S
  BY <1>1, <1>5, <1>10, <1>12
<1> HIDE DEF S
<1>13. 0..N \subseteq S
  BY <1>5, <1>11, <1>12, InductionUpTo
<1> QED
  BY <1>10, <1>13 DEF t, N, add, S

\* What the loop of run_scenarios works on.
Accounts == [cumulative : Int, peak : Int, max_drawdown : Int]

\* One pass keeps it numbers.
LEMMA FollowType ==
    ASSUME NEW a \in Accounts, NEW p \in Int PROVE FollowEquity(a, p) \in Accounts
BY DEF FollowEquity, Accounts, MaxOf

\* The locals of the loop: what they start with, and what one pass makes of them.
LEMMA EquityValues ==
    ASSUME NEW rs, Len(rs) \in Nat, Numbers(rs)
    PROVE  /\ EquityAfter(rs)[0] = [cumulative |-> 0, peak |-> 0, max_drawdown |-> 0]
           /\ \A n \in 0..Len(rs) : EquityAfter(rs)[n] \in Accounts
           /\ \A n \in 1..Len(rs) : EquityAfter(rs)[n] =
                  IF Supported(rs, n) THEN FollowEquity(EquityAfter(rs)[n - 1], Pnl(rs, n))
                                      ELSE EquityAfter(rs)[n - 1]
<1> DEFINE N == Len(rs)
           c == [cumulative |-> 0, peak |-> 0, max_drawdown |-> 0]
           pass(a, n) == IF Supported(rs, n) THEN FollowEquity(a, Pnl(rs, n)) ELSE a
           d == [x \in Accounts \X (1..N) |-> pass(x[1], x[2])]
           Is(g) == g = [n \in 0..N |-> IF n = 0 THEN c ELSE pass(g[n - 1], n)]
           t == EquityAfter(rs)
<1>1. \A a \in Accounts, i \in 1..N : pass(a, i) \in Accounts
  BY PnlType, FollowType
<1>2. t = CHOOSE h : Is(h)
  BY DEF EquityAfter
<1> HIDE DEF pass
<1>3. d \in Body(Accounts, N)
  BY <1>1 DEF Body
<1>4. \A x \in Accounts, i \in 1..N : d[<<x, i>>] = pass(x, i)
  OBVIOUS
<1> HIDE DEF d, t
<1>5. N \in Nat /\ c \in Accounts
  BY DEF Accounts
<1> HIDE DEF N, c
<1>6. PICK g \in [0..N -> Accounts] : Lists(g, N, c, d)
  BY <1>3, <1>5, LoopValues
<1>7. ASSUME NEW n \in 0..N PROVE g[n] = IF n = 0 THEN c ELSE pass(g[n - 1], n)
  <2>1. CASE n # 0
    <3>1. n \in 1..N /\ n - 1 \in 0..N
      BY <2>1, <1>5
    <3>2. g[n - 1] \in Accounts /\ g[n] = d[<<g[n - 1], n>>]
      BY <3>1, <1>6 DEF Lists
    <3> QED
      BY <2>1, <3>1, <3>2, <1>4
  <2> QED
    BY <2>1, <1>6 DEF Lists
<1>8. Is(g)
  BY <1>7
<1>9. Is(t)
  <2> HIDE DEF Is
  <2> QED
    BY <1>2, <1>8
<1>10. t[0] = c /\ \A n \in 1..N : t[n] = pass(t[n - 1], n)
  BY <1>5, <1>9
<1> DEFINE S == {n \in 0..N : t[n] \in Accounts}
<1>11. 0 \in S
  BY <1>5, <1>10
<1>12. ASSUME NEW i \in 1..N, i - 1 \in S PROVE i \in S
  BY <1>1, <1>5, <1>10, <1>12
<1> HIDE DEF S
<1>13. 0..N \subseteq S
  BY <1>5, <1>11, <1>12, InductionUpTo
<1> QED
  BY <1>10, <1>13 DEF t, N, pass, S, c

\* After n results: the total, its highest point so far, and its worst fall so far.
FollowsTotal(rs, n) ==
    LET total == RunningTotal(rs)
        acc == EquityAfter(rs)[n]
    IN  /\ acc.cumulative = total[n]
        /\ \E i \in 0..n : acc.peak = total[i]
        /\ \A i \in 0..n : total[i] <= acc.peak
        /\ \E i, j \in 0..n : i <= j /\ acc.max_drawdown = total[i] - total[j]
        /\ \A i, j \in 0..n : i <= j => total[i] - total[j] <= acc.max_drawdown

\* The loop follows the running total, one result at a time.
LEMMA EquityFollows ==
    ASSUME NEW rs, Len(rs) \in Nat, Numbers(rs) PROVE \A n \in 0..Len(rs) : FollowsTotal(rs, n)
<1> DEFINE N == Len(rs)
           S == {n \in 0..N : FollowsTotal(rs, n)}
           total == RunningTotal(rs)
           acc == EquityAfter(rs)
<1>0. N \in Nat
  OBVIOUS
<1>1. /\ total[0] = 0 /\ \A n \in 0..N : total[n] \in Int
      /\ \A n \in 1..N : total[n] = total[n - 1] + (IF Supported(rs, n) THEN Pnl(rs, n) ELSE 0)
  BY TotalValues
<1>2. /\ acc[0] = [cumulative |-> 0, peak |-> 0, max_drawdown |-> 0]
      /\ \A n \in 0..N : acc[n] \in Accounts
      /\ \A n \in 1..N : acc[n] = IF Supported(rs, n) THEN FollowEquity(acc[n - 1], Pnl(rs, n))
                                                      ELSE acc[n - 1]
  BY EquityValues
<1>3. \A n \in 1..N : Supported(rs, n) => Pnl(rs, n) \in Int
  BY PnlType
<1>4. 0 \in S
  BY <1>1, <1>2 DEF FollowsTotal
<1>5. ASSUME NEW n \in 1..N, n - 1 \in S PROVE n \in S
  <2> DEFINE a == acc[n - 1]
             b == acc[n]
  <2>1. /\ n - 1 \in 0..N /\ n \in 0..N
        /\ 0..n = 0..(n - 1) \cup {n}
    BY <1>0
  <2>2. /\ a.cumulative = total[n - 1]
        /\ \E i \in 0..(n - 1) : a.peak = total[i]
        /\ \A i \in 0..(n - 1) : total[i] <= a.peak
        /\ \E i, j \in 0..(n - 1) : i <= j /\ a.max_drawdown = total[i] - total[j]
        /\ \A i, j \in 0..(n - 1) : i <= j => total[i] - total[j] <= a.max_drawdown
    BY <1>5 DEF FollowsTotal
  <2>3. /\ a.cumulative \in Int /\ a.peak \in Int /\ a.max_drawdown \in Int
        /\ \A i \in 0..n : total[i] \in Int
    BY <1>1, <1>2, <2>1 DEF Accounts
  <2>4. /\ b.cumulative = total[n]
        /\ b.peak = MaxOf(a.peak, total[n])
        /\ b.max_drawdown = MaxOf(a.max_drawdown, b.peak - total[n])
    <3>1. CASE Supported(rs, n)
      <4>1. b = FollowEquity(a, Pnl(rs, n)) /\ total[n] = a.cumulative + Pnl(rs, n)
        BY <3>1, <1>1, <1>2, <2>2
      <4> HIDE DEF a, b, total
      <4> QED
        BY <4>1 DEF FollowEquity
    <3>2. CASE ~Supported(rs, n)
      <4>1. b = a /\ total[n] = total[n - 1]
        BY <3>2, <1>1, <1>2, <2>1
      <4>2. total[n] <= a.peak
        BY <4>1, <2>1, <2>2
      <4>3. a.peak - total[n] <= a.max_drawdown
        <5>1. PICK i \in 0..(n - 1) : a.peak = total[i]
          BY <2>2
        <5>2. i <= n - 1 /\ n - 1 \in 0..(n - 1)
          OBVIOUS
        <5> QED
          BY <4>1, <5>1, <5>2, <2>2
      <4> HIDE DEF a, b, total
      <4> QED
        BY <4>1, <4>2, <4>3, <2>2, <2>3 DEF MaxOf
    <3> QED
      BY <3>1, <3>2
  <2> HIDE DEF a, b, total
  <2>5. \E i \in 0..n : b.peak = total[i]
    BY <2>1, <2>2, <2>4 DEF MaxOf
  <2>6. ASSUME NEW i \in 0..n PROVE total[i] <= b.peak
    <3>1. a.peak <= b.peak /\ total[n] <= b.peak /\ b.peak \in Int
      BY <2>3, <2>4 DEF MaxOf
    <3>2. CASE i \in 0..(n - 1)
      <4>1. total[i] <= a.peak
        BY <2>2, <3>2
      <4> QED
        BY <2>3, <3>1, <4>1
    <3> QED
      BY <2>1, <3>1, <3>2
  <2>7. \E i, j \in 0..n : i <= j /\ b.max_drawdown = total[i] - total[j]
    <3>1. CASE b.max_drawdown = a.max_drawdown
      BY <3>1, <2>1, <2>2
    <3>2. CASE b.max_drawdown = b.peak - total[n]
      <4>1. PICK i \in 0..n : b.peak = total[i]
        BY <2>5
      <4>2. i <= n /\ n \in 0..n
        OBVIOUS
      <4> QED
        BY <4>1, <4>2, <3>2
    <3> QED
      BY <3>1, <3>2, <2>4 DEF MaxOf
  <2>8. ASSUME NEW i \in 0..n, NEW j \in 0..n, i <= j PROVE total[i] - total[j] <= b.max_drawdown
    <3>1. b.peak \in Int /\ b.max_drawdown \in Int
      BY <2>3, <2>4 DEF MaxOf
    <3>2. CASE j = n
      <4>1. b.peak - total[n] <= b.max_drawdown
        BY <2>3, <2>4, <3>1 DEF MaxOf
      <4> QED
        BY <3>1, <3>2, <4>1, <2>3, <2>6
    <3>3. CASE j # n
      <4>1. i \in 0..(n - 1) /\ j \in 0..(n - 1)
        BY <2>8, <3>3
      <4>2. a.max_drawdown <= b.max_drawdown
        BY <2>3, <2>4, <3>1 DEF MaxOf
      <4>3. total[i] - total[j] <= a.max_drawdown
        BY <2>2, <2>8, <4>1
      <4> QED
        BY <4>2, <4>3, <2>3, <3>1
    <3> QED
      BY <3>2, <3>3
  <2>9. FollowsTotal(rs, n)
    BY <2>4, <2>5, <2>6, <2>7, <2>8 DEF FollowsTotal, b, total
  <2> QED
    BY <2>1, <2>9
<1> HIDE DEF S
<1>6. 0..N \subseteq S
  BY <1>0, <1>4, <1>5, InductionUpTo
<1> QED
  BY <1>6 DEF S

-----------------------------------------------------------------------------
(* The drawdown of a summary. *)

\* The results have numbers, the fill the next one is computed from has too, and a summary
\* has the drawdown of the results, which no step adds to any more.
EquityInv ==
    /\ Numbers(results)
    /\ pc \in {"Report", "Drill"} => \A o \in fill : o.filled \in Nat /\ o.intent.price \in Int
    /\ pc # "Done" => summary = {}
    /\ \A s \in summary : s.max_drawdown = Equity(results).max_drawdown

\* A new order is for the intent it was submitted with.
LEMMA NewIntent ==
    ASSUME NEW b \in Brokers, NEW i \in Intents, book[b][KeyOf(i)] = NoOrder,
           NEW o \in SubmitOutcomes(b, i), o.order # NoOrder
    PROVE  o.order.intent = i
<1> DEFINE new == simulate(Profile[b], i)
           worked == {[intent |-> i, life |-> "WORKING", filled |-> 0],
                      [intent |-> i, life |-> "REJECTED", filled |-> 0],
                      [intent |-> i, life |-> "FILLED", filled |-> Requested(i)]}
<1>1. \A w \in worked : w.intent = i
  OBVIOUS
<1>2. new = NoOrder \/ new.intent = i
  BY DEF simulate
<1> HIDE DEF new, worked
<1>3. CASE Profile[b] = "remote"
  <2>1. o \in [reply : {"ack", "error"}, order : worked] \/ o = [reply |-> "error", order |-> NoOrder]
    BY <1>3 DEF SubmitOutcomes, RemoteSubmit, worked
  <2> QED
    BY <1>1, <2>1
<1>4. CASE Profile[b] # "remote"
  <2>1. o = [reply |-> IF new = NoOrder THEN "error" ELSE "ack", order |-> new]
    BY <1>4 DEF SubmitOutcomes, new
  <2> QED
    BY <1>2, <2>1
<1> QED
  BY <1>3, <1>4

\* What the broker answers first has a number of contracts and the scenario's price.
LEMMA FirstFill ==
    ASSUME ReplayInv, Submit, pc' = "Report"
    PROVE  \A o \in fill' : o.filled \in Nat /\ o.intent.price \in Int
<1> DEFINE b == Scenario.broker
           i == IntentOf(Scenario)
<1>1. pc = "Submit" /\ pc \in Sent /\ pc \in Midway
  BY DEF Submit, Running, Sent, Midway
<1>2. PICK o \in SubmitOutcomes(b, i) :
             /\ fill' = IF o.reply = "ack" THEN {o.order} ELSE {}
             /\ pc' = IF o.reply = "ack" THEN "Report" ELSE "Failed"
  BY DEF Submit
<1>3. Scenario \in Scenarios /\ b \in Brokers /\ i \in Intents /\ Key \in Keys
  BY <1>1, AtSent
<1>4. book[b][KeyOf(i)] = NoOrder
  <2>1. placed[Key] = 0 /\ (book[b][Key] # NoOrder => placed[Key] > 0) /\ placed \in [Keys -> Nat]
    BY <1>1, <1>3 DEF ReplayInv, Orders, Shapes
  <2> QED
    BY <2>1, <1>3 DEF Key
<1>5. Mintable(Scenario)
  BY <1>1 DEF ReplayInv, Place, Mintable
<1>6. i.price \in Int
  <2>1. TicketOf(Scenario).order_type = "LIMIT"
    BY <1>5 DEF Mintable, IntentMints
  <2>2. OrderType[TicketOf(Scenario)] = "LIMIT" /\ Scenario.limit_price \in Int
    BY <1>3, <1>5, <2>1, ReplayAssumption DEF ScenarioValid
  <2> QED
    BY <2>2 DEF IntentOf, mint_broker_submit_intent
<1> HIDE DEF b, i
<1>7. o.reply = "ack" => o.order \in Order
  BY <1>3, <1>4, NewOutcome
<1>8. o.reply = "ack" => o.order # NoOrder
  BY <1>7, ReplayAssumption
<1>9. o.reply = "ack" => o.order.filled \in Nat /\ o.order.intent = i
  BY <1>3, <1>4, <1>7, <1>8, NewIntent DEF Order
<1> QED
  BY <1>2, <1>6, <1>9

\* What a complete scenario realizes is a number, if anything.
LEMMA PnlOfFill ==
    ASSUME ReplayInv, EquityInv, pc = "Drill", NEW o \in fill
    PROVE  compute_pnl(Scenario, o) \subseteq Int
<1> DEFINE m == build_candidate(Scenario.strategy, Scenario.ctx).multiplier
<1>1. pc \in Sent /\ pc \in Midway
  BY DEF Sent, Midway
<1>2. Scenario \in Scenarios /\ Mintable(Scenario)
  BY <1>1, AtSent DEF ReplayInv, Place, Mintable
<1>3. /\ m \in Nat /\ Scenario.slippage_per_contract \in Nat
      /\ \A v \in Scenario.settlement_value_per_spread : v \in Nat
  BY <1>2, ReplayAssumption DEF ScenarioValid
<1>4. o.filled \in Nat /\ o.intent.price \in Int
  BY DEF EquityInv
<1> HIDE DEF m
<1> DEFINE priced == IF o.filled > 0 THEN o.intent.price ELSE 0
           units == o.filled * m
           slip == Scenario.slippage_per_contract
<1>5. priced \in Int /\ units \in Int
  BY <1>3, <1>4
<1>6. compute_pnl(Scenario, o) =
          {(priced - v) * units - slip * units : v \in Scenario.settlement_value_per_spread}
  BY DEF compute_pnl, m
<1> HIDE DEF priced, units, slip
<1>7. \A v \in Nat : (priced - v) * units - slip * units \in Int
  BY <1>3, <1>5 DEF slip
<1> QED
  BY <1>3, <1>6, <1>7

\* A result whose profit and loss is a number, added to such results.
LEMMA NumbersAppend ==
    ASSUME NEW rs, IsList(rs), Numbers(rs), NEW r, r.realized_pnl \subseteq Int
    PROVE  Numbers(Append(rs, r))
<1>1. /\ Len(rs) \in Nat /\ Len(Append(rs, r)) = Len(rs) + 1
      /\ \A i \in 1..Len(rs) : Append(rs, r)[i] = rs[i]
      /\ Append(rs, r)[Len(rs) + 1] = r
  BY ListAppend
<1>2. ASSUME NEW i \in 1..(Len(rs) + 1) PROVE Append(rs, r)[i].realized_pnl \subseteq Int
  <2>1. i \in 1..Len(rs) \/ i = Len(rs) + 1
    BY <1>1
  <2> QED
    BY <1>1, <2>1 DEF Numbers
<1> QED
  BY <1>1, <1>2 DEF Numbers

\* Every step keeps it.
LEMMA NextEquityInv ==
    ASSUME ReplayInv, EquityInv, [Work \/ Kill \/ Rerun \/ Rest]_vars
    PROVE  EquityInv'
<1>0. IsList(results)
  BY DEF ReplayInv, Shapes
<1>1. CASE NoProposal \/ AssemblyFails \/ GatewayRejects \/ MintFails \/ AuditBrokerError \/ ReportFails
  <2>1. /\ pc # "Done" /\ pc' = "Start" /\ summary' = summary
        /\ \E r : results' = Append(results, r) /\ r.realized_pnl = {}
    <3>1. CASE NoProposal
      BY <3>1 DEF NoProposal, Running, finalize
    <3>2. CASE AssemblyFails
      BY <3>2 DEF AssemblyFails, Running, finalize
    <3>3. CASE GatewayRejects
      BY <3>3 DEF GatewayRejects, Running, finalize
    <3>4. CASE MintFails
      BY <3>4 DEF MintFails, Running, finalize
    <3>5. CASE AuditBrokerError
      BY <3>5 DEF AuditBrokerError, Running, finalize
    <3>6. CASE ReportFails
      BY <3>6 DEF ReportFails, Running, finalize
    <3> QED
      BY <1>1, <3>1, <3>2, <3>3, <3>4, <3>5, <3>6
  <2>2. Numbers(results')
    BY <1>0, <2>1, NumbersAppend DEF EquityInv
  <2> QED
    BY <2>1, <2>2 DEF EquityInv
<1>2. CASE Complete
  <2>1. /\ pc = "Drill" /\ pc' = "Start" /\ summary' = summary
        /\ \E o \in fill :
              \E r : results' = Append(results, r) /\ r.realized_pnl = compute_pnl(Scenario, o)
    BY <1>2 DEF Complete, Running, finalize
  <2>2. Numbers(results')
    BY <1>0, <2>1, PnlOfFill, NumbersAppend DEF EquityInv
  <2> QED
    BY <2>1, <2>2 DEF EquityInv
<1>3. CASE Submit
  <2>1. /\ pc = "Submit" /\ pc' \in {"Report", "Failed"} /\ summary' = summary /\ results' = results
    BY <1>3 DEF Submit, Running
  <2>2. pc' = "Report" => \A o \in fill' : o.filled \in Nat /\ o.intent.price \in Int
    BY <1>3, FirstFill
  <2> QED
    BY <2>1, <2>2 DEF EquityInv
<1>4. CASE Report \/ Resubmit \/ ResubmitFails
  <2>1. pc \in {"Report", "Drill"} /\ pc' = "Drill" /\ UNCHANGED <<summary, results, fill>>
    BY <1>4 DEF Report, Resubmit, ResubmitFails, Running
  <2> QED
    BY <2>1 DEF EquityInv
<1>5. CASE Assemble \/ GatewayApproves \/ MintTicket \/ RecordAttempt \/ GenerateRaises
            \/ DuplicateAttempt \/ Kill
  <2>1. /\ pc # "Done" /\ pc' \notin {"Report", "Drill", "Done"} /\ UNCHANGED <<summary, results>>
    BY <1>5 DEF Assemble, GatewayApproves, MintTicket, RecordAttempt, GenerateRaises,
                DuplicateAttempt, Kill, Running, Ended
  <2> QED
    BY <2>1 DEF EquityInv
<1>6. CASE Aggregate
  <2>1. /\ pc' = "Done" /\ results' = results
        /\ \A s \in summary' : s.max_drawdown = Equity(results).max_drawdown
    BY <1>6 DEF Aggregate
  <2> QED
    BY <2>1 DEF EquityInv
<1>7. CASE Rerun
  <2>1. pc' = "Start" /\ results' = <<>> /\ summary' = {}
    BY <1>7 DEF Rerun
  <2>2. Numbers(<<>>)
    BY EmptySeq DEF Numbers
  <2> QED
    BY <2>1, <2>2 DEF EquityInv
<1>8. CASE Rest \/ UNCHANGED vars
  BY <1>8 DEF Rest, vars, EquityInv
<1> QED
  BY <1>1, <1>2, <1>3, <1>4, <1>5, <1>6, <1>7, <1>8 DEF Work

\* max_drawdown (runner.py:522-529, results.py:144-146) is the largest fall of the running
\* total of the supported results from any point, the start included, to a later one.
THEOREM DrawdownIsWorstFallHolds == Spec => []DrawdownIsWorstFall
<1>1. Init => EquityInv
  <2>1. Numbers(<<>>)
    BY EmptySeq DEF Numbers
  <2> QED
    BY <2>1 DEF Init, Begin, EquityInv
<1>2. ReplayInv /\ EquityInv /\ [Work \/ Kill \/ Rerun \/ Rest]_vars => EquityInv'
  BY NextEquityInv
<1>3. ReplayInv /\ EquityInv => DrawdownIsWorstFall
  <2> SUFFICES ASSUME ReplayInv, EquityInv, NEW s \in summary
               PROVE  LET total == RunningTotal(results)
                          falls == {total[p[1]] - total[p[2]] :
                              p \in {q \in (0..Len(results)) \X (0..Len(results)) : q[1] <= q[2]}}
                      IN  /\ s.max_drawdown \in falls
                          /\ \A f \in falls : f <= s.max_drawdown
    BY DEF DrawdownIsWorstFall
  <2> DEFINE N == Len(results)
             total == RunningTotal(results)
  <2>1. N \in Nat /\ Numbers(results)
    BY ListShape DEF ReplayInv, Shapes, EquityInv
  <2>2. FollowsTotal(results, N)
    BY <2>1, EquityFollows
  <2>3. s.max_drawdown = EquityAfter(results)[N].max_drawdown
    BY DEF EquityInv, Equity
  <2>4. /\ \E i, j \in 0..N : i <= j /\ s.max_drawdown = total[i] - total[j]
        /\ \A i, j \in 0..N : i <= j => total[i] - total[j] <= s.max_drawdown
    BY <2>2, <2>3 DEF FollowsTotal
  <2> DEFINE Pairs == {q \in (0..N) \X (0..N) : q[1] <= q[2]}
             falls == {total[p[1]] - total[p[2]] : p \in Pairs}
  <2> HIDE DEF N, total
  <2>5. s.max_drawdown \in falls
    <3>1. PICK i \in 0..N, j \in 0..N : i <= j /\ s.max_drawdown = total[i] - total[j]
      BY <2>4
    <3>2. <<i, j>> \in Pairs /\ s.max_drawdown = total[<<i, j>>[1]] - total[<<i, j>>[2]]
      BY <3>1
    <3> QED
      BY <3>2
  <2>6. \A f \in falls : f <= s.max_drawdown
    BY <2>4
  <2> QED
    BY <2>5, <2>6 DEF N, total
<1> QED
  BY <1>1, <1>2, <1>3, ReplayInductive, PTL DEF Spec
=============================================================================
