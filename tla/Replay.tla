------------------------------- MODULE Replay -------------------------------
(***************************************************************************)
(* replay/: run_scenarios walks the whole pipeline for each scenario of a  *)
(* suite: strategy, gateway, routing, the persisted submit attempt, the    *)
(* broker, the report, and the resubmission drill.  One step per committed *)
(* row or broker call.  A suite may be replayed again on the same store,   *)
(* after it finished, raised or was killed.                                *)
(***************************************************************************)
EXTENDS Strategy, PaperBroker, AuditStore

\* What is replayed on one store: the suite of each run of run_scenarios, a suite being a
\* sequence of ReplayScenarios.
CONSTANT Sessions

VARIABLES session,    \* the suites this store sees
          pc,         \* the next step of run_scenario, or how the run ended
          suite,      \* the scenarios still to be replayed; the first is the current one
          fill,       \* what the broker last answered: an order or an error, at most one
          attempts,   \* submit_attempts of the current scenario
          drill,      \* what the resubmissions of the current scenario showed
          claimed,    \* the seqs its _Audit has collected
          results,    \* the ReplayResults so far
          summary,    \* the ReplayRun, once the suite is done: a set of at most one
          runs        \* runs started so far, an index into session

vars == <<log, book, placed, session, pc, suite, fill, attempts, drill, claimed, results, summary,
          runs>>

\* ReplayScenario and FillAssumptions can be constructed.
ScenarioValid(sc) ==
    /\ sc.ctx.contracts >= 1 /\ sc.limit_price \in Nat \ {0} /\ sc.resubmit_attempts >= 0
    /\ sc.slippage_per_contract \in Nat
    /\ \A v \in sc.settlement_value_per_spread : v \in Nat

\* Every scenario of every suite.
Scenarios ==
    UNION {UNION {{ss[run][i] : i \in DOMAIN ss[run]} : run \in DOMAIN ss} : ss \in Sessions}

Scenario == Head(suite)

\* The request assembled from the strategy's candidate and the scenario's safety state.
RequestOf(sc) ==
    [sc.safety EXCEPT !.candidate = build_candidate(sc.strategy, sc.ctx),
                      !.as_of = sc.ctx.as_of]

\* What order_ticket_hash covers; the legs are the candidate's.
TicketOf(sc) ==
    [candidate |-> build_candidate(sc.strategy, sc.ctx),
     order_type |-> decide_order_route(sc.routing_state).order_type,
     route |-> decide_order_route(sc.routing_state), policy_state |-> sc.routing_state.policy_state,
     approved_heat |-> sc.safety.heat, created_at |-> sc.ctx.as_of]

\* mint_broker_submit_intent with attempt_counter = 1 and the scenario's price, which a
\* MARKET ticket may not carry: a scenario always has one, so MARKET never mints.
IntentMints(sc) == TicketOf(sc).order_type = "LIMIT"

IntentOf(sc) == mint_broker_submit_intent(TicketOf(sc), 1, sc.limit_price)

\* The scenario gets as far as a submit intent, if the gateway approves.
Mintable(sc) ==
    /\ generate(sc.strategy, sc.ctx) = "Proposal"
    /\ mint_order_ticket(RequestOf(sc).candidate, sc.routing_state) /\ IntentMints(sc)

\* The tickets, attempts and prices are those of the scenarios, and a ticket's order type is
\* the one it was minted with; the safety state has the fields a request has.
ASSUME ReplayAssumption ==
    /\ Sessions \subseteq Seq(Seq(Scenarios)) /\ <<>> \notin Sessions
    /\ \A sc \in Scenarios :
          /\ ScenarioValid(sc) /\ sc.broker \in Brokers
          /\ {"candidate", "as_of", "spread_contract"} \subseteq DOMAIN sc.safety
          /\ Mintable(sc) => /\ IntentOf(sc) \in Intents
                             /\ OrderType[TicketOf(sc)] = TicketOf(sc).order_type
                             /\ build_candidate(sc.strategy, sc.ctx).multiplier \in Nat
    /\ NoKey \notin Keys /\ NoOrder \notin Order

\* Mutant: an order that timed out is taken for one that was never placed.
TimeoutResolved ==
    {"BROKER_REJECTED", "BROKER_DISCONNECTED", "PARTIAL_FILL", "WORKING", "REPORT_REJECTED"}

UNRESOLVED_OUTCOMES ==
    {"BROKER_REJECTED", "BROKER_DISCONNECTED", "BROKER_TIMEOUT",
     "PARTIAL_FILL", "WORKING", "REPORT_REJECTED"}

\* _BROKER_OUTCOME, by the error an adapter raises.
BrokerOutcomes(adapter) ==
    CASE adapter = "disconnect" -> {"BROKER_DISCONNECTED"}
      [] adapter = "slow" -> {"BROKER_TIMEOUT"}
      [] adapter = "remote" -> {"BROKER_REJECTED", "BROKER_DISCONNECTED", "BROKER_TIMEOUT"}
      [] OTHER -> {"BROKER_REJECTED"}

\* _LIFECYCLE_OUTCOME, with its default.
LifecycleOutcome(life) == IF life \in {"FILLED", "PARTIAL_FILL"} THEN life ELSE "WORKING"

\* _compute_pnl: supported only with an explicit settlement; an unpriced fill counts 0.
compute_pnl(sc, order) ==
    LET priced == IF order.filled > 0 THEN order.intent.price ELSE 0
        units == order.filled * build_candidate(sc.strategy, sc.ctx).multiplier
    IN  {(priced - v) * units - sc.slippage_per_contract * units :
            v \in sc.settlement_value_per_spread}

HazardCodes == {"PROTECTION_HIERARCHY_VIOLATION", "BROKEN_SPREAD_STATE"}

passed(sc, outcome, hazard) ==
    outcome = sc.expected_outcome /\ (sc.expect_protection_hazard => hazard)

\* _finalize: the result of the current scenario, and on to the next one.
finalize(outcome, codes, key, pnl) ==
    LET hazard == codes \cap HazardCodes # {} IN
    /\ results' = Append(results,
           [scenario |-> Scenario, outcome |-> outcome, reason_codes |-> codes,
            passed |-> passed(Scenario, outcome, hazard), idempotency_key |-> key,
            submit_attempts |-> attempts, drill |-> drill, realized_pnl |-> pnl,
            unresolved |-> outcome \in UNRESOLVED_OUTCOMES, audit_event_seqs |-> claimed'])
    /\ suite' = Tail(suite)
    /\ pc' = "Start"

\* _Audit.add: the row, and its seq among the scenario's.
Audit(event) == append(event) /\ claimed' = claimed \cup {Len(log) + 1}

NoDrill == [second |-> FALSE, deduped |-> FALSE]

Begin(s) ==
    /\ pc = "Start" /\ suite = s
    /\ fill = {} /\ attempts = 0 /\ drill = NoDrill /\ claimed = {}

Init ==
    /\ log = <<>> /\ results = <<>> /\ summary = {} /\ runs = 1
    /\ book = [b \in Brokers |-> [k \in Keys |-> NoOrder]]
    /\ placed = [k \in Keys |-> 0]
    /\ session \in Sessions /\ Begin(session[1])

-----------------------------------------------------------------------------
\* ---- 1. the strategy ----
Running(step) == pc = step /\ suite # <<>>

\* The locals of run_scenario that the next scenario starts with.
Fresh == fill' = {} /\ attempts' = 0 /\ drill' = NoDrill

Generated == generate(Scenario.strategy, Scenario.ctx)

\* The first step of a scenario starts its _Audit, so claimed holds one seq after it.
NoProposal ==
    /\ Running("Start") /\ Generated \in {"Unavailable", "None"}
    /\ append(AuditArtifact("NO_TRADE")) /\ claimed' = {Len(log) + 1}
    /\ finalize(IF Generated = "None" THEN "NO_CANDIDATE" ELSE "DATA_UNAVAILABLE",
                {}, NoKey, {})
    /\ Fresh
    /\ UNCHANGED <<book, placed, summary, session, runs>>

\* Any other exception of generate leaves the runner.
GenerateRaises ==
    /\ Running("Start") /\ Generated = "Raises"
    /\ pc' = "Raised"
    /\ UNCHANGED <<log, book, placed, suite, fill, attempts, drill, claimed, results, summary, session, runs>>

\* ---- 2. the gateway ----
AssemblyFails ==
    /\ Running("Start") /\ Generated = "Proposal" /\ ~RequestValid(RequestOf(Scenario))
    /\ append(AuditArtifact("REJECT")) /\ claimed' = {Len(log) + 1}
    /\ finalize("GATEWAY_REJECTED", {"INTERNAL_CONTRADICTION"}, NoKey, {})
    /\ Fresh
    /\ UNCHANGED <<book, placed, summary, session, runs>>

\* Mutant: one _Audit for the whole suite, so a result repeats the seqs of the ones before.
AssembleOnSharedAudit ==
    /\ Running("Start") /\ Generated = "Proposal" /\ RequestValid(RequestOf(Scenario))
    /\ Audit(Plain("GATEWAY_REQUEST", "NONE"))
    /\ pc' = "Decide"
    /\ UNCHANGED <<book, placed, suite, fill, attempts, drill, results, summary, session, runs>>

Assemble ==
    /\ Running("Start") /\ Generated = "Proposal" /\ RequestValid(RequestOf(Scenario))
    /\ append(Plain("GATEWAY_REQUEST", "NONE")) /\ claimed' = {Len(log) + 1}
    /\ pc' = "Decide"
    /\ UNCHANGED <<book, placed, suite, fill, attempts, drill, results, summary, session, runs>>

GatewayRejects ==
    /\ Running("Decide") /\ ~is_approved(RequestOf(Scenario))
    /\ Audit(AuditArtifact("REJECT"))
    /\ finalize("GATEWAY_REJECTED", validate(RequestOf(Scenario)), NoKey, {})
    /\ Fresh
    /\ UNCHANGED <<book, placed, summary, session, runs>>

GatewayApproves ==
    /\ Running("Decide") /\ is_approved(RequestOf(Scenario))
    /\ Audit(Plain("VALIDATED_TRADE_INTENT", "NONE"))
    /\ pc' = "Ticket"
    /\ UNCHANGED <<book, placed, suite, fill, attempts, drill, results, summary, session, runs>>

\* ---- 3-4. routing and the submit intent ----
MintTicket ==
    /\ Running("Ticket")
    /\ mint_order_ticket(RequestOf(Scenario).candidate, Scenario.routing_state)
    /\ Audit(Plain("ORDER_TICKET", "NONE"))
    /\ pc' = "Intent"
    /\ UNCHANGED <<book, placed, suite, fill, attempts, drill, results, summary, session, runs>>

\* A refused route, or a ticket no intent can be minted from: both are audited here.
MintFails ==
    /\ \/ /\ Running("Ticket")
          /\ ~mint_order_ticket(RequestOf(Scenario).candidate, Scenario.routing_state)
       \/ Running("Intent") /\ ~IntentMints(Scenario)
    /\ Audit(AuditArtifact("REJECT"))
    /\ finalize("GATEWAY_REJECTED", {"INTERNAL_CONTRADICTION"}, NoKey, {})
    /\ Fresh
    /\ UNCHANGED <<book, placed, summary, session, runs>>

\* Mutant: the broker is called before the attempt is on record.
AttemptUnrecorded ==
    /\ Running("Intent") /\ IntentMints(Scenario)
    /\ ~DuplicateIdempotencyKey(KeyOf(IntentOf(Scenario)))
    /\ attempts' = 1 /\ pc' = "Submit"
    /\ UNCHANGED <<log, claimed, book, placed, suite, fill, drill, results, summary, session, runs>>

\* add_submit_attempt comes before the broker call, and outside the try.
RecordAttempt ==
    /\ Running("Intent") /\ IntentMints(Scenario)
    /\ record_submit_attempt(IntentOf(Scenario)) /\ claimed' = claimed \cup {Len(log) + 1}
    /\ attempts' = 1 /\ pc' = "Submit"
    /\ UNCHANGED <<book, placed, suite, fill, drill, results, summary, session, runs>>

DuplicateAttempt ==
    /\ Running("Intent") /\ IntentMints(Scenario)
    /\ DuplicateIdempotencyKey(KeyOf(IntentOf(Scenario)))
    /\ pc' = "Raised"
    /\ UNCHANGED <<log, book, placed, suite, fill, attempts, drill, claimed, results, summary, session, runs>>

\* ---- 5. the broker ----
Submit ==
    /\ Running("Submit")
    /\ \E o \in SubmitOutcomes(Scenario.broker, IntentOf(Scenario)) :
           /\ submit_order(Scenario.broker, IntentOf(Scenario), o)
           /\ fill' = IF o.reply = "ack" THEN {o.order} ELSE {}
           /\ pc' = IF o.reply = "ack" THEN "Report" ELSE "Failed"
    /\ UNCHANGED <<log, suite, attempts, drill, claimed, results, summary, session, runs>>

\* Mutant: the error is classified, and its artifact forgotten.
BrokerErrorUnaudited ==
    /\ Running("Failed")
    /\ UNCHANGED <<log, claimed>>
    /\ \E outcome \in BrokerOutcomes(Profile[Scenario.broker]) :
           finalize(outcome, {}, KeyOf(IntentOf(Scenario)), {})
    /\ Fresh
    /\ UNCHANGED <<book, placed, summary, session, runs>>

AuditBrokerError ==
    /\ Running("Failed")
    /\ Audit(AuditArtifact("REJECT"))
    /\ \E outcome \in BrokerOutcomes(Profile[Scenario.broker]) :
           finalize(outcome, {}, KeyOf(IntentOf(Scenario)), {})
    /\ Fresh
    /\ UNCHANGED <<book, placed, summary, session, runs>>

\* ---- 6. the report ----
Report ==
    /\ Running("Report")
    /\ \E order \in fill :
           /\ ReportCoherent(order.life, order.filled, Requested(order.intent))
           /\ Audit(ReportEvent(KeyOf(IntentOf(Scenario)), order.life, order.filled))
    /\ pc' = "Drill"
    /\ UNCHANGED <<book, placed, suite, fill, attempts, drill, results, summary, session, runs>>

\* A fill stamped before the submission, or one that does not add up.
ReportFails ==
    /\ Running("Report")
    /\ \E order \in fill :
           \/ ReportTimed(order.life, order.filled)
           \/ ~ReportCoherent(order.life, order.filled, Requested(order.intent))
    /\ Audit(AuditArtifact("REJECT"))
    /\ finalize("REPORT_REJECTED", {"INTERNAL_CONTRADICTION"}, KeyOf(IntentOf(Scenario)), {})
    /\ Fresh
    /\ UNCHANGED <<book, placed, summary, session, runs>>

\* ---- 7. the duplicate-submit drill ----
Resubmissions == attempts - 1

\* A remote adapter may also raise on an order it holds.
ResubmitOutcomes(b, intent) ==
    SubmitOutcomes(b, intent)
        \cup (IF Profile[b] = "remote" THEN {[reply |-> "error", order |-> book[b][KeyOf(intent)]]}
                                       ELSE {})

\* Mutant: the retries are not counted.
ResubmitUncounted ==
    LET intent == IntentOf(Scenario) IN
    /\ Running("Drill") /\ Resubmissions < Scenario.resubmit_attempts
    /\ \E o \in ResubmitOutcomes(Scenario.broker, intent) :
           o.reply = "ack" /\ submit_order(Scenario.broker, intent, o)
    /\ UNCHANGED <<log, claimed, pc, suite, fill, attempts, drill, results, summary, session, runs>>

\* The broker gets the same intent again; the store refuses to persist it twice.
Resubmit ==
    LET intent == IntentOf(Scenario) IN
    /\ Running("Drill") /\ Resubmissions < Scenario.resubmit_attempts
    /\ attempts' = attempts + 1
    /\ \E o \in ResubmitOutcomes(Scenario.broker, intent) :
           /\ submit_order(Scenario.broker, intent, o)
           /\ o.reply = "ack"
           /\ drill' = [second |-> drill.second \/ book[Scenario.broker][KeyOf(intent)] = NoOrder,
                        deduped |-> drill.deduped \/ DuplicateIdempotencyKey(KeyOf(intent))]
    /\ IF DuplicateIdempotencyKey(KeyOf(intent)) THEN UNCHANGED <<log, claimed>>
       ELSE Audit(SubmitEvent(intent))
    /\ UNCHANGED <<pc, suite, fill, results, summary, session, runs>>

ResubmitFails ==
    LET intent == IntentOf(Scenario) IN
    /\ Running("Drill") /\ Resubmissions < Scenario.resubmit_attempts
    /\ attempts' = attempts + 1
    /\ \E o \in ResubmitOutcomes(Scenario.broker, intent) :
           o.reply = "error" /\ submit_order(Scenario.broker, intent, o)
    /\ Audit(AuditArtifact("REJECT"))
    /\ UNCHANGED <<pc, suite, fill, drill, results, summary, session, runs>>

\* The outcome goes by the first fill.
Complete ==
    /\ Running("Drill") /\ Resubmissions = Scenario.resubmit_attempts
    /\ UNCHANGED claimed
    /\ \E order \in fill :
           finalize(LifecycleOutcome(order.life), {}, KeyOf(IntentOf(Scenario)),
                    compute_pnl(Scenario, order))
    /\ Fresh
    /\ UNCHANGED <<log, book, placed, summary, session, runs>>

-----------------------------------------------------------------------------
MaxOf(a, b) == IF a >= b THEN a ELSE b

\* Mutant: the peak follows every result down again.
FollowEquityDown(acc, pnl) ==
    [cumulative |-> acc.cumulative + pnl, peak |-> acc.cumulative + pnl,
     max_drawdown |-> MaxOf(acc.max_drawdown, -pnl)]

\* The loop of run_scenarios over one supported result.
FollowEquity(acc, pnl) ==
    LET cumulative == acc.cumulative + pnl
        peak == MaxOf(acc.peak, cumulative)
    IN  [cumulative |-> cumulative, peak |-> peak,
         max_drawdown |-> MaxOf(acc.max_drawdown, peak - cumulative)]

\* The realized_pnl of the i-th result, which only a supported one has.
Supported(rs, i) == rs[i].realized_pnl # {}
Pnl(rs, i) == CHOOSE p \in rs[i].realized_pnl : TRUE

\* The locals of that loop, after every number of results.
EquityAfter(rs) ==
    LET acc[n \in 0..Len(rs)] ==
            IF n = 0 THEN [cumulative |-> 0, peak |-> 0, max_drawdown |-> 0]
            ELSE IF Supported(rs, n) THEN FollowEquity(acc[n - 1], Pnl(rs, n)) ELSE acc[n - 1]
    IN  acc

Equity(rs) == EquityAfter(rs)[Len(rs)]

Passing(rs) == {i \in DOMAIN rs : rs[i].passed}
Drills(rs) == {i \in DOMAIN rs : rs[i].scenario.is_failure_drill}

Aggregate ==
    /\ pc = "Start" /\ suite = <<>>
    /\ summary' = {[scenarios_total |-> Len(results),
                    scenarios_passed |-> Cardinality(Passing(results)),
                    replay_scenarios_passed |-> Cardinality(Passing(results) \ Drills(results)),
                    failure_drills_total |-> Cardinality(Drills(results)),
                    failure_drills_passed |-> Cardinality(Passing(results) \cap Drills(results)),
                    cumulative_realized_pnl |-> Equity(results).cumulative,
                    max_drawdown |-> Equity(results).max_drawdown]}
    /\ pc' = "Done"
    /\ UNCHANGED <<log, book, placed, suite, fill, attempts, drill, claimed, results, session, runs>>

Ended == {"Done", "Raised", "Killed"}

\* An insert raises or the process dies; what it held in memory is gone.
Kill ==
    /\ pc \notin Ended
    /\ pc' = "Killed"
    /\ UNCHANGED <<log, book, placed, suite, fill, attempts, drill, claimed, results, summary, session, runs>>

\* Another run on the same store.  The fakes start empty, a remote adapter does not.
Rerun ==
    /\ pc \in Ended /\ runs < Len(session)
    /\ runs' = runs + 1
    /\ book' = [b \in Brokers |-> IF Profile[b] = "remote" THEN book[b]
                                  ELSE [k \in Keys |-> NoOrder]]
    /\ pc' = "Start" /\ suite' = session[runs'] /\ fill' = {} /\ attempts' = 0 /\ drill' = NoDrill
    /\ claimed' = {} /\ results' = <<>> /\ summary' = {}
    /\ UNCHANGED <<log, placed, session>>

Work == NoProposal \/ GenerateRaises \/ AssemblyFails \/ Assemble \/ GatewayRejects
            \/ GatewayApproves \/ MintTicket \/ MintFails \/ RecordAttempt
            \/ DuplicateAttempt \/ Submit \/ AuditBrokerError \/ Report \/ ReportFails
            \/ Resubmit \/ ResubmitFails \/ Complete \/ Aggregate

\* Every run has ended and no more are started.
Rest == pc \in Ended /\ runs = Len(session) /\ UNCHANGED vars

Spec == Init /\ [][Work \/ Kill \/ Rerun \/ Rest]_vars

FairSpec == Spec /\ WF_vars(Work)

-----------------------------------------------------------------------------
Results == {results[i] : i \in DOMAIN results}

\* Types; the seqs of two results never overlap.
TypeOK ==
    /\ pc \in {"Start", "Decide", "Ticket", "Intent", "Submit", "Failed", "Report", "Drill"}
                  \cup Ended
    /\ \A r \in Results : r.audit_event_seqs \subseteq DOMAIN log
    /\ \A i, j \in DOMAIN results :
           i # j => results[i].audit_event_seqs \cap results[j].audit_event_seqs = {}

\* Persist before call (runner.py:285,313): an order exists only for a key whose attempt
\* is on record, and never a second one, across resubmissions, kills and further runs on
\* the store, although every run starts its fakes empty.
AtMostOneOrder ==
    \A k \in Keys : placed[k] <= 1 /\ (placed[k] > 0 => SubmitsOf(log, k) # {})

\* Nothing is dropped silently (runner.py:13,16-18).  A result that submitted owns the row
\* of the attempt and, after it, either the report of its outcome or a REJECT artifact; one
\* that did not ends in an artifact; and a resubmission that raised left one too.
OutcomeEvidenced ==
    \A r \in Results :
        LET own == r.audit_event_seqs
            rejects == {i \in own : log[i].decision = "REJECT"}
        IN  IF r.idempotency_key = NoKey
            THEN \E i \in own : /\ log[i].decision \in {"REJECT", "NO_TRADE"}
                                /\ \A j \in own : j <= i
            ELSE /\ \E i \in own \cap SubmitsOf(log, r.idempotency_key) :
                        \E j \in rejects \cup ReportsOf(log, r.idempotency_key) : j \in own /\ i < j
                 /\ r.outcome \in {"FILLED", "PARTIAL_FILL", "WORKING"} /\ ~r.drill.deduped =>
                        Cardinality(rejects) = r.submit_attempts - 1

\* The unresolved flag of a result (results.py:62-77) and the store agree: a key that is
\* open for restart reconciliation is never reported as resolved, and on the fakes, whose
\* orders are never cancelled under them, one reported as unresolved is open.
UnresolvedAgrees ==
    LET open == unresolved_open_orders(log) IN
    \A r \in Results : r.idempotency_key # NoKey =>
        /\ r.idempotency_key \in open => r.unresolved
        /\ r.unresolved /\ Profile[r.scenario.broker] # "remote" => r.idempotency_key \in open

\* What the strategy filters on, the gateway does not reject (catastrophe_premium_capture.py
\* :49, request.py:105-121): a candidate built from the contracts the safety state also
\* holds never fails on its DTE, its contracts or the entry window.  The two contracts must
\* have one multiplier: the strategy reads the short one's only (base.py:135), the spread
\* schema does not compare them (contract_metadata.py:99-124) and the gateway does (:166).
PrefilterAgrees ==
    \A r \in Results :
        (/\ Symbols(r.scenario.ctx) \subseteq DOMAIN r.scenario.ctx.fixture.contracts
         /\ r.scenario.safety.spread_contract = SpreadOf(r.scenario.ctx)
         /\ r.scenario.ctx.underlying = SpreadOf(r.scenario.ctx).short_contract.underlying
         /\ SpreadOf(r.scenario.ctx).short_contract.multiplier =
                SpreadOf(r.scenario.ctx).long_contract.multiplier)
        => r.reason_codes \cap {"DTE_MISMATCH", "CONTRACT_SPREAD_MISMATCH",
                                "ENTRY_WINDOW_CLOSED"} = {}

\* The realized total after every number of results.
RunningTotal(rs) ==
    LET total[n \in 0..Len(rs)] ==
            IF n = 0 THEN 0 ELSE total[n - 1] + (IF Supported(rs, n) THEN Pnl(rs, n) ELSE 0)
    IN  total

\* max_drawdown (results.py:144-146) is the largest fall of the running total from any
\* earlier point, the start included, to any later one.
DrawdownIsWorstFall ==
    LET total == RunningTotal(results)
        falls == {total[p[1]] - total[p[2]] :
                     p \in {q \in (0..Len(results)) \X (0..Len(results)) : q[1] <= q[2]}}
    IN  \A s \in summary :
            /\ s.max_drawdown \in falls
            /\ \A f \in falls : f <= s.max_drawdown

\* Every run ends, in a summary or an exception.
SuiteEnds == (pc \notin Ended) ~> (pc \in Ended)
=============================================================================
