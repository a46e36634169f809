---------------------------- MODULE ShadowCycle ----------------------------
(***************************************************************************)
(* services/shadow_cycle.py: the decision pipeline without a broker.  Each *)
(* request is recorded, validated by the gateway and, when approved, routed*)
(* to a dry-run ticket.  Rows go to the audit store one committed insert at*)
(* a time; the process may die, and an insert may raise, between any two.  *)
(***************************************************************************)
EXTENDS OrderRouting, AppConfig

\* What the timer starts on one store, one cycle after the other.  A cycle is the
\* environment of its process, the OrderRoutingState handed in (the empty set stands for
\* None) and its batch of requests; one that cannot be constructed never arrives.
CONSTANT Sessions

\* The elements of a list, and what makes a value a list.
Elements(list) == {list[i] : i \in DOMAIN list}

IsList(list) == list \in Seq(Elements(list))

ASSUME ShadowAssumption ==
    \A session \in Sessions :
        /\ IsList(session) /\ session # <<>>
        /\ \A cycle \in Elements(session) :
              /\ \A s, t \in cycle.routing : s = t
              /\ \A s \in cycle.routing : RoutingValid(s)
              /\ IsList(cycle.batch)
              /\ \A r \in Elements(cycle.batch) : RequestValid(r)

VARIABLES
    pc,          \* the next step of run_shadow_cycle
    session,     \* the cycles this store sees
    todo,        \* the requests still to be evaluated
    current,     \* the request under evaluation, as a set of at most one
    trail,       \* the rows of the store, oldest first
    approved, rejected,   \* the counters of this cycle
    heartbeat,   \* the counts the heartbeat file holds; none when it is absent or empty
    cycles       \* cycles started so far

vars == <<pc, session, todo, current, trail, approved, rejected, heartbeat, cycles>>

\* The environment and the routing_state of this process.
env == session[cycles].env
routing == session[cycles].routing

\* recorded_at is the same for every row of a cycle, and tells cycles apart.
Row(type, r, codes, ticket) ==
    [type |-> type, request |-> r, codes |-> codes, ticket |-> ticket, recorded_at |-> cycles]

Ended == {"Refused", "Raised", "Done"}

Init ==
    /\ pc = "Load" /\ cycles = 1
    /\ session \in Sessions /\ todo = session[1].batch
    /\ current = {} /\ trail = <<>> /\ heartbeat = {}
    /\ approved = 0 /\ rejected = 0

\* AppConfig.from_env, then require_shadow_safe: either refusal ends the process before a
\* row is written.
Load ==
    /\ pc = "Load"
    /\ pc' = IF ConfigValid(env) THEN "Enter" ELSE "Refused"
    /\ UNCHANGED <<session, todo, current, trail, approved, rejected, heartbeat, cycles>>

Refuse ==
    /\ pc = "Enter" /\ ~require_shadow_safe(env)
    /\ pc' = "Refused"
    /\ UNCHANGED <<session, todo, current, trail, approved, rejected, heartbeat, cycles>>

Startup ==
    /\ pc = "Enter" /\ require_shadow_safe(env)
    /\ trail' = Append(trail, Row("SHADOW_CYCLE_START", {}, {}, {}))
    /\ pc' = "Next"
    /\ UNCHANGED <<session, todo, current, approved, rejected, heartbeat, cycles>>

\* The request is recorded before it is decided.
RecordRequest ==
    /\ pc = "Next" /\ todo # <<>>
    /\ current' = {Head(todo)} /\ todo' = Tail(todo)
    /\ trail' = Append(trail, Row("GATEWAY_REQUEST", current', {}, {}))
    /\ pc' = "Decide"
    /\ UNCHANGED <<session, approved, rejected, heartbeat, cycles>>

\* Mutant: the loop goes on before the rejection is stored and counted.
RejectDropped ==
    /\ pc = "Decide"
    /\ \E r \in current : ~is_approved(r)
    /\ pc' = "Next"
    /\ UNCHANGED <<session, todo, current, trail, approved, rejected, heartbeat, cycles>>

Reject ==
    /\ pc = "Decide"
    /\ \E r \in current :
           /\ ~is_approved(r)
           /\ trail' = Append(trail, Row("REJECT", current, validate(r), {}))
    /\ rejected' = rejected + 1
    /\ pc' = "Next"
    /\ UNCHANGED <<session, todo, current, approved, heartbeat, cycles>>

Approve ==
    /\ pc = "Decide"
    /\ \E r \in current :
           /\ is_approved(r)
           /\ trail' = Append(trail, Row("VALIDATED_TRADE_INTENT", current, {}, {}))
    /\ pc' = "Ticket"
    /\ UNCHANGED <<session, todo, current, approved, rejected, heartbeat, cycles>>

Ticketing == On(env, "ORDER_TICKETING_ENABLED") /\ routing # {}

\* Mutant: the approval is counted although no ticket is minted.
NoTicketCounted ==
    /\ pc = "Ticket" /\ ~Ticketing
    /\ approved' = approved + 1
    /\ pc' = "Next"
    /\ UNCHANGED <<session, todo, current, trail, rejected, heartbeat, cycles>>

\* Without a routing state the approved request gets no ticket and is not counted.
NoTicket ==
    /\ pc = "Ticket" /\ ~Ticketing
    /\ pc' = "Next"
    /\ UNCHANGED <<session, todo, current, trail, approved, rejected, heartbeat, cycles>>

MintTicket ==
    /\ pc = "Ticket" /\ Ticketing
    /\ \E r \in current, s \in routing :
           /\ mint_order_ticket(r.candidate, s)
           /\ trail' = Append(trail, Row("ORDER_TICKET", current, {},
                                         {Ticket(r.candidate, s)}))
    /\ approved' = approved + 1
    /\ pc' = "Next"
    /\ UNCHANGED <<session, todo, current, rejected, heartbeat, cycles>>

\* Mutant: a refused route is tried again.
RouteRetried ==
    /\ pc = "Ticket" /\ Ticketing
    /\ \E r \in current, s \in routing : ~mint_order_ticket(r.candidate, s)
    /\ UNCHANGED vars

\* A refused route is a ValueError nobody catches: the cycle ends there.
RouteRaises ==
    /\ pc = "Ticket" /\ Ticketing
    /\ \E r \in current, s \in routing : ~mint_order_ticket(r.candidate, s)
    /\ pc' = "Raised"
    /\ UNCHANGED <<session, todo, current, trail, approved, rejected, heartbeat, cycles>>

RowsOf(type, cycle) ==
    {i \in DOMAIN trail : trail[i].type = type /\ trail[i].recorded_at = cycle}

\* Mutant: the heartbeat reports every approval, with or without a ticket.
FinishIntents ==
    /\ pc = "Next" /\ todo = <<>>
    /\ heartbeat' = {[approved |-> Cardinality(RowsOf("VALIDATED_TRADE_INTENT", cycles)),
                      rejected |-> rejected, cycle |-> cycles]}
    /\ pc' = "Done"
    /\ UNCHANGED <<session, todo, current, trail, approved, rejected, cycles>>

\* Mutant: the cycle completes although requests are left.
FinishEarly ==
    /\ pc = "Next"
    /\ heartbeat' = {[approved |-> approved, rejected |-> rejected, cycle |-> cycles]}
    /\ pc' = "Done"
    /\ UNCHANGED <<session, todo, current, trail, approved, rejected, cycles>>

\* The heartbeat is written last, over the one an earlier cycle left.
Finish ==
    /\ pc = "Next" /\ todo = <<>>
    /\ heartbeat' = {[approved |-> approved, rejected |-> rejected, cycle |-> cycles]}
    /\ pc' = "Done"
    /\ UNCHANGED <<session, todo, current, trail, approved, rejected, cycles>>

\* write_text truncates the file before it writes: dying in between leaves it empty.
FailInHeartbeat ==
    /\ pc = "Next" /\ todo = <<>>
    /\ heartbeat' = {} /\ pc' = "Raised"
    /\ UNCHANGED <<session, todo, current, trail, approved, rejected, cycles>>

\* An insert raises (the database is locked or full), or the process dies.
Fail ==
    /\ pc \notin Ended
    /\ pc' = "Raised"
    /\ UNCHANGED <<session, todo, current, trail, approved, rejected, heartbeat, cycles>>

\* The next timer tick starts a new process on the same store.
NextCycle ==
    /\ pc \in Ended /\ cycles < Len(session)
    /\ cycles' = cycles + 1
    /\ pc' = "Load" /\ todo' = session[cycles'].batch
    /\ current' = {} /\ approved' = 0 /\ rejected' = 0
    /\ UNCHANGED <<session, trail, heartbeat>>

Work == Load \/ Refuse \/ Startup \/ RecordRequest \/ Reject \/ Approve
            \/ NoTicket \/ MintTicket \/ RouteRaises \/ Finish

Next == Work \/ Fail \/ FailInHeartbeat \/ NextCycle

\* Every cycle has ended and no more are started.
Rest == pc \in Ended /\ cycles = Len(session) /\ UNCHANGED vars

Spec == Init /\ [][Next \/ Rest]_vars

\* A running process continues.
FairSpec == Spec /\ WF_vars(Work)

-----------------------------------------------------------------------------
\* How a cycle looks from outside: what its rows say was decided, and how it ended.
Outcome(row) == [type |-> row.type, request |-> row.request, codes |-> row.codes]

DecidedIn(rows, cycle) ==
    LET d[n \in 0..Len(rows)] ==
            IF n = 0 THEN <<>>
            ELSE IF /\ rows[n].type \in {"REJECT", "VALIDATED_TRADE_INTENT"}
                    /\ rows[n].recorded_at = cycle
                 THEN Append(d[n - 1], Outcome(rows[n]))
                 ELSE d[n - 1]
    IN  d[Len(rows)]

\* What the gateway has to say about a request.
Due(r) ==
    [type |-> IF is_approved(r) THEN "VALIDATED_TRADE_INTENT" ELSE "REJECT",
     request |-> {r}, codes |-> validate(r)]

Verdicts == INSTANCE CycleVerdicts
            WITH Verdict <- Due, decided <- DecidedIn(trail, cycles),
                 status <- IF pc = "Done" THEN "done"
                           ELSE IF pc \in Ended THEN "failed" ELSE "running"

\* The cycle implements its promise (shadow_cycle.py:131-165): every request gets the
\* gateway's verdict, in turn and for good, and the cycle completes only when all have one,
\* whatever raises in between and however earlier cycles on the store ended.
ImplementsVerdicts == Verdicts!VerdictSpec

-----------------------------------------------------------------------------
ApprovedRequests ==
    UNION {trail[i].request : i \in {j \in DOMAIN trail :
                                        trail[j].type = "VALIDATED_TRADE_INTENT"}}

\* Types, and the counters of the running cycle against its rows.
TypeOK ==
    /\ pc \in {"Load", "Enter", "Next", "Decide", "Ticket"} \cup Ended
    /\ cycles \in DOMAIN session
    /\ \A q \in current \cup UNION {trail[i].request : i \in DOMAIN trail} : RequestValid(q)
    /\ approved = Cardinality(RowsOf("ORDER_TICKET", cycles))
    /\ rejected = Cardinality(RowsOf("REJECT", cycles))

\* The gates and the mints agree (gateway.py:134-205): a clean pass never fails to mint a
\* token or to assemble the intent, so INTERNAL_CONTRADICTION reaches no artifact.
NoInternalContradiction ==
    \A i \in DOMAIN trail : "INTERNAL_CONTRADICTION" \notin trail[i].codes

\* The clock and the calendar on the wall in Chicago.
ChicagoTime(t) == t - (IF DstStart <= t /\ t < DstEnd THEN 300 ELSE 360) * TicksPerMinute
ChicagoClock(t) == ChicagoTime(t) % TicksPerDay
ChicagoDay(t) == ChicagoTime(t) \div TicksPerDay

\* What approval means for the spread, read off the request as a whole
\* (gates.py, request.py): the instant lies in [09:45, 13:00) Chicago time to the quarter
\* second, both legs still trade and have not expired, the contracts are the candidate's
\* and the long strike bounds a positive worst case, no blackout or halt covers the
\* instant even after a re-arm, and no price is from the future: the option quote is at
\* most 1.001 s old and the underlying's price less than 0.501 s, the millisecond beyond
\* the documented 1000 and 500 being what the conversion to whole milliseconds gives away.
Tradable(r) ==
    LET now == r.as_of.t
        short == r.spread_contract.short_contract
        long == r.spread_contract.long_contract
        quote == r.data_snapshot.option_quote_age
        price == r.data_snapshot.underlying_price_age
    IN  /\ 585 * TicksPerMinute <= ChicagoClock(now) /\ ChicagoClock(now) < 780 * TicksPerMinute
        /\ \A c \in {short, long} : now <= c.last_trading_time /\ now <= c.expiration_time.t
        /\ (short.strike - long.strike) * (IF short.option_type = "PUT" THEN 1 ELSE -1)
               > r.candidate.net_credit
        /\ max_loss(r.candidate) > 0
        /\ \A b \in r.event_calendar : now < b.window_start \/ now > b.window_end
        /\ r.drawdown.active_tier = "NONE"
        /\ 0 <= quote /\ quote <= 1001000
        /\ 0 <= price /\ price < 501000

\* Whatever the gateway approves (gateway.py:134-205) is tradable in that sense.
ApprovedIsTradable == \A r \in ApprovedRequests : Tradable(r)

\* Days to expiry are the difference of two dates, each read at the offset its own value
\* was written with (contract_metadata.py:134-141).  Inside the entry window that is
\* harmless from UTC-12 to UTC+5: if the expiration is written on its Chicago date, an
\* approved spread expires the claimed number of Chicago midnights later, in summer and in
\* winter time, across a change of the clocks, and for contracts that settle in the morning.
ExpiresAsClaimed ==
    \A r \in ApprovedRequests :
        LET expiry == r.spread_contract.short_contract.expiration_time
        IN  (/\ -720 <= r.as_of.off /\ r.as_of.off <= 300
             /\ DateOf(expiry) = ChicagoDay(expiry.t)) =>
                r.candidate.dte = ChicagoDay(expiry.t) - ChicagoDay(r.as_of.t)

\* Nothing is silently dropped (shadow_cycle.py:14-16): in one cycle, the row after a
\* request is that request's outcome, and the row before an outcome or a ticket is what
\* it answers, however earlier cycles on the store ended.
OutcomeFollows ==
    \A i \in DOMAIN trail :
        /\ (/\ trail[i].type = "GATEWAY_REQUEST" /\ i < Len(trail)
            /\ trail[i + 1].recorded_at = trail[i].recorded_at) =>
               /\ trail[i + 1].request = trail[i].request
               /\ trail[i + 1].type \in {"REJECT", "VALIDATED_TRADE_INTENT"}
        /\ trail[i].type = "ORDER_TICKET" =>
               /\ i > 2
               /\ trail[i - 1].type = "VALIDATED_TRADE_INTENT"
               /\ trail[i - 2].type = "GATEWAY_REQUEST"
               /\ trail[i].request = trail[i - 2].request
               /\ trail[i].recorded_at = trail[i - 2].recorded_at

\* The heartbeat an operator reads (shadow_cycle.py:167-207) counts the rows of the cycle
\* it names, also when later cycles on the store failed.
HeartbeatTruthful ==
    \A h \in heartbeat :
        /\ h.approved = Cardinality(RowsOf("ORDER_TICKET", h.cycle))
        /\ h.rejected = Cardinality(RowsOf("REJECT", h.cycle))

\* MARKET comes from deterministic emergency state alone (order_routing.py:131-138), and a
\* ticket never routes a short contract ahead of the long that bounds it.
TicketSafe ==
    [][\A t \in UNION {trail'[i].ticket : i \in DOMAIN trail' \ DOMAIN trail} :
          /\ t.order_type = "MARKET" =>
                 \A s \in routing : /\ s.policy_state # "NORMAL"
                                    /\ s.deterministic_market_order_allowed
                                    /\ s.requested_order_type # "MARKET"
          /\ t.legs[1].source_leg = t.candidate.long_leg
          /\ t.legs[2].source_leg = t.candidate.short_leg
          /\ t.legs[1].source_leg.contracts = t.legs[2].source_leg.contracts]_vars

\* A process that got past from_env arms submission only on a paper broker
\* (app_config.py:161-210), and a shadow cycle writes only where nothing is armed.
ArmedMeansPaper ==
    /\ pc \notin {"Load", "Refused", "Raised"} /\ submission_armed(env) =>
           /\ env["BROKER_MODE"] = "paper" /\ env["APP_ENV"] \in {"local", "vm_paper"}
    /\ pc \in {"Next", "Decide", "Ticket", "Done"} => \A f \in SubmitFlags : ~On(env, f)

\* Every cycle ends: it finishes, is refused, or raises.
CycleEnds == (pc \notin Ended) ~> (pc \in Ended)
=============================================================================
