----------------------- MODULE PositionReconciliation -----------------------
(* Position snapshots and their comparison (gateway/reconciliation.py,
   schemas/position_state.py, schemas/reconciliation_state.py).  A snapshot is minted from a
   broker's report or from a ledger with the execution reports behind it; one of each is
   reconciled.  A strike is a Decimal: a value, and the number of places it is written with,
   which str() keeps. *)
EXTENDS Integers, Sequences, FiniteSets

\* A desk is where one comparison takes place; per desk, what may be handed to the mints.
CONSTANTS Desks,
          BrokerReports,      \* [reported_at, legs]
          Ledgers,            \* [as_of, legs, execution_report_ids]
          SuppliedReports,    \* tuples of idempotency keys of the ExecutionReports handed over
          Times

PositionLeg ==
    [underlying : STRING, option_symbol : STRING, expiration_date : Nat,
     option_type : {"PUT", "CALL"}, strike : Nat \ {0}, places : Nat,
     side : {"LONG", "SHORT"}, contracts : Nat \ {0}]

\* What the mints are handed has been constructed: its legs are legs.
ASSUME PositionAssumption ==
    \A d \in Desks : \A x \in BrokerReports[d] \cup Ledgers[d] : x.legs \in Seq(PositionLeg)

VARIABLES desk,
          expected, broker,   \* the minted snapshots, {} before
          verdict             \* the ReconciliationSnapshot, {} before

vars == <<desk, expected, broker, verdict>>

-----------------------------------------------------------------------------
(* Protection of short legs, position_state.py:149-211.  A leg is its index in the tuple. *)

Shorts(legs) == {i \in DOMAIN legs : legs[i].side = "SHORT"}
Longs(legs) == {i \in DOMAIN legs : legs[i].side = "LONG"}

is_protective_long_for(short, long) ==
    /\ short.underlying = long.underlying
    /\ short.expiration_date = long.expiration_date
    /\ short.option_type = long.option_type
    /\ IF short.option_type = "PUT" THEN long.strike < short.strike
                                    ELSE long.strike > short.strike

\* sorted() is stable: legs with equal keys keep the order of the tuple.
SortedBy(S, key) ==
    LET upTo(i) == {j \in S : key[j] < key[i] \/ (key[j] = key[i] /\ j <= i)}
    IN  [n \in 1..Cardinality(S) |-> CHOOSE i \in S : Cardinality(upTo(i)) = n]

shorts_most_constrained_first(legs) ==
    SortedBy(Shorts(legs),
             [i \in DOMAIN legs |-> IF legs[i].option_type = "PUT" THEN legs[i].strike
                                                                   ELSE -legs[i].strike])

eligible_longs(short, legs) == {i \in Longs(legs) : is_protective_long_for(short, legs[i])}

eligible_longs_least_flexible_first(short, legs) ==
    SortedBy(eligible_longs(short, legs),
             [i \in DOMAIN legs |-> IF short.option_type = "PUT" THEN -legs[i].strike
                                                                 ELSE legs[i].strike])

Least(m, n) == IF m <= n THEN m ELSE n

\* Mutant: a long whose contracts may be counted again for the next short.
TakeWithoutUsing(a, i) == [a EXCEPT !.needed = @ - Least(a.needed, a.remaining[i])]

\* The body of the inner loop; once nothing is needed it takes nothing, as the break does.
TakeFrom(a, i) ==
    LET take == Least(a.needed, a.remaining[i])
    IN  [needed |-> a.needed - take, remaining |-> [a.remaining EXCEPT ![i] = @ - take]]

\* The inner loop: the eligible longs of one short.
allocate(short, legs, remaining) ==
    LET order == eligible_longs_least_flexible_first(short, legs)
        a[n \in 0..Len(order)] ==
            IF n = 0 THEN [needed |-> short.contracts, remaining |-> remaining]
                     ELSE TakeFrom(a[n - 1], order[n])
    IN  a[Len(order)]

\* The body of the outer loop: the short leg i.
cover(s, i, legs) ==
    LET a == allocate(legs[i], legs, s.remaining)
    IN  [remaining |-> a.remaining,
         unprotected |-> s.unprotected \cup {j \in {i} : a.needed > 0}]

\* The outer loop, after every number of shorts.
covered_after(legs) ==
    LET order == shorts_most_constrained_first(legs)
        s[n \in 0..Len(order)] ==
            IF n = 0 THEN [remaining |-> [i \in Longs(legs) |-> legs[i].contracts],
                           unprotected |-> {}]
                     ELSE cover(s[n - 1], order[n], legs)
    IN  s

unprotected_short_legs(legs) ==
    covered_after(legs)[Len(shorts_most_constrained_first(legs))].unprotected

has_unprotected_short(snapshot) == unprotected_short_legs(snapshot.legs) # {}

emergency_state_for_legs(legs) ==
    IF unprotected_short_legs(legs) # {} THEN "BROKEN_SPREAD" ELSE "NORMAL"

-----------------------------------------------------------------------------
(* Minting, reconciliation.py:31-95. *)

\* _legs_require_execution_report_evidence and _source_and_emergency_are_coherent.
LedgerValid(ledger) == ledger.legs # <<>> => ledger.execution_report_ids # <<>>

PositionSnapshotValid(s) ==
    /\ s.source = "BROKER_REPORT" => s.execution_report_ids = <<>>
    /\ s.source = "EXECUTION_LEDGER" /\ s.legs # <<>> => s.execution_report_ids # <<>>
    /\ s.as_of <= s.created_at
    /\ has_unprotected_short(s) => s.emergency_state # "NORMAL"

SameMultiset(s, t) ==
    \A x \in {s[i] : i \in DOMAIN s} \cup {t[i] : i \in DOMAIN t} :
        Cardinality({i \in DOMAIN s : s[i] = x}) = Cardinality({i \in DOMAIN t : t[i] = x})

MintSnapshot(source, legs, as_of, ids, now) ==
    [source |-> source, legs |-> legs, as_of |-> as_of, created_at |-> now,
     execution_report_ids |-> ids, emergency_state |-> emergency_state_for_legs(legs)]

\* A mint that raises leaves nothing behind.
mint_position_snapshot_from_broker_report(report, now) ==
    LET s == MintSnapshot("BROKER_REPORT", report.legs, report.reported_at, <<>>, now)
    IN  /\ broker = {}
        /\ PositionSnapshotValid(s)
        /\ broker' = {s}
        /\ UNCHANGED <<desk, expected, verdict>>

mint_position_snapshot_from_execution_ledger(ledger, execution_reports, now) ==
    LET s == MintSnapshot("EXECUTION_LEDGER", ledger.legs, ledger.as_of,
                          ledger.execution_report_ids, now)
    IN  /\ expected = {}
        /\ LedgerValid(ledger)
        /\ SameMultiset(ledger.execution_report_ids, execution_reports)
        /\ PositionSnapshotValid(s)
        /\ expected' = {s}
        /\ UNCHANGED <<desk, broker, verdict>>

-----------------------------------------------------------------------------
(* Comparison, reconciliation.py:98-198. *)

\* A lot without its number of contracts.
LotUncounted(leg) ==
    <<leg.underlying, leg.option_symbol, leg.expiration_date, leg.option_type,
      <<leg.strike, leg.places>>, leg.side>>

\* The fields compared: str(strike) keeps the places, average_price is not among them.
Lot(leg) ==
    <<leg.underlying, leg.option_symbol, leg.expiration_date, leg.option_type,
      <<leg.strike, leg.places>>, leg.side, leg.contracts>>

\* Sorted tuples are equal exactly when every lot occurs equally often in both.
normalized_legs(legs) ==
    [lot \in {Lot(legs[i]) : i \in DOMAIN legs} |->
        Cardinality({i \in DOMAIN legs : Lot(legs[i]) = lot})]

Match(e, b) ==
    [expected |-> e, broker |-> b, status |-> "MATCH", permission |-> "NEW_ENTRIES_ALLOWED",
     reason_codes |-> {}, human_required_event |-> {},
     managed_exit_allowed |-> FALSE, flatten_allowed |-> FALSE]

Mismatch(e, b) ==
    [expected |-> e, broker |-> b, status |-> "MISMATCH", permission |-> "MANAGED_EXIT_ONLY",
     reason_codes |-> {"RECONCILIATION_MISMATCH"},
     human_required_event |-> IF has_unprotected_short(e) \/ has_unprotected_short(b)
                              THEN {"BROKEN_SPREAD"} ELSE {},
     managed_exit_allowed |-> TRUE, flatten_allowed |-> TRUE]

reconcile_positions ==
    /\ verdict = {}
    /\ \E e \in expected, b \in broker :
          verdict' = {IF \/ normalized_legs(e.legs) # normalized_legs(b.legs)
                         \/ has_unprotected_short(e)
                         \/ has_unprotected_short(b)
                      THEN Mismatch(e, b) ELSE Match(e, b)}
    /\ UNCHANGED <<desk, expected, broker>>

Init == desk \in Desks /\ expected = {} /\ broker = {} /\ verdict = {}

Next ==
    \/ \E r \in BrokerReports[desk], now \in Times : mint_position_snapshot_from_broker_report(r, now)
    \/ \E l \in Ledgers[desk], x \in SuppliedReports, now \in Times :
          mint_position_snapshot_from_execution_ledger(l, x, now)
    \/ reconcile_positions

Spec == Init /\ [][Next]_vars

-----------------------------------------------------------------------------
(* Properties *)

\* The single contracts of the legs in S, n[i] of them in leg i.
Units(n, S) == UNION {{i} \X (1..n[i]) : i \in S}

Counts(legs) == [i \in DOMAIN legs |-> legs[i].contracts]

\* What protection means, without an order of allocation: every short contract has a long
\* contract of its own that protects it.
Covered(legs) ==
    LET n == Counts(legs)
    IN  \E f \in [Units(n, Shorts(legs)) -> Units(n, Longs(legs))] :
           /\ \A u, w \in DOMAIN f : f[u] = f[w] => u = w
           /\ \A u \in DOMAIN f : is_protective_long_for(legs[u[1]], legs[f[u][1]])

Contract(leg) == <<leg.underlying, leg.option_symbol, leg.expiration_date, leg.option_type,
                   leg.strike, leg.side>>

Held(legs, contract) ==
    Cardinality(Units(Counts(legs), {i \in DOMAIN legs : Contract(legs[i]) = contract}))

SamePosition(s, t) ==
    \A c \in {Contract(s[i]) : i \in DOMAIN s} \cup {Contract(t[i]) : i \in DOMAIN t} :
        Held(s, c) = Held(t, c)

\* The greedy allocation decides protection exactly (position_state.py:149-174): a snapshot
\* is NORMAL if and only if some assignment of distinct long contracts covers every short
\* one, whatever the number, the order and the sizes of the legs.
ProtectionExact ==
    \A s \in expected \cup broker : s.emergency_state = "NORMAL" <=> Covered(s.legs)

\* reconcile_positions opens the desk for new entries only on positions that are the same,
\* contract by contract, and covered on both sides; the order of the legs never blocks it;
\* and an uncovered short on either side always calls a human.
VerdictExact ==
    \A v \in verdict :
        LET covered == Covered(v.expected.legs) /\ Covered(v.broker.legs)
        IN  /\ v.permission = "NEW_ENTRIES_ALLOWED" =>
                  covered /\ SamePosition(v.expected.legs, v.broker.legs)
            /\ covered /\ SameMultiset(v.expected.legs, v.broker.legs) =>
                  v.permission = "NEW_ENTRIES_ALLOWED"
            /\ v.human_required_event = {} <=> covered
=============================================================================
