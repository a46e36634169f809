----------------------------- MODULE AuditStore -----------------------------
(***************************************************************************)
(* The append-only audit store (storage/).  log[i] is the row with seq i.  *)
(* Every append is its own committed transaction, so a row is durable from *)
(* the step that writes it; the UNIQUE index on idempotency_key and the    *)
(* two triggers against UPDATE and DELETE are what the schema adds.        *)
(***************************************************************************)
EXTENDS OrderIntent

CONSTANT NoKey          \* idempotency_key IS NULL / no logical key

VARIABLE log

RecordType == {"GATEWAY_REQUEST", "VALIDATED_TRADE_INTENT", "ORDER_TICKET",
               "BROKER_SUBMIT_INTENT", "EXECUTION_REPORT", "KILL_SWITCH_STATE",
               "AUDIT_ARTIFACT"}

\* AuditArtifact.decision, as the modelled writers set it.
Decision == {"NONE", "READ", "EXPORT", "REJECT", "HALT", "RESUME", "CANCEL", "FLATTEN",
             "PAPER_CYCLE_START", "PAPER_SUBMIT_DEFERRED", "PAPER_SUBMIT_DUPLICATE_SKIPPED"}

\* What a row says.  key is the logical key (record_id) of a submit or a report, price
\* the limit price of a persisted intent, life and filled the report's evidence, and
\* decision the artifact's decision (or the switch position of a KILL_SWITCH_STATE).
StoredEvent == [type     : RecordType,
                key      : Keys \cup {NoKey},
                price    : Prices \cup {NoPrice},
                life     : OrderLifecycleState \cup {"NONE"},
                filled   : Nat,
                decision : Decision]

Plain(type, decision) ==
    [type |-> type, key |-> NoKey, price |-> NoPrice,
     life |-> "NONE", filled |-> 0, decision |-> decision]

AuditArtifact(decision) == Plain("AUDIT_ARTIFACT", decision)

SubmitEvent(intent) ==
    [type |-> "BROKER_SUBMIT_INTENT", key |-> KeyOf(intent), price |-> intent.price,
     life |-> "NONE", filled |-> 0, decision |-> "NONE"]

ReportEvent(key, life, filled) ==
    [type |-> "EXECUTION_REPORT", key |-> key, price |-> NoPrice,
     life |-> life, filled |-> filled, decision |-> "NONE"]

-----------------------------------------------------------------------------
\* append: one more row, nothing else moves.
append(event) == log' = Append(log, event)

SubmitsOf(l, key) ==
    {i \in 1..Len(l) : l[i].type = "BROKER_SUBMIT_INTENT" /\ l[i].key = key}

ReportsOf(l, key) ==
    {i \in 1..Len(l) : l[i].type = "EXECUTION_REPORT" /\ l[i].key = key}

\* Mutant: the lookup goes to the reports, so a key without a result counts as new.
DuplicateByReport(key) == ReportsOf(log, key) # {}

\* The UNIQUE index: record_submit_attempt raises DuplicateIdempotencyKeyError when the
\* key is present, and inserts nothing.
DuplicateIdempotencyKey(key) == SubmitsOf(log, key) # {}

record_submit_attempt(intent) ==
    /\ ~DuplicateIdempotencyKey(KeyOf(intent))
    /\ append(SubmitEvent(intent))

\* The report a scan in ascending seq order is left with for a key.
LatestReport(l, key, i) ==
    /\ i \in ReportsOf(l, key)
    /\ \A j \in ReportsOf(l, key) : j <= i

\* Mutant: any report counts as a terminal one.
HasAnyReport(l, key) == ReportsOf(l, key) # {}

HasTerminalReport(l, key) ==
    \E i \in ReportsOf(l, key) :
        LatestReport(l, key, i) /\ l[i].life \notin NON_TERMINAL_LIFECYCLE

\* unresolved_open_orders: submits with no report at all, or whose latest report is not
\* terminal.
unresolved_open_orders(l) ==
    {key \in Keys : SubmitsOf(l, key) # {} /\ ~HasTerminalReport(l, key)}

\* current_kill_switch: the latest KILL_SWITCH_STATE row; none means not halted.
Halted(l) ==
    \E i \in 1..Len(l) :
        /\ l[i].type = "KILL_SWITCH_STATE" /\ l[i].decision = "HALT"
        /\ \A j \in 1..Len(l) : l[j].type = "KILL_SWITCH_STATE" => j <= i
=============================================================================
