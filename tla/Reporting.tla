------------------------------ MODULE Reporting ------------------------------
(***************************************************************************)
(* What is read back from the audit store, and when: the daily and risk    *)
(* reports and the notification drawn from them (reports/, ops/            *)
(* notifications.py), the relay's views over the read-only connection      *)
(* (ops/agent_os_relay.py, storage/sqlite_readonly.py), and the operator   *)
(* commands seen as writers that stamp a row before they append it.        *)
(*                                                                         *)
(* A row's created_at is the writer's clock when it began, its seq the     *)
(* order of the appends, and the two orders differ as soon as two writers  *)
(* overlap.  The payload is kept as the scalars the readers look at.       *)
(***************************************************************************)
EXTENDS Integers, Sequences, FiniteSets

CONSTANTS Procs,     \* operator processes, each running one command at a time
          Settings   \* what goes on around one store, see below

RecordType == {"GATEWAY_REQUEST", "VALIDATED_TRADE_INTENT", "ORDER_TICKET",
               "BROKER_SUBMIT_INTENT", "EXECUTION_REPORT", "POSITION_SNAPSHOT",
               "RECONCILIATION_SNAPSHOT", "HUMAN_REQUIRED_EVENT", "KILL_SWITCH_STATE",
               "AUDIT_ARTIFACT", "DAILY_REPORT"}

AllCommands == {"status", "halt-new-entries", "resume-new-entries"}

\* A setting has the processes at work, the <<command, authorized>> pairs they are started
\* with, the <<record_type, value>> rows the other writers append (a switch state is the
\* commands' alone, a daily report persist_report's), and the
\* <<window_start, window_end>> pairs reports are asked for; and, as bounds, the clock
\* readings, the rows of the store, the daily reports persisted and the GET /status
\* requests.
ASSUME SettingsAssumption ==
    \A s \in Settings :
        /\ s.procs \subseteq Procs
        /\ s.jobs \subseteq {j \in AllCommands \X BOOLEAN : j[1] = "status" => j[2]}
        /\ \A r \in s.payloads : r[1] \in RecordType \ {"KILL_SWITCH_STATE", "DAILY_REPORT"}
        /\ \A w \in s.windows : w[1] \in Int /\ w[2] \in Int
        /\ {s.maxTime, s.maxRows, s.maxReports, s.maxRequests} \subseteq Nat

VARIABLES setting,  \* the one this store is in
          log,      \* the rows, log[i] the one with seq i
          now,      \* the wall clock
          pc, job,  \* per process: what it does next, and for which command
          view,     \* the relay's answer to GET /status, as far as it is read
          report    \* <<>>, or the built DailyReport about to be persisted

vars == <<setting, log, now, pc, job, view, report>>

\* value: the decision, lifecycle_state, submit_mode, status or resolved flag of the
\* payload; id: the artifact's id or the switch's command_id; report: a persisted report.
Row(type, at, value, id, rep) ==
    [type |-> type, created_at |-> at, value |-> value, id |-> id, report |-> rep]

NoId == <<"none", 0, 0>>

Seqs(l) == 1..Len(l)

of_type(l, S, type) == {i \in S : l[i].type = type}

-----------------------------------------------------------------------------
(* reports/_store_reads.py: pure functions of the rows one load_events saw. *)

in_window(l, w) == {i \in Seqs(l) : w[1] <= l[i].created_at /\ l[i].created_at <= w[2]}

\* Mutant: the row appended last wins, whatever its domain time.
LaterBySeq(l, i, j) == i > j

\* (created_at, seq) compared as tuples.
Later(l, i, j) ==
    \/ l[i].created_at > l[j].created_at
    \/ l[i].created_at = l[j].created_at /\ i > j

\* Rows of a type that are old enough, and the last of some rows as a set of at most one.
Upto(l, type, end) == {i \in of_type(l, Seqs(l), type) : l[i].created_at <= end}

Newest(l, S) == {i \in S : \A j \in S \ {i} : Later(l, i, j)}

\* latest_upto: its seq, 0 when no row of the type is old enough.
latest_upto(l, type, end) ==
    LET S == Upto(l, type, end) IN IF S = {} THEN 0 ELSE CHOOSE i \in Newest(l, S) : TRUE

kill_switch_summary(l, end) ==
    LET i == latest_upto(l, "KILL_SWITCH_STATE", end)
    IN  IF i = 0 THEN "UNKNOWN" ELSE IF l[i].value = "HALT" THEN "HALTED" ELSE "ARMED"

reconciliation_status(l, end) ==
    LET i == latest_upto(l, "RECONCILIATION_SNAPSHOT", end)
    IN  IF i = 0 THEN "NOT_AVAILABLE" ELSE IF l[i].value = "MATCH" THEN "RECONCILED" ELSE "MISMATCH"

\* position_summary: the legs of the latest snapshot, or explicitly none known.
position_summary(l, end) ==
    LET i == latest_upto(l, "POSITION_SNAPSHOT", end)
    IN  IF i = 0 THEN "NOT_AVAILABLE" ELSE l[i].value

CountOf(l, S, type, value) == Cardinality({i \in of_type(l, S, type) : l[i].value = value})

-----------------------------------------------------------------------------
(* daily_report.py, risk_report.py, notifications.py                        *)

\* The running state a daily and a risk report share, as of the window's end.
RunningState(l, end) ==
    [positions |-> position_summary(l, end),
     reconciliation_status |-> reconciliation_status(l, end),
     kill_switch |-> kill_switch_summary(l, end)]

\* Mutant: the total counts the window instead of the store.
WindowedTotal(l, w) == Cardinality(in_window(l, w))

total_audit_events(l, w) == Len(l)

build_daily_report(l, w, at) ==
    LET W == in_window(l, w)
    IN  [window |-> w, generated_at |-> at, state |-> RunningState(l, w[2]),
         candidates_generated |-> Cardinality(of_type(l, W, "GATEWAY_REQUEST")),
         gateway_approvals |-> Cardinality(of_type(l, W, "VALIDATED_TRADE_INTENT")),
         gateway_rejections |-> CountOf(l, W, "AUDIT_ARTIFACT", "REJECT"),
         tickets_minted |-> Cardinality(of_type(l, W, "ORDER_TICKET")),
         paper_orders_submitted |-> CountOf(l, W, "BROKER_SUBMIT_INTENT", "PAPER"),
         fills |-> CountOf(l, W, "EXECUTION_REPORT", "FILLED"),
         cancels |-> CountOf(l, W, "EXECUTION_REPORT", "CANCELLED"),
         rejects |-> CountOf(l, W, "EXECUTION_REPORT", "REJECTED"),
         unresolved |-> CountOf(l, W, "HUMAN_REQUIRED_EVENT", "unresolved"),
         events_in_window |-> Cardinality(W),
         total_audit_events |-> total_audit_events(l, w)]

build_risk_report(l, w) ==
    [state |-> RunningState(l, w[2]),
     fills |-> CountOf(l, in_window(l, w), "EXECUTION_REPORT", "FILLED")]

\* _daily_severity and _risk_severity, as ranks: 2 CRITICAL, 1 WARNING, 0 INFO.
Alarming(state) ==
    state.kill_switch = "HALTED" \/ state.reconciliation_status = "MISMATCH"

daily_severity(r) ==
    IF Alarming(r.state) \/ r.unresolved > 0 THEN 2
    ELSE IF r.gateway_rejections > 0 \/ r.rejects > 0 THEN 1 ELSE 0

risk_severity(r) == IF Alarming(r.state) THEN 2 ELSE 0

-----------------------------------------------------------------------------
(* Writers                                                                  *)

NoJob == [command |-> "none", authorized |-> FALSE, now |-> 0, id |-> NoId]

append(row) == Len(log) < setting.maxRows /\ log' = Append(log, row)

\* The command reads its clock once; every row it writes carries that time.  Reads ask for
\* no authorization and are never refused one.
Begin(p, command, authorized) ==
    /\ pc[p] = "Idle"
    /\ pc' = [pc EXCEPT ![p] = "NewId"]
    /\ job' = [job EXCEPT ![p] = [command |-> command, authorized |-> authorized,
                                  now |-> now, id |-> NoId]]
    /\ UNCHANGED <<setting, log, now, view, report>>

\* Mutant: the count is of the row about to be written.
IdOfNextRow(command, count, at) == <<command, count + 1, at>>

\* _new_artifact_id: the command, a count over a scan of the store, and the clock.
new_artifact_id(command, count, at) == <<command, count, at>>

NewId(p) ==
    /\ pc[p] = "NewId"
    /\ job' = [job EXCEPT ![p].id = new_artifact_id(job[p].command, Len(log), job[p].now)]
    /\ pc' = [pc EXCEPT ![p] = "Audit"]
    /\ UNCHANGED <<setting, log, now, view, report>>

DecisionOf(j) ==
    CASE ~j.authorized -> "REJECT"
      [] j.command = "status" -> "READ"
      [] j.command = "halt-new-entries" -> "HALT"
      [] j.command = "resume-new-entries" -> "RESUME"

Return(p) == pc' = [pc EXCEPT ![p] = "Idle"] /\ job' = [job EXCEPT ![p] = NoJob]

\* _audit: a refusal raises after it, a read is done with it, the two switch commands go on
\* to persist the state they mint.
Audit(p) ==
    /\ pc[p] = "Audit"
    /\ append(Row("AUDIT_ARTIFACT", job[p].now, DecisionOf(job[p]), job[p].id, <<>>))
    /\ \/ /\ DecisionOf(job[p]) \in {"HALT", "RESUME"}
          /\ pc' = [pc EXCEPT ![p] = "Switch"]
          /\ UNCHANGED job
       \/ DecisionOf(job[p]) \in {"REJECT", "READ"} /\ Return(p)
    /\ UNCHANGED <<setting, now, view, report>>

\* Mutant: the state is minted under a new id.
FreshCommandId(p) == new_artifact_id(job[p].command, Len(log), job[p].now)

\* The state names the artifact of the command it comes from.
CommandId(p) == job[p].id

Switch(p) ==
    /\ pc[p] = "Switch"
    /\ append(Row("KILL_SWITCH_STATE", job[p].now, DecisionOf(job[p]), CommandId(p), <<>>))
    /\ Return(p)
    /\ UNCHANGED <<setting, now, view, report>>

\* The process dies, or its append raises: what it has not written stays unwritten.
Crash(p) ==
    /\ pc[p] # "Idle"
    /\ Return(p)
    /\ UNCHANGED <<setting, log, now, view, report>>

\* Any other writer: created_at is the time its record was made, now or earlier.
Record(payload, at) ==
    /\ at <= now
    /\ append(Row(payload[1], at, payload[2], NoId, <<>>))
    /\ UNCHANGED <<setting, now, pc, job, view, report>>

Tick == now < setting.maxTime /\ now' = now + 1 /\ UNCHANGED <<setting, log, pc, job, view, report>>

\* build_daily_report raises on an inverted window; the whole report comes from one load.
Build(w) ==
    /\ report = <<>> /\ w[1] <= w[2]
    /\ Cardinality(of_type(log, Seqs(log), "DAILY_REPORT")) < setting.maxReports
    /\ report' = <<build_daily_report(log, w, now)>>
    /\ UNCHANGED <<setting, log, now, pc, job, view>>

\* persist_report: generated_at is the row's domain time.
persist_report ==
    /\ report # <<>>
    /\ append(Row("DAILY_REPORT", report[1].generated_at, "none", NoId, report))
    /\ report' = <<>>
    /\ UNCHANGED <<setting, now, pc, job, view>>

-----------------------------------------------------------------------------
(* The relay: every read is a SELECT of its own, not one transaction.       *)

NoView == [next |-> "latest", last |-> 0, total |-> 0, types |-> [t \in RecordType |-> 0],
           switch |-> 0, served |-> 0]

latest_payload_of_type(l, type) ==
    LET S == of_type(l, Seqs(l), type)
    IN  IF S = {} THEN 0 ELSE CHOOSE i \in S : \A j \in S : j <= i

kill_switch_view(l) ==
    LET i == latest_payload_of_type(l, "KILL_SWITCH_STATE")
    IN  IF i = 0 THEN "UNKNOWN" ELSE IF l[i].value = "HALT" THEN "HALTED" ELSE "ARMED"

\* Mutant: the breakdown by type is read before the total.
TypesFirst(step) ==
    CASE step = "latest" -> "types" [] step = "types" -> "total"
      [] step = "total" -> "switch" [] step = "switch" -> "done"

\* The order in which build_status_view evaluates its arguments.
NextRead(step) ==
    CASE step = "latest" -> "total" [] step = "total" -> "types"
      [] step = "types" -> "switch" [] step = "switch" -> "done"

build_status_view ==
    /\ view.next # "done" /\ view.served < setting.maxRequests
    /\ LET counts == [t \in RecordType |-> Cardinality(of_type(log, Seqs(log), t))]
           read == CASE view.next = "latest" -> [view EXCEPT !.last = Len(log)]
                     [] view.next = "total"  -> [view EXCEPT !.total = Len(log)]
                     [] view.next = "types"  -> [view EXCEPT !.types = counts]
                     [] view.next = "switch" -> [view EXCEPT !.switch =
                                   latest_payload_of_type(log, "KILL_SWITCH_STATE")]
       IN  view' = [read EXCEPT !.next = NextRead(view.next)]
    /\ UNCHANGED <<setting, log, now, pc, job, report>>

\* The answer is sent and the next request opens the database again.
Respond ==
    /\ view.next = "done"
    /\ view' = [NoView EXCEPT !.served = view.served + 1]
    /\ UNCHANGED <<setting, log, now, pc, job, report>>

-----------------------------------------------------------------------------
Init ==
    /\ setting \in Settings
    /\ log = <<>> /\ now = 0
    /\ pc = [p \in Procs |-> "Idle"] /\ job = [p \in Procs |-> NoJob]
    /\ view = NoView /\ report = <<>>

Next ==
    \/ \E p \in setting.procs, j \in setting.jobs : Begin(p, j[1], j[2])
    \/ \E p \in Procs : NewId(p) \/ Audit(p) \/ Switch(p) \/ Crash(p)
    \/ \E r \in setting.payloads, at \in 0..setting.maxTime : Record(r, at)
    \/ Tick
    \/ \E w \in setting.windows : Build(w)
    \/ persist_report
    \/ build_status_view
    \/ Respond

Spec == Init /\ [][Next]_vars

-----------------------------------------------------------------------------
\* Every part of the state has its type, and no clock reading, count or seq that a command
\* or the relay holds is ahead of the store.
TypeInvariant ==
    /\ \A i \in Seqs(log) : log[i].type \in RecordType /\ log[i].created_at \in 0..now
    /\ now \in 0..setting.maxTime
    /\ pc \in [Procs -> {"Idle", "NewId", "Audit", "Switch"}]
    /\ \A p \in Procs : job[p].now \in 0..now /\ job[p].id[2] \in 0..Len(log)
    /\ view.last \in 0..Len(log) /\ view.total \in 0..Len(log) /\ view.switch \in 0..Len(log)

\* The row a step has appended is older than one of its type the window already had.
Overtaken(end) ==
    LET row == log'[Len(log')]
    IN  /\ Len(log') > Len(log)
        /\ \E i \in of_type(log, Seqs(log), row.type) :
              row.created_at < log[i].created_at /\ log[i].created_at <= end

\* A writer that stamped its row, was overtaken and appends late cannot put an old switch,
\* reconciliation or book back into a report (latest_upto's domain time first), and never
\* calms the daily or the risk notification of any window.
DelayedAppendKeepsState ==
    [][\A w \in setting.windows : Overtaken(w[2]) =>
          /\ RunningState(log', w[2]) = RunningState(log, w[2])
          /\ daily_severity(build_daily_report(log', w, now)) >=
                daily_severity(build_daily_report(log, w, now))
          /\ risk_severity(build_risk_report(log', w)) =
                risk_severity(build_risk_report(log, w))]_vars

\* A persisted report can be checked against the archive: it is what build_daily_report
\* gives for the prefix of the store that its own total_audit_events names, however many
\* rows, late ones included, came between its load and its append.
ReportReproducible ==
    \A i \in of_type(log, Seqs(log), "DAILY_REPORT") :
        LET r == log[i].report[1]
        IN  /\ r.total_audit_events < i
            /\ r = build_daily_report(SubSeq(log, 1, r.total_audit_events), r.window,
                                      r.generated_at)

\* Two commands that scan the store before either appends get the same artifact id
\* (control_plane.py:262-266).  Every switch row still has a command artifact of its own:
\* as many with its id, decision and clock precede it as there are such switch rows.
SwitchTraceable ==
    LET like(type, row) ==
            {i \in of_type(log, Seqs(log), type) :
                /\ log[i].id = row.id /\ log[i].value = row.value
                /\ log[i].created_at = row.created_at}
    IN  \A n \in of_type(log, Seqs(log), "KILL_SWITCH_STATE") :
            Cardinality({i \in like("KILL_SWITCH_STATE", log[n]) : i <= n})
                <= Cardinality({i \in like("AUDIT_ARTIFACT", log[n]) : i < n})

\* GET /status reads four times while others append, and its answer still hangs together:
\* the last event is counted, every counted event is in the breakdown by type, and the
\* switch shown is no older than the newest switch among the events counted.
RelayCoherent ==
    view.next = "done" =>
        /\ view.last <= view.total
        /\ \A t \in RecordType :
              Cardinality(of_type(log, 1..view.total, t)) <= view.types[t]
        /\ view.types["KILL_SWITCH_STATE"] > 0 => view.switch > 0
        /\ latest_payload_of_type(SubSeq(log, 1, view.total), "KILL_SWITCH_STATE")
              <= view.switch
=============================================================================
