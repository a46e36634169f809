---------------------------- MODULE ControlPlane ----------------------------
(***************************************************************************)
(* The operator commands (ops/control_plane.py) and the CLI around them    *)
(* (ops/commands.py), run by the same processes and over the same store    *)
(* and brokers as the paper cycle.  A process is sequential: it is in a    *)
(* cycle, in a command, or idle.                                           *)
(***************************************************************************)
EXTENDS PaperCycle

CONSTANTS Cli,          \* processes that are `python -m ops` (never given a broker)
          PaperMode,      \* processes whose ControlPlane has broker_mode PAPER
          NoTarget,       \* no order is being cancelled
          Menu            \* bound: the jobs operators start (a subset of AllJobs)

AllJobs == {"cycle", "read", "export", "unauthorized", "halt", "resume", "cancel", "flatten"}

ASSUME MenuAssumption == Menu \subseteq AllJobs

ASSUME CliAssumption ==
    /\ Cli \subseteq Procs /\ PaperMode \subseteq Procs
    /\ \A p \in Cli : BrokerOf[p] = NoBroker

VARIABLES snap,     \* broker-reported open orders not authenticated yet
          todo,     \* open orders still to be cancelled by the command
          target,   \* the cancel response whose terminal report is about to be appended
          audits    \* AuditArtifacts the current (or last) command has written

commandVars == <<snap, todo, target, audits>>

\* A BrokerFill as get_open_orders returns it.
Fills == [key : Keys, life : OrderLifecycleState, filled : Nat]

ASSUME TargetAssumption == NoTarget \notin Fills

CommandPCs == {"HaltState", "ResumeState", "CancelResolve", "CancelNext",
               "CancelReport", "FlattenNext", "CmdReject", "Unaudited", "CliReject", "Export"}

ControlInit ==
    /\ snap = [p \in Procs |-> {}]
    /\ todo = [p \in Procs |-> {}]
    /\ target = [p \in Procs |-> NoTarget]
    /\ audits = [p \in Procs |-> 0]

get_open_orders(b) ==
    {[key |-> k, life |-> book[b][k].life, filled |-> book[b][k].filled] :
        k \in OpenOrders(b)}

FirstAudit(p, decision) ==
    /\ append(AuditArtifact(decision))
    /\ audits' = [audits EXCEPT ![p] = 1]

OneMoreAudit(p, decision) ==
    /\ append(AuditArtifact(decision))
    /\ audits' = [audits EXCEPT ![p] = @ + 1]

-----------------------------------------------------------------------------
\* status, show-open-orders, show-positions, show-last-decision: the artifact comes first,
\* so a broker that raises in get_open_orders or get_positions does not undo it.
ReadCommand(p) ==
    /\ pc[p] = "Idle"
    /\ FirstAudit(p, "READ")
    /\ UNCHANGED <<pc, cycleVars, book, placed, granted, snap, todo, target>>

\* export-audit writes the whole file before its artifact: export_jsonl raising (a path it
\* cannot write), or the store refusing the artifact, leaves none behind.
export_audit(p) ==
    /\ pc[p] = "Idle"
    /\ audits' = [audits EXCEPT ![p] = 0]
    /\ GoTo(p, "Export")
    /\ UNCHANGED <<log, cycleVars, book, placed, granted, snap, todo, target>>

ExportDone(p) ==
    /\ pc[p] = "Export"
    /\ FirstAudit(p, "EXPORT")
    /\ GoTo(p, "Idle")
    /\ UNCHANGED <<cycleVars, book, placed, granted, snap, todo, target>>

ExportRaises(p) ==
    /\ pc[p] = "Export"
    /\ GoTo(p, "Idle")
    /\ UNCHANGED <<log, cycleVars, book, placed, granted, commandVars>>

\* A mutating command without a token bound to it: _require_human in the service, or the
\* missing flag or wrong phrase at the CLI (record_command_rejection).  One REJECT.
Unauthorized(p) ==
    /\ pc[p] = "Idle"
    /\ FirstAudit(p, "REJECT")
    /\ UNCHANGED <<pc, cycleVars, book, placed, granted, snap, todo, target>>

\* Mutant: the switch is persisted before the artifact.
SwitchBeforeArtifact(p, decision, next) ==
    /\ pc[p] = "Idle"
    /\ append(Plain("KILL_SWITCH_STATE", decision))
    /\ GoTo(p, next)
    /\ UNCHANGED <<cycleVars, book, placed, granted, commandVars>>

\* halt_new_entries / resume_new_entries: the artifact first, then the switch.
SwitchCommand(p, decision, next) ==
    /\ pc[p] = "Idle"
    /\ FirstAudit(p, decision)
    /\ GoTo(p, next)
    /\ UNCHANGED <<cycleVars, book, placed, granted, snap, todo, target>>

halt_new_entries(p) == SwitchCommand(p, "HALT", "HaltState")

resume_new_entries(p) == SwitchCommand(p, "RESUME", "ResumeState")

PersistSwitch(p) ==
    /\ pc[p] \in {"HaltState", "ResumeState"}
    /\ append(Plain("KILL_SWITCH_STATE",
                    IF pc[p] = "HaltState" THEN "HALT" ELSE "RESUME"))
    /\ GoTo(p, "Idle")
    /\ UNCHANGED <<cycleVars, book, placed, granted, commandVars>>

\* The commands the service refuses outright: no adapter, or for flatten a broker mode
\* other than PAPER.
Refused(p) ==
    {c \in {"cancel", "flatten"} :
        BrokerOf[p] = NoBroker \/ (c = "flatten" /\ p \notin PaperMode)}

\* The service audits the refusal and raises; commands.main audits the same refusal again.
RefuseCommand(p) ==
    /\ pc[p] = "Idle"
    /\ Refused(p) \cap Menu # {}
    /\ FirstAudit(p, "REJECT")
    /\ GoTo(p, IF p \in Cli THEN "CliReject" ELSE "Idle")
    /\ UNCHANGED <<cycleVars, book, placed, granted, snap, todo, target>>

record_command_rejection(p) ==
    /\ pc[p] = "CliReject"
    /\ OneMoreAudit(p, "REJECT")
    /\ GoTo(p, "Idle")
    /\ UNCHANGED <<cycleVars, book, placed, granted, snap, todo, target>>

\* The store takes a command's artifact and refuses what follows it: the switch row, or the
\* command line's own REJECT.  (One that refuses the first artifact leaves no trace at all
\* of a command that begins with it.)
FollowUpRaises(p) ==
    /\ pc[p] \in {"HaltState", "ResumeState", "CliReject"}
    /\ GoTo(p, "Idle")
    /\ UNCHANGED <<log, cycleVars, book, placed, granted, commandVars>>

-----------------------------------------------------------------------------
\* Mutant: the persisted attempt is enough, no report is looked for.
IdentityWithoutReport(f) == SubmitsOf(log, f.key) # {}

\* _resolve_cancel_identity: the latest persisted report is open and carries exactly what
\* the broker reports, and the submit attempt itself is persisted.
resolve_cancel_identity(f) ==
    /\ SubmitsOf(log, f.key) # {}
    /\ \E i \in ReportsOf(log, f.key) :
          /\ LatestReport(log, f.key, i)
          /\ log[i].life \in NON_TERMINAL_LIFECYCLE
          /\ log[i].life = f.life
          /\ log[i].filled = f.filled

\* Mutant: the fill evidence of the cancel response is not compared.
ConfirmedWithoutEvidence(f, outcome) ==
    /\ outcome.reply = "ack"
    /\ outcome.order.life = "CANCELLED"

\* The broker's answer confirms CANCELLED with the authenticated fill evidence.
CancelConfirmed(f, outcome) ==
    /\ outcome.reply = "ack"
    /\ outcome.order.life = "CANCELLED"
    /\ outcome.order.filled = f.filled

CancelResponse(f, outcome) ==
    [key |-> f.key, life |-> outcome.order.life, filled |-> outcome.order.filled]

cancel_open_orders(p) ==
    /\ pc[p] = "Idle" /\ BrokerOf[p] # NoBroker
    /\ snap' = [snap EXCEPT ![p] = get_open_orders(BrokerOf[p])]
    /\ todo' = [todo EXCEPT ![p] = {}]
    /\ audits' = [audits EXCEPT ![p] = 0]
    /\ GoTo(p, "CancelResolve")
    /\ UNCHANGED <<log, cycleVars, book, placed, granted, target>>

\* get_open_orders of a remote adapter raises, in cancel-open-orders or in
\* flatten-paper-only.
OpenOrdersRaise(p) ==
    /\ pc[p] = "Idle"
    /\ ({"cancel", "flatten"} \ Refused(p)) \cap Menu # {}
    /\ Profile[BrokerOf[p]] = "remote"
    /\ audits' = [audits EXCEPT ![p] = 0]
    /\ GoTo(p, "CmdReject")
    /\ UNCHANGED <<log, cycleVars, book, placed, granted, snap, todo, target>>

\* Every open order is authenticated before the first one is cancelled.
CancelResolve(p) ==
    /\ pc[p] = "CancelResolve"
    /\ \/ /\ snap[p] = {}
          /\ GoTo(p, "CancelNext")
          /\ UNCHANGED <<snap, todo>>
       \/ \E f \in snap[p] :
             /\ resolve_cancel_identity(f)
             /\ snap' = [snap EXCEPT ![p] = @ \ {f}]
             /\ todo' = [todo EXCEPT ![p] = @ \cup {f}]
             /\ UNCHANGED pc
       \/ \E f \in snap[p] :
             /\ ~resolve_cancel_identity(f)
             /\ GoTo(p, "CmdReject")
             /\ UNCHANGED <<snap, todo>>
    /\ UNCHANGED <<log, cycleVars, book, placed, granted, target, audits>>

CancelAtBroker(p) ==
    /\ pc[p] = "CancelNext"
    /\ \E f \in todo[p] :
       \E outcome \in CancelOutcomes(BrokerOf[p], f.key) :
          /\ cancel_order(BrokerOf[p], f.key, outcome)
          /\ IF CancelConfirmed(f, outcome)
             THEN /\ GoTo(p, "CancelReport")
                  /\ target' = [target EXCEPT ![p] = CancelResponse(f, outcome)]
                  /\ todo' = [todo EXCEPT ![p] = @ \ {f}]
             ELSE GoTo(p, "CmdReject") /\ UNCHANGED <<target, todo>>
    /\ UNCHANGED <<log, cycleVars, placed, granted, snap, audits>>

\* The terminal report: every field is read off the broker's cancel response.
CancelReport(p) ==
    /\ pc[p] = "CancelReport"
    /\ append(ReportEvent(target[p].key, target[p].life, target[p].filled))
    /\ target' = [target EXCEPT ![p] = NoTarget]
    /\ GoTo(p, "CancelNext")
    /\ UNCHANGED <<cycleVars, book, placed, granted, snap, todo, audits>>

\* The report cannot be minted (broker clock) or cannot be stored.
CancelReportRaises(p) ==
    /\ pc[p] = "CancelReport"
    /\ target' = [target EXCEPT ![p] = NoTarget]
    /\ GoTo(p, "CmdReject")
    /\ UNCHANGED <<log, cycleVars, book, placed, granted, snap, todo, audits>>

CancelDone(p) ==
    /\ pc[p] = "CancelNext" /\ todo[p] = {}
    /\ OneMoreAudit(p, "CANCEL")
    /\ GoTo(p, "Idle")
    /\ UNCHANGED <<cycleVars, book, placed, granted, snap, todo, target>>

\* Mutant: the exception leaves the command unaudited.
RejectUnaudited(p) ==
    /\ pc[p] = "CmdReject"
    /\ GoTo(p, "Idle")
    /\ UNCHANGED <<log, cycleVars, book, placed, granted, commandVars>>

\* Mutant: the cancels are tried again until the broker gives in.
RejectRetries(p) ==
    /\ pc[p] = "CmdReject"
    /\ GoTo(p, "CancelNext")
    /\ UNCHANGED <<log, cycleVars, book, placed, granted, commandVars>>

ForgetOrders(p) ==
    /\ snap' = [snap EXCEPT ![p] = {}]
    /\ todo' = [todo EXCEPT ![p] = {}]

\* The except branch of cancel and flatten: REJECT, and the exception goes on.
RejectCommand(p) ==
    /\ pc[p] = "CmdReject"
    /\ OneMoreAudit(p, "REJECT")
    /\ ForgetOrders(p)
    /\ GoTo(p, "Idle")
    /\ UNCHANGED <<cycleVars, book, placed, granted, target>>

\* The artifact that closes a cancel or a flatten goes to the store that may have failed
\* before, and nothing catches its exception: what was cancelled stays cancelled.
AuditRaises(p) ==
    /\ \/ pc[p] = "CmdReject"
       \/ pc[p] \in {"CancelNext", "FlattenNext"} /\ todo[p] = {}
    /\ ForgetOrders(p)
    /\ GoTo(p, "Unaudited")
    /\ UNCHANGED <<log, cycleVars, book, placed, granted, target, audits>>

\* That exception leaves the command; commands.main does not catch it either.
CommandRaises(p) ==
    /\ pc[p] = "Unaudited"
    /\ GoTo(p, "Idle")
    /\ UNCHANGED <<log, cycleVars, book, placed, granted, commandVars>>

-----------------------------------------------------------------------------
\* flatten_paper_only cancels at the broker and appends no ExecutionReport.
flatten_paper_only(p) ==
    /\ pc[p] = "Idle" /\ BrokerOf[p] # NoBroker /\ p \in PaperMode
    /\ todo' = [todo EXCEPT ![p] = get_open_orders(BrokerOf[p])]
    /\ audits' = [audits EXCEPT ![p] = 0]
    /\ GoTo(p, "FlattenNext")
    /\ UNCHANGED <<log, cycleVars, book, placed, granted, snap, target>>

FlattenAtBroker(p) ==
    /\ pc[p] = "FlattenNext"
    /\ \E f \in todo[p] :
       \E outcome \in CancelOutcomes(BrokerOf[p], f.key) :
          /\ cancel_order(BrokerOf[p], f.key, outcome)
          /\ todo' = [todo EXCEPT ![p] = @ \ {f}]
          /\ GoTo(p, IF outcome.reply = "ack" THEN "FlattenNext" ELSE "CmdReject")
    /\ UNCHANGED <<log, cycleVars, placed, granted, snap, target, audits>>

\* get_positions of a remote adapter raises after the cancels.
PositionsRaise(p) ==
    /\ pc[p] = "FlattenNext" /\ todo[p] = {}
    /\ Profile[BrokerOf[p]] = "remote"
    /\ GoTo(p, "CmdReject")
    /\ UNCHANGED <<log, cycleVars, book, placed, granted, commandVars>>

FlattenDone(p) ==
    /\ pc[p] = "FlattenNext" /\ todo[p] = {}
    /\ OneMoreAudit(p, "FLATTEN")
    /\ GoTo(p, "Idle")
    /\ UNCHANGED <<cycleVars, book, placed, granted, snap, todo, target>>

StartCommand(p) ==
    \/ "read" \in Menu /\ ReadCommand(p)
    \/ "export" \in Menu /\ export_audit(p)
    \/ "unauthorized" \in Menu /\ Unauthorized(p)
    \/ "halt" \in Menu /\ halt_new_entries(p)
    \/ "resume" \in Menu /\ resume_new_entries(p)
    \/ "cancel" \in Menu /\ cancel_open_orders(p)
    \/ "flatten" \in Menu /\ flatten_paper_only(p)
    \/ RefuseCommand(p)
    \/ OpenOrdersRaise(p)

CommandStep(p) ==
    \/ ExportDone(p) \/ ExportRaises(p)
    \/ PersistSwitch(p) \/ record_command_rejection(p) \/ FollowUpRaises(p)
    \/ CancelResolve(p) \/ CancelAtBroker(p) \/ CancelReport(p)
    \/ CancelReportRaises(p) \/ CancelDone(p) \/ RejectCommand(p)
    \/ AuditRaises(p) \/ CommandRaises(p)
    \/ FlattenAtBroker(p) \/ PositionsRaise(p) \/ FlattenDone(p)

-----------------------------------------------------------------------------
\* How the store, read as restart recovery reads it, and the brokers look from outside.
StandingOf(k) ==
    IF SubmitsOf(log, k) = {} THEN "none"
    ELSE IF ReportsOf(log, k) = {} THEN "attempted"
    ELSE IF HasTerminalReport(log, k) THEN "closed"
    ELSE "open"

Exposed == {k \in Keys : \E b \in Brokers : k \in OpenOrders(b)}

Ledger == INSTANCE OrderLedger
          WITH ledger <- [k \in Keys |-> StandingOf(k)], exposure <- Exposed

\* Whatever runs cycles and commands implements the order ledger, the deployment and the
\* local operator alike: every step of a cycle (paper_cycle.py:311-358), a command, a crash
\* or a broker is one step of it or none.
ImplementsLedger == Ledger!LedgerSpec
=============================================================================
