---------------------------- MODULE PaperTrading ----------------------------
(***************************************************************************)
(* The paper-trading deployment: processes that run paper cycles and       *)
(* operator commands over one audit store, the broker adapters behind      *)
(* them, and crashes.  A crash loses everything a process holds in memory, *)
(* the orders of its in-memory fake broker included; the store and a       *)
(* remote adapter keep what they have.                                     *)
(***************************************************************************)
EXTENDS ControlPlane

CONSTANTS MaxJobs,        \* bound: cycles and commands started in a behaviour
          MaxCrashes,       \* bound: crashes in a behaviour
          MaxRemoteFills    \* bound: fills a remote adapter makes on its own

ASSUME BoundAssumption ==
    MaxJobs \in Nat /\ MaxCrashes \in Nat /\ MaxRemoteFills \in Nat

\* An in-memory fake belongs to one process; only a remote adapter is shared.
ASSUME FakeOwnedAssumption ==
    \A p, q \in Procs :
        /\ BrokerOf[p] = BrokerOf[q] /\ BrokerOf[p] \in Brokers
        /\ Profile[BrokerOf[p]] \in Fakes
        => p = q

VARIABLES jobs, crashes, remoteFills

bounds == <<jobs, crashes, remoteFills>>

vars == <<log, book, placed, pc, cycleVars, granted, commandVars, bounds>>

Init ==
    /\ log = <<>>
    /\ book = [b \in Brokers |-> [k \in Keys |-> NoOrder]]
    /\ placed = [k \in Keys |-> 0]
    /\ CycleInit
    /\ ControlInit
    /\ jobs = 0 /\ crashes = 0 /\ remoteFills = 0

StartJob(p) ==
    /\ jobs < MaxJobs
    /\ jobs' = jobs + 1
    /\ \/ \E batch \in Batches, n \in Attempts :
             /\ "cycle" \in Menu
             /\ StartCycle(p, batch, n)
             /\ UNCHANGED commandVars
       \/ StartCommand(p)
    /\ UNCHANGED <<crashes, remoteFills>>

RunCycle(p) == CycleStep(p) /\ UNCHANGED <<commandVars, bounds>>

RunCommand(p) == CommandStep(p) /\ UNCHANGED bounds

\* The process dies, or exits after a job: its memory is gone.
Crash(p) ==
    /\ crashes < MaxCrashes
    /\ crashes' = crashes + 1
    /\ Forget(p)
    /\ snap' = [snap EXCEPT ![p] = {}]
    /\ todo' = [todo EXCEPT ![p] = {}]
    /\ target' = [target EXCEPT ![p] = NoTarget]
    /\ audits' = [audits EXCEPT ![p] = 0]
    /\ book' = [b \in Brokers |->
           IF b = BrokerOf[p] /\ Profile[b] \in Fakes
           THEN [k \in Keys |-> NoOrder] ELSE book[b]]
    /\ UNCHANGED <<log, placed, granted, jobs, remoteFills>>

RemoteProgress(b, k) ==
    /\ remoteFills < MaxRemoteFills
    /\ remoteFills' = remoteFills + 1
    /\ RemoteFill(b, k)
    /\ UNCHANGED <<log, pc, cycleVars, granted, commandVars, jobs, crashes>>

Step(p) == RunCycle(p) \/ RunCommand(p)

\* Every job has ended and the bound allows no other: the only way the deployment stops,
\* so TLC's deadlock check finds a process that is stuck inside a job.
Rest ==
    /\ jobs = MaxJobs
    /\ \A p \in Procs : pc[p] = "Idle"
    /\ UNCHANGED vars

Next ==
    \/ \E p \in Procs : StartJob(p) \/ Step(p) \/ Crash(p)
    \/ \E b \in Brokers, k \in Keys : RemoteProgress(b, k)
    \/ Rest

Spec == Init /\ [][Next]_vars

\* The steps of the code itself.  Waiting for the confirmer is waiting for a human, and
\* starting a job, crashing or filling an order is nobody's duty.
Scheduled(p) == pc[p] # "Confirm" /\ Step(p)

FairSpec == Spec /\ \A p \in Procs : WF_vars(Scheduled(p))
-----------------------------------------------------------------------------
StoreOK == log \in Seq(StoredEvent)

BrokerOK ==
    /\ book \in [Brokers -> [Keys -> Order \cup {NoOrder}]]
    /\ placed \in [Keys -> Nat]

CycleOK ==
    /\ pc \in [Procs -> {"Idle"} \cup CyclePCs \cup CommandPCs]
    /\ queue \in [Procs -> Seq(PaperSubmitRequests)]
    /\ attempt \in [Procs -> Attempts]
    /\ intent \in [Procs -> Intents \cup {NoIntent}]
    /\ token \in [Procs -> Tokens \cup {NoToken}]
    /\ fill \in [Procs -> Order \cup {NoFill}]
    /\ tally \in [Procs -> [Outcomes -> Nat]]
    /\ granted \subseteq Intents

CommandOK ==
    /\ snap \in [Procs -> SUBSET Fills]
    /\ todo \in [Procs -> SUBSET Fills]
    /\ target \in [Procs -> Fills \cup {NoTarget}]
    /\ audits \in [Procs -> Nat]

BoundsOK == jobs \in Nat /\ crashes \in Nat /\ remoteFills \in Nat

\* Every variable stays in its domain: in particular no step of any interleaving uses a
\* missing intent, token, fill or cancel target as if it were there.
TypeOK == StoreOK /\ BrokerOK /\ CycleOK /\ CommandOK /\ BoundsOK

\* Whatever crashes, restarts and retries happen, the brokers execute at most one order
\* per idempotency key: the attempt is persisted before the broker call and the store
\* refuses a second attempt with the same key.
AtMostOnce == \A k \in Keys : placed[k] <= 1

\* Restart recovery misses nothing: an order that is open at any broker is among
\* unresolved_open_orders(), at every point of every cycle, cancel or flatten.
NoOpenOrderLost ==
    \A b \in Brokers : OpenOrders(b) \subseteq unresolved_open_orders(log)

\* What a broker executes is what was persisted and what a human confirmed: the store
\* holds the attempt with the same limit price, and a token was granted for exactly that
\* intent, never for another one with the same key.
PlacedAsConfirmed ==
    \A b \in Brokers, k \in Keys :
        book[b][k] # NoOrder =>
            /\ \E i \in SubmitsOf(log, k) : log[i].price = book[b][k].intent.price
            /\ book[b][k].intent \in granted

\* All reports of one order carry the same fill evidence: a terminal CANCELLED report
\* never erases or rewrites the partial fill recorded before it.
EvidencePreserved ==
    \A k \in Keys : \A i, j \in ReportsOf(log, k) : log[i].filled = log[j].filled

\* The kill switch never moves without the operator command's artifact before it: the
\* switch rows never outnumber the artifacts of the commands that produce them.
SwitchAudited ==
    \A d \in {"HALT", "RESUME"} :
        Cardinality({i \in 1..Len(log) :
                        log[i].type = "KILL_SWITCH_STATE" /\ log[i].decision = d})
        <= Cardinality({i \in 1..Len(log) :
                        log[i].type = "AUDIT_ARTIFACT" /\ log[i].decision = d})

\* Once restart recovery is clear of an order it stays clear of it: a terminal report is
\* never followed by a report that reopens the order.
TerminalIsFinal ==
    [][\A k \in Keys : HasTerminalReport(log, k) => HasTerminalReport(log, k)']_vars

\* A mutating command that ends on its own has left an artifact, unless the store refused
\* the very artifact it ends with (control_plane.py:616-633, 668-685): a broker that fails
\* half way through a cancel or a flatten, an order that cannot be authenticated and a
\* terminal report that cannot be minted or stored do not make the command disappear from
\* the audit trail.
CommandAudited ==
    [][\A p \in Procs :
          (/\ pc[p] \in CommandPCs \ {"Export", "Unaudited"} /\ pc'[p] = "Idle"
           /\ crashes' = crashes)
              => audits'[p] >= 1]_vars

\* What the cycle's summary counts as submit_failed stays visible to restart recovery:
\* at least that many attempts are in the store without any ExecutionReport, whatever
\* the other processes and the operator's cancels append meanwhile.
FailureSurfaced ==
    \A p \in Procs :
        tally[p]["submit_failed"]
        <= Cardinality({k \in Keys : SubmitsOf(log, k) # {} /\ ReportsOf(log, k) = {}})

\* A job never hangs: a cycle reaches its end or the human's confirmation, a command its
\* end, whatever the other processes and the brokers do meanwhile.
JobsEnd ==
    \A p \in Procs : pc[p] \notin {"Idle", "Confirm"} ~> pc[p] \in {"Idle", "Confirm"}
-----------------------------------------------------------------------------
(* The inductive invariant behind AtMostOnce, NoOpenOrderLost, TerminalIsFinal and the   *)
(* refinement: who may still act on a key, and what the store says about it meanwhile.   *)

Submitted(k) == SubmitsOf(log, k) # {}
Reported(k) == ReportsOf(log, k) # {}
Closed(k) == HasTerminalReport(log, k)

BrokerPCs == {"CancelResolve", "CancelNext", "CancelReport", "FlattenNext"}

\* Which local variables hold a value at which step.
Shape ==
    \A p \in Procs :
        /\ pc[p] \in CyclePCs \ {"Finish"} => queue[p] # <<>>
        /\ pc[p] \in {"Persist", "Submit", "Report", "Failed"} =>
               intent[p] \in Intents /\ token[p] \in Tokens
        /\ pc[p] = "Report" => fill[p] \in Order
        /\ pc[p] = "CancelReport" => target[p] \in Fills /\ target[p].life = "CANCELLED"
        /\ pc[p] \in CyclePCs \cup BrokerPCs => BrokerOf[p] \in Brokers

\* Between its own attempt and the broker call nothing has been placed or reported.
AttemptInFlight ==
    \A p \in Procs :
        pc[p] = "Submit" =>
            LET k == KeyOf(intent[p])
            IN  Submitted(k) /\ ~Reported(k) /\ placed[k] = 0

\* Between the broker's answer and its report the order is placed and not reported, and
\* a terminal answer stays true: nobody can execute the order any more.
AnswerInFlight ==
    \A p \in Procs :
        pc[p] = "Report" =>
            LET k == KeyOf(intent[p])
            IN  /\ Submitted(k) /\ ~Reported(k) /\ placed[k] = 1
                /\ fill[p].life \notin NON_TERMINAL_LIFECYCLE => k \notin Exposed

\* Only one process at a time is between the attempt and the report of a key.
KeyOwned ==
    \A p, q \in Procs :
        /\ pc[p] \in {"Submit", "Report"} /\ pc[q] \in {"Submit", "Report"}
        /\ KeyOf(intent[p]) = KeyOf(intent[q])
        => p = q

PlacedOnRecord ==
    \A k \in Keys :
        /\ placed[k] \in {0, 1}
        /\ placed[k] = 1 => Submitted(k)
        /\ Reported(k) => placed[k] = 1

HeldOnce ==
    \A b \in Brokers, k \in Keys :
        book[b][k] # NoOrder =>
            /\ placed[k] = 1
            /\ \A c \in Brokers : book[c][k] # NoOrder => c = b

ClosedNotExposed == \A k \in Keys : Closed(k) => k \notin Exposed

\* A cancel acts only on reported orders; between the confirmed cancel and its report the
\* order is not executable, not closed, and no other cancel is reporting it.
CancelInFlight ==
    \A p \in Procs :
        /\ pc[p] \in {"CancelResolve", "CancelNext", "CancelReport"} =>
               \A f \in todo[p] : Reported(f.key)
        /\ pc[p] = "CancelReport" =>
               /\ Reported(target[p].key) /\ ~Closed(target[p].key)
               /\ target[p].key \notin Exposed
               /\ \A q \in Procs :
                      pc[q] = "CancelReport" /\ target[q].key = target[p].key => q = p

OrderInv ==
    /\ AttemptInFlight /\ AnswerInFlight /\ KeyOwned
    /\ PlacedOnRecord /\ HeldOnce /\ ClosedNotExposed /\ CancelInFlight

IndInv == TypeOK /\ Shape /\ OrderInv
=============================================================================
