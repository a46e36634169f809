----------------------------- MODULE PaperCycle -----------------------------
(***************************************************************************)
(* run_paper_cycle (services/paper_cycle.py) in one or more processes that *)
(* share the audit store.  pc[p] names the step process p is about to      *)
(* take; there is one action per durable append or broker call, so another *)
(* process may step, and this one may crash, between any two of them.      *)
(***************************************************************************)
EXTENDS AuditStore, PaperBroker

CONSTANTS Procs,            \* OS processes that open the store
          BrokerOf,           \* BrokerOf[p]: the adapter p was given, or NoBroker
          NoBroker,
          Batches,            \* the sequences of PaperSubmitRequest a cycle is given
          NoIntent,           \* no intent minted for the current item yet
          NoFill,             \* no BrokerFill received for the current item yet
          AppArmed            \* the AppConfig passes require_paper_safe's first half

\* One PaperSubmitRequest: the ticket its GatewayRequest routes to, the caller's price,
\* the gateway's verdict and whether the route decision is acceptable.
PaperSubmitRequests ==
    [ticket : Tickets, limit_price : Prices \cup {NoPrice},
     approved : BOOLEAN, routable : BOOLEAN]

ASSUME ProcAssumption ==
    /\ BrokerOf \in [Procs -> Brokers \cup {NoBroker}]
    /\ NoBroker \notin Brokers

ASSUME BatchAssumption == Batches \subseteq Seq(PaperSubmitRequests)

ASSUME CycleNoneAssumption ==
    /\ NoIntent \notin Intents
    /\ NoOrder \notin Order
    /\ NoFill \notin Order
    /\ NoToken \notin Tokens
    /\ NoKey \notin Keys
    /\ AppArmed \in BOOLEAN

VARIABLES pc, queue, attempt, intent, token, fill, tally, granted

cycleVars == <<queue, attempt, intent, token, fill, tally>>

Outcomes == {"gateway_rejected", "deferred", "submitted", "submit_failed",
             "duplicate_skipped"}

CyclePCs == {"Request", "Validate", "Route", "Confirm", "Persist", "Submit", "Report",
             "Failed", "Finish"}

Item(p) == Head(queue[p])

NoTally == [o \in Outcomes |-> 0]

CycleInit ==
    /\ pc = [p \in Procs |-> "Idle"]
    /\ queue = [p \in Procs |-> <<>>]
    /\ attempt = [p \in Procs |-> CHOOSE a \in Attempts : TRUE]
    /\ intent = [p \in Procs |-> NoIntent]
    /\ token = [p \in Procs |-> NoToken]
    /\ fill = [p \in Procs |-> NoFill]
    /\ tally = [p \in Procs |-> NoTally]
    /\ granted = {}

-----------------------------------------------------------------------------
\* What the code's variables are once the current item is counted and dropped.
NextItem(p, outcome) ==
    /\ tally' = [tally EXCEPT ![p][outcome] = @ + 1]
    /\ queue' = [queue EXCEPT ![p] = Tail(@)]
    /\ pc' = [pc EXCEPT ![p] = IF Len(queue[p]) = 1 THEN "Finish" ELSE "Request"]
    /\ intent' = [intent EXCEPT ![p] = NoIntent]
    /\ token' = [token EXCEPT ![p] = NoToken]
    /\ fill' = [fill EXCEPT ![p] = NoFill]
    /\ UNCHANGED attempt

\* The local variables of a process that leaves the cycle, by exception or by crash.
Forget(p) ==
    /\ pc' = [pc EXCEPT ![p] = "Idle"]
    /\ queue' = [queue EXCEPT ![p] = <<>>]
    /\ intent' = [intent EXCEPT ![p] = NoIntent]
    /\ token' = [token EXCEPT ![p] = NoToken]
    /\ fill' = [fill EXCEPT ![p] = NoFill]
    /\ tally' = [tally EXCEPT ![p] = NoTally]
    /\ UNCHANGED attempt

GoTo(p, label) == pc' = [pc EXCEPT ![p] = label]

require_paper_safe ==
    AppArmed /\ paper_submission_armed /\ PaperConfig.paper_require_human_confirm

\* run_paper_cycle up to and including the PAPER_CYCLE_START artifact.
StartCycle(p, batch, n) ==
    /\ pc[p] = "Idle" /\ BrokerOf[p] # NoBroker
    /\ require_paper_safe
    /\ append(AuditArtifact("PAPER_CYCLE_START"))
    /\ GoTo(p, IF batch = <<>> THEN "Finish" ELSE "Request")
    /\ queue' = [queue EXCEPT ![p] = batch]
    /\ attempt' = [attempt EXCEPT ![p] = n]
    /\ tally' = [tally EXCEPT ![p] = NoTally]
    /\ UNCHANGED <<intent, token, fill, book, placed, granted>>

AuditRequest(p) ==
    /\ pc[p] = "Request"
    /\ append(Plain("GATEWAY_REQUEST", "NONE"))
    /\ GoTo(p, "Validate")
    /\ UNCHANGED <<cycleVars, book, placed, granted>>

ValidateRejects(p) ==
    /\ pc[p] = "Validate" /\ ~Item(p).approved
    /\ append(AuditArtifact("REJECT"))
    /\ NextItem(p, "gateway_rejected")
    /\ UNCHANGED <<book, placed, granted>>

ValidateApproves(p) ==
    /\ pc[p] = "Validate" /\ Item(p).approved
    /\ append(Plain("VALIDATED_TRADE_INTENT", "NONE"))
    /\ GoTo(p, "Route")
    /\ UNCHANGED <<cycleVars, book, placed, granted>>

\* mint_order_ticket raises for a rejected route: the exception leaves the cycle.
RouteRaises(p) ==
    /\ pc[p] = "Route" /\ ~Item(p).routable
    /\ Forget(p)
    /\ UNCHANGED <<log, book, placed, granted>>

MintTicket(p) ==
    /\ pc[p] = "Route" /\ Item(p).routable
    /\ append(Plain("ORDER_TICKET", "NONE"))
    /\ GoTo(p, "Confirm")
    /\ UNCHANGED <<cycleVars, book, placed, granted>>

MissingPrice(p) ==
    OrderType[Item(p).ticket] = "LIMIT" /\ Item(p).limit_price = NoPrice

DeferNoPrice(p) ==
    /\ pc[p] = "Confirm" /\ MissingPrice(p)
    /\ append(AuditArtifact("PAPER_SUBMIT_DEFERRED"))
    /\ NextItem(p, "deferred")
    /\ UNCHANGED <<book, placed, granted>>

CurrentIntent(p) ==
    mint_broker_submit_intent(Item(p).ticket, attempt[p], Item(p).limit_price)

\* The confirmer answers None: deferred, and no submit attempt is persisted.
ConfirmDeclines(p) ==
    /\ pc[p] = "Confirm" /\ ~MissingPrice(p)
    /\ append(AuditArtifact("PAPER_SUBMIT_DEFERRED"))
    /\ NextItem(p, "deferred")
    /\ UNCHANGED <<book, placed, granted>>

\* The confirmer raises (a wrong code, a reused confirmer): the cycle is aborted.
ConfirmRaises(p) ==
    /\ pc[p] = "Confirm" /\ ~MissingPrice(p)
    /\ Forget(p)
    /\ UNCHANGED <<log, book, placed, granted>>

\* The confirmer hands over a token.  Either the human grants one for the intent just
\* shown (granted records it), or an earlier token is handed over again.
ConfirmAnswers(p, t) ==
    /\ pc[p] = "Confirm" /\ ~MissingPrice(p)
    /\ \/ t.intent = CurrentIntent(p) /\ granted' = granted \cup {t.intent}
       \/ t.intent \in granted /\ UNCHANGED granted
    /\ intent' = [intent EXCEPT ![p] = CurrentIntent(p)]
    /\ token' = [token EXCEPT ![p] = t]
    /\ GoTo(p, "Persist")
    /\ UNCHANGED <<log, book, placed, queue, attempt, fill, tally>>

\* record_submit_attempt before the broker call.
PersistAttempt(p) ==
    /\ pc[p] = "Persist"
    /\ record_submit_attempt(intent[p])
    /\ GoTo(p, "Submit")
    /\ UNCHANGED <<cycleVars, book, placed, granted>>

PersistDuplicate(p) ==
    /\ pc[p] = "Persist"
    /\ DuplicateIdempotencyKey(KeyOf(intent[p]))
    /\ append(AuditArtifact("PAPER_SUBMIT_DUPLICATE_SKIPPED"))
    /\ NextItem(p, "duplicate_skipped")
    /\ UNCHANGED <<book, placed, granted>>

\* LocalPaperBroker refuses the intent: nothing reaches the adapter.
SubmitRefused(p) ==
    /\ pc[p] = "Submit"
    /\ ~validate_submit(intent[p], token[p])
    /\ GoTo(p, "Failed")
    /\ UNCHANGED <<log, book, placed, granted, cycleVars>>

\* Mutant: the broker's answer is used without looking whether it raised.
SubmitIgnoringError(p) ==
    /\ pc[p] = "Submit"
    /\ validate_submit(intent[p], token[p])
    /\ \E outcome \in SubmitOutcomes(BrokerOf[p], intent[p]) :
          /\ submit_order(BrokerOf[p], intent[p], outcome)
          /\ fill' = [fill EXCEPT ![p] = outcome.order]
    /\ GoTo(p, "Report")
    /\ UNCHANGED <<log, granted, queue, attempt, intent, token, tally>>

SubmitToBroker(p) ==
    /\ pc[p] = "Submit"
    /\ validate_submit(intent[p], token[p])
    /\ \E outcome \in SubmitOutcomes(BrokerOf[p], intent[p]) :
          /\ submit_order(BrokerOf[p], intent[p], outcome)
          /\ fill' = [fill EXCEPT ![p] = IF outcome.reply = "ack" THEN outcome.order ELSE NoFill]
          /\ GoTo(p, IF outcome.reply = "ack" THEN "Report" ELSE "Failed")
    /\ UNCHANGED <<log, granted, queue, attempt, intent, token, tally>>

\* Mutant: a BrokerError is recorded as a rejection by the broker.
FailureAsRejection(p) ==
    /\ pc[p] = "Failed"
    /\ append(ReportEvent(KeyOf(intent[p]), "REJECTED", 0))
    /\ NextItem(p, "submit_failed")
    /\ UNCHANGED <<book, placed, granted>>

\* The except branch around the broker call: REJECT, no ExecutionReport.
AuditFailure(p) ==
    /\ pc[p] = "Failed"
    /\ append(AuditArtifact("REJECT"))
    /\ NextItem(p, "submit_failed")
    /\ UNCHANGED <<book, placed, granted>>

AppendReport(p) ==
    /\ pc[p] = "Report"
    /\ ReportCoherent(fill[p].life, fill[p].filled, Requested(intent[p]))
    /\ append(ReportEvent(KeyOf(intent[p]), fill[p].life, fill[p].filled))
    /\ NextItem(p, "submitted")
    /\ UNCHANGED <<book, placed, granted>>

\* mint_execution_report raises: the broker's clock is behind the intent's submitted_at.
\* The ValueError is not a BrokerError, so it leaves the cycle.
ReportRaises(p) ==
    /\ pc[p] = "Report"
    /\ \/ ReportTimed(fill[p].life, fill[p].filled)
       \/ ~ReportCoherent(fill[p].life, fill[p].filled, Requested(intent[p]))
    /\ Forget(p)
    /\ UNCHANGED <<log, book, placed, granted>>

\* The heartbeat and the PaperCycleResult.
FinishCycle(p) ==
    /\ pc[p] = "Finish"
    /\ GoTo(p, "Idle")
    /\ UNCHANGED <<log, book, placed, granted, cycleVars>>

CycleStep(p) ==
    \/ AuditRequest(p)
    \/ ValidateRejects(p) \/ ValidateApproves(p)
    \/ RouteRaises(p) \/ MintTicket(p)
    \/ DeferNoPrice(p) \/ ConfirmDeclines(p) \/ ConfirmRaises(p)
    \/ \E t \in Tokens : ConfirmAnswers(p, t)
    \/ PersistAttempt(p) \/ PersistDuplicate(p)
    \/ SubmitRefused(p) \/ SubmitToBroker(p)
    \/ AuditFailure(p) \/ AppendReport(p) \/ ReportRaises(p)
    \/ FinishCycle(p)
=============================================================================
