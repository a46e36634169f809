-------------------------- MODULE PaperTradingProofs --------------------------
(***************************************************************************)
(* Machine-checked proofs about PaperTrading, for every set of processes,  *)
(* brokers, tickets, attempts and batches and for every bound.             *)
(***************************************************************************)
EXTENDS PaperTrading, SequenceTheorems, TLAPS

-----------------------------------------------------------------------------
(* Facts about the values of the submit path. *)

\* A key is what the idempotency key of an intent is.
LEMMA KeyType == ASSUME NEW i \in Intents PROVE KeyOf(i) \in Keys
BY DEF Intents, Keys, KeyOf

\* The contracts of an intent's ticket are a positive number.
LEMMA RequestedType == ASSUME NEW i \in Intents PROVE Requested(i) \in Nat \ {0}
BY TicketAssumption DEF Intents, Requested

\* mint_broker_submit_intent makes an intent of any ticket, attempt and price.
LEMMA MintType ==
    ASSUME NEW t \in Tickets, NEW n \in Attempts, NEW pr \in Prices \cup {NoPrice}
    PROVE  mint_broker_submit_intent(t, n, pr) \in Intents
BY DEF mint_broker_submit_intent, Intents

\* The rows the code appends are rows of the schema.
LEMMA PlainType ==
    ASSUME NEW t \in RecordType, NEW d \in Decision PROVE Plain(t, d) \in StoredEvent
BY DEF Plain, StoredEvent

\* The attempt row is a row of the schema.
LEMMA SubmitEventType == ASSUME NEW i \in Intents PROVE SubmitEvent(i) \in StoredEvent
<1>1. KeyOf(i) \in Keys
  BY KeyType
<1>2. i.price \in Prices \cup {NoPrice}
  BY DEF Intents
<1>3. "BROKER_SUBMIT_INTENT" \in RecordType /\ "NONE" \in Decision
  BY DEF RecordType, Decision
<1> QED
  BY <1>1, <1>2, <1>3 DEF SubmitEvent, StoredEvent

\* So is a report's row.
LEMMA ReportEventType ==
    ASSUME NEW k \in Keys, NEW life \in OrderLifecycleState, NEW n \in Nat
    PROVE  ReportEvent(k, life, n) \in StoredEvent
<1>1. "EXECUTION_REPORT" \in RecordType /\ "NONE" \in Decision
  BY DEF RecordType, Decision
<1> QED
  BY <1>1 DEF ReportEvent, StoredEvent

\* An append keeps the log a sequence of rows.
LEMMA AppendType ==
    ASSUME StoreOK, NEW e \in StoredEvent, append(e) PROVE StoreOK'
BY DEF StoreOK, append

\* What a fake or a remote adapter answers to a submit.
LEMMA SubmitOutcomeType ==
    ASSUME BrokerOK, NEW b \in Brokers, NEW i \in Intents, NEW o \in SubmitOutcomes(b, i)
    PROVE  /\ o.reply \in {"ack", "error"}
           /\ o.order \in Order \cup {NoOrder}
           /\ o.reply = "ack" => o.order \in Order
<1>1. KeyOf(i) \in Keys /\ Requested(i) \in Nat /\ Requested(i) - 1 \in Nat
  BY KeyType, RequestedType
<1>2. {"WORKING", "REJECTED", "FILLED", "PARTIAL_FILL"} \subseteq OrderLifecycleState
  BY DEF OrderLifecycleState, NON_TERMINAL_LIFECYCLE
<1>3. simulate(Profile[b], i) \in Order \cup {NoOrder}
  BY <1>1, <1>2 DEF simulate, Order
<1>4. \A r \in RemoteSubmit(i) :
          /\ r.reply \in {"ack", "error"}
          /\ r.order \in Order \cup {NoOrder}
          /\ r.reply = "ack" => r.order \in Order
  <2>1. SUFFICES ASSUME NEW r \in RemoteSubmit(i)
                 PROVE  /\ r.reply \in {"ack", "error"} /\ r.order \in Order \cup {NoOrder}
                        /\ r.reply = "ack" => r.order \in Order
    OBVIOUS
  <2> DEFINE new == {[intent |-> i, life |-> "WORKING", filled |-> 0],
                     [intent |-> i, life |-> "REJECTED", filled |-> 0],
                     [intent |-> i, life |-> "FILLED", filled |-> Requested(i)]}
  <2>2. new \subseteq Order
    BY <1>1, <1>2 DEF Order
  <2>3. r \in [reply : {"ack", "error"}, order : new] \/ r = [reply |-> "error", order |-> NoOrder]
    BY DEF RemoteSubmit
  <2> HIDE DEF new
  <2>4. CASE r \in [reply : {"ack", "error"}, order : new]
    BY <2>2, <2>4
  <2>5. CASE r = [reply |-> "error", order |-> NoOrder]
    BY <2>5
  <2> QED
    BY <2>3, <2>4, <2>5
<1>5. book[b][KeyOf(i)] \in Order \cup {NoOrder}
  BY <1>1 DEF BrokerOK
<1> DEFINE known == book[b][KeyOf(i)]
           new == simulate(Profile[b], i)
<1>6. CASE known # NoOrder
  BY <1>5, <1>6 DEF SubmitOutcomes
<1>7. CASE known = NoOrder /\ Profile[b] = "remote"
  <2>1. o \in RemoteSubmit(i)
    BY <1>7 DEF SubmitOutcomes
  <2> QED
    BY <1>4, <2>1
<1>8. CASE known = NoOrder /\ Profile[b] # "remote"
  <2>1. o = [reply |-> IF new = NoOrder THEN "error" ELSE "ack", order |-> new]
    BY <1>8 DEF SubmitOutcomes
  <2> QED
    BY <1>3, <2>1
<1> QED
  BY <1>6, <1>7, <1>8

\* What a fake or a remote adapter leaves of an order it was asked to cancel.
LEMMA CancelOutcomeType ==
    ASSUME BrokerOK, NEW b \in Brokers, NEW k \in Keys, NEW o \in CancelOutcomes(b, k)
    PROVE  /\ o.order \in Order \cup {NoOrder}
           /\ o.order = NoOrder <=> book[b][k] = NoOrder
           /\ o.order # NoOrder => o.order.filled = book[b][k].filled
           /\ o.order # book[b][k] => o.order.life = "CANCELLED"
<1> DEFINE held == book[b][k]
           cancelled == [held EXCEPT !.life = "CANCELLED"]
<1>1. held \in Order \cup {NoOrder} /\ NoOrder \notin Order
  BY CycleNoneAssumption DEF BrokerOK
<1>2. CASE k \notin OpenOrders(b)
  BY <1>1, <1>2 DEF CancelOutcomes
<1>3. CASE k \in OpenOrders(b)
  <2>1. held \in Order
    BY <1>1, <1>3 DEF OpenOrders
  <2>2. /\ cancelled \in Order
        /\ cancelled.filled = held.filled
        /\ cancelled.life = "CANCELLED"
    BY <2>1 DEF Order, OrderLifecycleState
  <2>3. o.order \in {held, cancelled}
    BY <1>3 DEF CancelOutcomes, RemoteCancel
  <2> QED
    BY <1>1, <2>1, <2>2, <2>3
<1> QED
  BY <1>2, <1>3

\* A confirmed cancel response is a CANCELLED fill of the key that was asked for.
LEMMA CancelResponseType ==
    ASSUME BrokerOK, NEW b \in Brokers, NEW f \in Fills,
           NEW o \in CancelOutcomes(b, f.key), CancelConfirmed(f, o)
    PROVE  /\ CancelResponse(f, o) \in Fills
           /\ CancelResponse(f, o).key = f.key
           /\ CancelResponse(f, o).life = "CANCELLED"
<1>1. f.key \in Keys
  BY DEF Fills
<1>2. o.order.filled \in Nat
  BY DEF CancelConfirmed, Fills
<1>3. o.order.life \in OrderLifecycleState /\ o.order.life = "CANCELLED"
  BY DEF CancelConfirmed, OrderLifecycleState
<1> QED
  BY <1>1, <1>2, <1>3 DEF CancelResponse, Fills

\* A broker's open orders are fills.
LEMMA OpenOrdersType ==
    ASSUME BrokerOK, NEW b \in Brokers PROVE get_open_orders(b) \in SUBSET Fills
<1>1. ASSUME NEW k \in OpenOrders(b) PROVE book[b][k] \in Order /\ k \in Keys
  BY <1>1, CycleNoneAssumption DEF OpenOrders, BrokerOK
<1> QED
  BY <1>1 DEF get_open_orders, Fills, Order
-----------------------------------------------------------------------------
(* Type correctness. *)

USE DEF cycleVars, commandVars, bounds

\* Dropping the head of the queue after counting its outcome.
LEMMA NextItemType ==
    ASSUME CycleOK, Shape, NEW p \in Procs, pc[p] \in CyclePCs \ {"Finish"},
           NEW outcome \in Outcomes, NextItem(p, outcome), UNCHANGED <<granted, target>>
    PROVE  CycleOK' /\ Shape'
<1>1. /\ queue[p] \in Seq(PaperSubmitRequests) /\ queue[p] # <<>>
      /\ tally[p][outcome] + 1 \in Nat
  BY DEF CycleOK, Shape
<1>2. /\ Tail(queue[p]) \in Seq(PaperSubmitRequests)
      /\ Len(queue[p]) # 1 => Tail(queue[p]) # <<>>
  <2>1. /\ Tail(queue[p]) \in Seq(PaperSubmitRequests)
        /\ Len(Tail(queue[p])) = Len(queue[p]) - 1
    BY <1>1, HeadTailProperties
  <2>2. Len(queue[p]) \in Nat
    BY <1>1, LenProperties
  <2>3. ASSUME Tail(queue[p]) = <<>> PROVE Len(queue[p]) = 1
    <3>1. Len(Tail(queue[p])) = 0
      BY <2>3, EmptySeq
    <3> QED
      BY <2>1, <2>2, <3>1
  <2> QED
    BY <2>1, <2>3
<1>3. CycleOK'
  BY <1>1, <1>2 DEF CycleOK, NextItem, CyclePCs
<1>4. Shape'
  BY <1>2 DEF Shape, NextItem, CycleOK, CyclePCs, BrokerPCs
<1> QED
  BY <1>3, <1>4

\* Leaving the cycle.
LEMMA ForgetType ==
    ASSUME CycleOK, Shape, NEW p \in Procs, Forget(p), UNCHANGED granted,
           \A q \in Procs \ {p} : target'[q] = target[q]
    PROVE  CycleOK' /\ Shape'
<1>1. CycleOK'
  BY DEF CycleOK, Forget, NoTally
<1>2. Shape'
  BY DEF Shape, Forget, CycleOK, CyclePCs, BrokerPCs
<1> QED
  BY <1>1, <1>2

\* Moving on within the cycle: only pc changes, to a step whose locals are in place.
LEMMA GoToType ==
    ASSUME CycleOK, Shape, NEW p \in Procs, NEW next \in CyclePCs \cup CommandPCs \cup {"Idle"},
           GoTo(p, next), UNCHANGED <<cycleVars, granted, target>>,
           next \in CyclePCs \ {"Finish"} => queue[p] # <<>>,
           next \in {"Persist", "Submit", "Report", "Failed"} =>
               intent[p] \in Intents /\ token[p] \in Tokens,
           next = "Report" => fill[p] \in Order,
           next = "CancelReport" => target[p] \in Fills /\ target[p].life = "CANCELLED",
           next \in CyclePCs \cup BrokerPCs => BrokerOf[p] \in Brokers
    PROVE  CycleOK' /\ Shape'
<1>1. CycleOK'
  BY DEF CycleOK, GoTo
<1>2. Shape'
  BY DEF Shape, GoTo, CycleOK
<1> QED
  BY <1>1, <1>2

\* The steps of a cycle keep every variable in its domain.
LEMMA CycleStepType ==
    ASSUME TypeOK, Shape, NEW p \in Procs, CycleStep(p), UNCHANGED <<commandVars, bounds>>
    PROVE  TypeOK' /\ Shape'
<1> USE DEF TypeOK
<1>a. CommandOK' /\ BoundsOK'
  BY DEF CommandOK, BoundsOK
<1>b. ASSUME UNCHANGED <<book, placed>> PROVE BrokerOK'
  BY <1>b DEF BrokerOK
<1>c. ASSUME NEW t \in RecordType, NEW d \in Decision, append(Plain(t, d)) PROVE StoreOK'
  BY <1>c, PlainType, AppendType
<1>d. ASSUME UNCHANGED log PROVE StoreOK'
  BY <1>d DEF StoreOK
<1>e. ASSUME NEW d \in Decision, append(AuditArtifact(d)) PROVE StoreOK'
  BY <1>e, <1>c DEF AuditArtifact, RecordType
<1>f. pc[p] \in CyclePCs \ {"Finish"} =>
          Item(p) \in PaperSubmitRequests /\ BrokerOf[p] \in Brokers
  BY HeadTailProperties DEF Shape, CycleOK, Item
<1>1. CASE AuditRequest(p)
  <2>1. StoreOK' /\ BrokerOK'
    BY <1>1, <1>b, <1>c DEF AuditRequest, RecordType, Decision
  <2>2. CycleOK' /\ Shape'
    BY <1>1, <1>f, GoToType DEF AuditRequest, CyclePCs, Shape, CommandPCs
  <2> QED
    BY <1>a, <2>1, <2>2
<1>2. CASE ValidateRejects(p)
  <2>1. StoreOK' /\ BrokerOK'
    BY <1>2, <1>b, <1>e DEF ValidateRejects, Decision
  <2>2. CycleOK' /\ Shape'
    BY <1>2, NextItemType DEF ValidateRejects, CyclePCs, Outcomes
  <2> QED
    BY <1>a, <2>1, <2>2
<1>3. CASE ValidateApproves(p)
  <2>1. StoreOK' /\ BrokerOK'
    BY <1>3, <1>b, <1>c DEF ValidateApproves, RecordType, Decision
  <2>2. CycleOK' /\ Shape'
    BY <1>3, <1>f, GoToType DEF ValidateApproves, CyclePCs, Shape, CommandPCs
  <2> QED
    BY <1>a, <2>1, <2>2
<1>4. CASE RouteRaises(p) \/ ConfirmRaises(p) \/ ReportRaises(p)
  <2>1. StoreOK' /\ BrokerOK'
    BY <1>4, <1>b, <1>d DEF RouteRaises, ConfirmRaises, ReportRaises
  <2>2. CycleOK' /\ Shape'
    BY <1>4, ForgetType DEF RouteRaises, ConfirmRaises, ReportRaises
  <2> QED
    BY <1>a, <2>1, <2>2
<1>5. CASE MintTicket(p)
  <2>1. StoreOK' /\ BrokerOK'
    BY <1>5, <1>b, <1>c DEF MintTicket, RecordType, Decision
  <2>2. CycleOK' /\ Shape'
    BY <1>5, <1>f, GoToType DEF MintTicket, CyclePCs, Shape, CommandPCs
  <2> QED
    BY <1>a, <2>1, <2>2
<1>6. CASE DeferNoPrice(p) \/ ConfirmDeclines(p)
  <2>1. StoreOK' /\ BrokerOK'
    BY <1>6, <1>b, <1>e DEF DeferNoPrice, ConfirmDeclines, Decision
  <2>2. CycleOK' /\ Shape'
    BY <1>6, NextItemType DEF DeferNoPrice, ConfirmDeclines, CyclePCs, Outcomes
  <2> QED
    BY <1>a, <2>1, <2>2
<1>7. ASSUME NEW t \in Tokens, ConfirmAnswers(p, t) PROVE TypeOK' /\ Shape'
  <2>1. StoreOK' /\ BrokerOK'
    BY <1>7, <1>b, <1>d DEF ConfirmAnswers
  <2>2. CurrentIntent(p) \in Intents
    BY <1>7, <1>f, MintType DEF ConfirmAnswers, CyclePCs, CurrentIntent, CycleOK,
       PaperSubmitRequests
  <2>3. CycleOK'
    BY <1>7, <2>2 DEF ConfirmAnswers, CycleOK, GoTo, CyclePCs
  <2>4. Shape'
    BY <1>7, <1>f, <2>2 DEF ConfirmAnswers, Shape, GoTo, CyclePCs, BrokerPCs, CycleOK
  <2> QED
    BY <1>a, <2>1, <2>3, <2>4
<1>8. CASE PersistAttempt(p)
  <2>1. StoreOK' /\ BrokerOK'
    BY <1>8, <1>b, AppendType, SubmitEventType
       DEF PersistAttempt, record_submit_attempt, Shape
  <2>2. CycleOK' /\ Shape'
    BY <1>8, <1>f, GoToType DEF PersistAttempt, CyclePCs, Shape, CommandPCs
  <2> QED
    BY <1>a, <2>1, <2>2
<1>9. CASE PersistDuplicate(p)
  <2>1. StoreOK' /\ BrokerOK'
    BY <1>9, <1>b, <1>e DEF PersistDuplicate, Decision
  <2>2. CycleOK' /\ Shape'
    BY <1>9, NextItemType DEF PersistDuplicate, CyclePCs, Outcomes
  <2> QED
    BY <1>a, <2>1, <2>2
<1>10. CASE SubmitRefused(p)
  <2>1. StoreOK' /\ BrokerOK'
    BY <1>10, <1>b, <1>d DEF SubmitRefused
  <2>2. CycleOK' /\ Shape'
    BY <1>10, <1>f, GoToType DEF SubmitRefused, CyclePCs, Shape, CommandPCs
  <2> QED
    BY <1>a, <2>1, <2>2
<1>11. CASE SubmitToBroker(p)
  <2>1. /\ pc[p] = "Submit" /\ BrokerOf[p] \in Brokers
        /\ intent[p] \in Intents /\ token[p] \in Tokens /\ queue[p] # <<>>
    BY <1>11 DEF SubmitToBroker, Shape, CyclePCs
  <2>2. PICK o \in SubmitOutcomes(BrokerOf[p], intent[p]) :
            /\ submit_order(BrokerOf[p], intent[p], o)
            /\ fill' = [fill EXCEPT ![p] = IF o.reply = "ack" THEN o.order ELSE NoFill]
            /\ GoTo(p, IF o.reply = "ack" THEN "Report" ELSE "Failed")
    BY <1>11 DEF SubmitToBroker
  <2>3. /\ o.reply \in {"ack", "error"} /\ o.order \in Order \cup {NoOrder}
        /\ o.reply = "ack" => o.order \in Order
    BY <2>1, SubmitOutcomeType
  <2>4. UNCHANGED <<log, granted, queue, attempt, intent, token, tally>>
    BY <1>11 DEF SubmitToBroker
  <2>5. StoreOK'
    BY <1>d, <2>4
  <2>6. BrokerOK'
    BY <2>1, <2>2, <2>3, KeyType DEF BrokerOK, submit_order
  <2>7. CycleOK'
    BY <2>1, <2>2, <2>3, <2>4 DEF CycleOK, GoTo, CyclePCs
  <2>8. Shape'
    BY <2>1, <2>2, <2>3, <2>4 DEF Shape, GoTo, CyclePCs, BrokerPCs, CycleOK
  <2> QED
    BY <1>a, <2>5, <2>6, <2>7, <2>8
<1>12. CASE AuditFailure(p)
  <2>1. StoreOK' /\ BrokerOK'
    BY <1>12, <1>b, <1>e DEF AuditFailure, Decision
  <2>2. CycleOK' /\ Shape'
    BY <1>12, NextItemType DEF AuditFailure, CyclePCs, Outcomes
  <2> QED
    BY <1>a, <2>1, <2>2
<1>13. CASE AppendReport(p)
  <2>1. fill[p] \in Order /\ intent[p] \in Intents
    BY <1>13 DEF AppendReport, Shape
  <2>2. StoreOK' /\ BrokerOK'
    BY <1>13, <1>b, <2>1, AppendType, ReportEventType, KeyType DEF AppendReport, Order
  <2>3. CycleOK' /\ Shape'
    BY <1>13, NextItemType DEF AppendReport, CyclePCs, Outcomes
  <2> QED
    BY <1>a, <2>2, <2>3
<1>14. CASE FinishCycle(p)
  <2>1. StoreOK' /\ BrokerOK'
    BY <1>14, <1>b, <1>d DEF FinishCycle
  <2>2. CycleOK' /\ Shape'
    BY <1>14, GoToType DEF FinishCycle, CyclePCs, BrokerPCs
  <2> QED
    BY <1>a, <2>1, <2>2
<1> QED
  BY <1>1, <1>2, <1>3, <1>4, <1>5, <1>6, <1>7, <1>8, <1>9, <1>10, <1>11, <1>12, <1>13,
     <1>14 DEF CycleStep

\* Starting a cycle.
LEMMA StartCycleType ==
    ASSUME TypeOK, Shape, NEW p \in Procs, NEW batch \in Batches, NEW n \in Attempts,
           StartCycle(p, batch, n), UNCHANGED commandVars
    PROVE  StoreOK' /\ BrokerOK' /\ CycleOK' /\ CommandOK' /\ Shape'
<1> USE DEF TypeOK
<1>1. batch \in Seq(PaperSubmitRequests)
  BY BatchAssumption
<1>2. BrokerOf[p] \in Brokers
  BY ProcAssumption DEF StartCycle
<1>3. StoreOK'
  BY PlainType, AppendType DEF StartCycle, AuditArtifact, RecordType, Decision
<1>4. BrokerOK' /\ CommandOK'
  BY DEF StartCycle, BrokerOK, CommandOK
<1>5. CycleOK'
  BY <1>1 DEF StartCycle, CycleOK, GoTo, CyclePCs, NoTally
<1>6. Shape'
  BY <1>2 DEF StartCycle, Shape, GoTo, CyclePCs, BrokerPCs, CycleOK
<1> QED
  BY <1>3, <1>4, <1>5, <1>6

\* Every operator command, from its start to its end.
LEMMA CommandType ==
    ASSUME TypeOK, Shape, NEW p \in Procs, StartCommand(p) \/ CommandStep(p)
    PROVE  StoreOK' /\ BrokerOK' /\ CycleOK' /\ CommandOK' /\ Shape'
<1> USE DEF TypeOK
<1>b. ASSUME UNCHANGED <<book, placed>> PROVE BrokerOK'
  BY <1>b DEF BrokerOK
<1>d. ASSUME UNCHANGED log PROVE StoreOK'
  BY <1>d DEF StoreOK
<1>e. ASSUME NEW d \in Decision, append(AuditArtifact(d)) PROVE StoreOK'
  BY <1>e, PlainType, AppendType DEF AuditArtifact, RecordType
<1>g. BrokerOf[p] # NoBroker => BrokerOf[p] \in Brokers
  BY ProcAssumption
<1>h. ASSUME UNCHANGED <<pc, cycleVars, granted, target>> PROVE CycleOK' /\ Shape'
  BY <1>h DEF CycleOK, Shape
<1>i. ASSUME NEW n \in Nat, audits' = [audits EXCEPT ![p] = n],
             UNCHANGED <<snap, todo, target>>
      PROVE  CommandOK'
  BY <1>i DEF CommandOK
<1>1. CASE ReadCommand(p) \/ Unauthorized(p)
  BY <1>1, <1>b, <1>e, <1>h, <1>i DEF ReadCommand, Unauthorized, FirstAudit, Decision
<1>2. CASE export_audit(p)
  <2>1. StoreOK' /\ BrokerOK' /\ CommandOK'
    BY <1>2, <1>b, <1>d, <1>i DEF export_audit
  <2>2. CycleOK' /\ Shape'
    BY <1>2, GoToType DEF export_audit, CommandPCs, CyclePCs, BrokerPCs
  <2> QED
    BY <2>1, <2>2
<1>3. CASE halt_new_entries(p) \/ resume_new_entries(p)
  <2>1. StoreOK' /\ BrokerOK' /\ CommandOK'
    BY <1>3, <1>b, <1>e, <1>i
       DEF halt_new_entries, resume_new_entries, SwitchCommand, FirstAudit, Decision
  <2>2. CycleOK' /\ Shape'
    BY <1>3, GoToType DEF halt_new_entries, resume_new_entries, SwitchCommand,
       CommandPCs, CyclePCs, BrokerPCs
  <2> QED
    BY <2>1, <2>2
<1>4. CASE RefuseCommand(p)
  <2>1. StoreOK' /\ BrokerOK' /\ CommandOK'
    BY <1>4, <1>b, <1>e, <1>i DEF RefuseCommand, FirstAudit, Decision
  <2>2. CycleOK' /\ Shape'
    BY <1>4, GoToType DEF RefuseCommand, CommandPCs, CyclePCs, BrokerPCs
  <2> QED
    BY <2>1, <2>2
<1>5. CASE cancel_open_orders(p)
  <2>1. StoreOK' /\ BrokerOK'
    BY <1>5, <1>b, <1>d DEF cancel_open_orders
  <2>2. CommandOK'
    BY <1>5, <1>g, OpenOrdersType DEF cancel_open_orders, CommandOK
  <2>3. CycleOK' /\ Shape'
    BY <1>5, <1>g, GoToType DEF cancel_open_orders, CommandPCs, CyclePCs, BrokerPCs
  <2> QED
    BY <2>1, <2>2, <2>3
<1>6. CASE flatten_paper_only(p)
  <2>1. StoreOK' /\ BrokerOK'
    BY <1>6, <1>b, <1>d DEF flatten_paper_only
  <2>2. CommandOK'
    BY <1>6, <1>g, OpenOrdersType DEF flatten_paper_only, CommandOK
  <2>3. CycleOK' /\ Shape'
    BY <1>6, <1>g, GoToType DEF flatten_paper_only, CommandPCs, CyclePCs, BrokerPCs
  <2> QED
    BY <2>1, <2>2, <2>3
<1>7. CASE OpenOrdersRaise(p)
  <2>1. StoreOK' /\ BrokerOK' /\ CommandOK'
    BY <1>7, <1>b, <1>d, <1>i DEF OpenOrdersRaise
  <2>2. CycleOK' /\ Shape'
    BY <1>7, GoToType DEF OpenOrdersRaise, CommandPCs, CyclePCs, BrokerPCs
  <2> QED
    BY <2>1, <2>2
<1>8. CASE ExportDone(p)
  <2>1. StoreOK' /\ BrokerOK' /\ CommandOK'
    BY <1>8, <1>b, <1>e, <1>i DEF ExportDone, FirstAudit, Decision
  <2>2. CycleOK' /\ Shape'
    BY <1>8, GoToType DEF ExportDone, CommandPCs, CyclePCs, BrokerPCs
  <2> QED
    BY <2>1, <2>2
<1>9. CASE ExportRaises(p) \/ PositionsRaise(p) \/ FollowUpRaises(p) \/ CommandRaises(p)
  <2>1. StoreOK' /\ BrokerOK' /\ CommandOK'
    BY <1>9, <1>b, <1>d
       DEF ExportRaises, PositionsRaise, FollowUpRaises, CommandRaises, CommandOK
  <2>2. CycleOK' /\ Shape'
    BY <1>9, GoToType
       DEF ExportRaises, PositionsRaise, FollowUpRaises, CommandRaises, CommandPCs, CyclePCs,
           BrokerPCs
  <2> QED
    BY <2>1, <2>2
<1>10. CASE PersistSwitch(p)
  <2>1. BrokerOK' /\ CommandOK'
    BY <1>10, <1>b DEF PersistSwitch, CommandOK
  <2>2. StoreOK'
    BY <1>10, PlainType, AppendType DEF PersistSwitch, RecordType, Decision
  <2>3. CycleOK' /\ Shape'
    BY <1>10, GoToType DEF PersistSwitch, CommandPCs, CyclePCs, BrokerPCs
  <2> QED
    BY <2>1, <2>2, <2>3
<1>11. CASE record_command_rejection(p) \/ CancelDone(p) \/ FlattenDone(p)
  <2>1. audits[p] + 1 \in Nat
    BY DEF CommandOK
  <2>2. StoreOK' /\ BrokerOK' /\ CommandOK'
    BY <1>11, <1>b, <1>e, <1>i, <2>1
       DEF record_command_rejection, CancelDone, FlattenDone, OneMoreAudit, Decision
  <2>3. CycleOK' /\ Shape'
    BY <1>11, GoToType DEF record_command_rejection, CancelDone, FlattenDone, CommandPCs,
       CyclePCs, BrokerPCs
  <2> QED
    BY <2>2, <2>3
<1>12. CASE CancelResolve(p)
  <2>1. StoreOK' /\ BrokerOK'
    BY <1>12, <1>b, <1>d DEF CancelResolve
  <2>2. CommandOK'
    BY <1>12 DEF CancelResolve, CommandOK
  <2>3. BrokerOf[p] \in Brokers
    BY <1>12 DEF CancelResolve, Shape, BrokerPCs
  <2>4. CASE UNCHANGED pc
    BY <1>12, <1>h, <2>1, <2>2, <2>4 DEF CancelResolve
  <2>5. CASE GoTo(p, "CancelNext") \/ GoTo(p, "CmdReject")
    BY <1>12, <2>1, <2>2, <2>3, <2>5, GoToType
       DEF CancelResolve, CommandPCs, CyclePCs, BrokerPCs
  <2> QED
    BY <1>12, <2>4, <2>5 DEF CancelResolve
<1>13. CASE CancelAtBroker(p)
  <2>1. BrokerOf[p] \in Brokers /\ pc[p] = "CancelNext" /\ todo[p] \subseteq Fills
    BY <1>13 DEF CancelAtBroker, Shape, BrokerPCs, CommandOK
  <2>2. PICK f \in todo[p] : \E o \in CancelOutcomes(BrokerOf[p], f.key) :
            /\ cancel_order(BrokerOf[p], f.key, o)
            /\ IF CancelConfirmed(f, o)
               THEN /\ GoTo(p, "CancelReport")
                    /\ target' = [target EXCEPT ![p] = CancelResponse(f, o)]
                    /\ todo' = [todo EXCEPT ![p] = @ \ {f}]
               ELSE GoTo(p, "CmdReject") /\ UNCHANGED <<target, todo>>
    BY <1>13 DEF CancelAtBroker
  <2>3. f \in Fills /\ f.key \in Keys
    BY <2>1 DEF Fills
  <2>4. BrokerOK'
    <3>1. PICK o \in CancelOutcomes(BrokerOf[p], f.key) : cancel_order(BrokerOf[p], f.key, o)
      BY <2>2
    <3>2. o.order \in Order \cup {NoOrder}
      BY <2>1, <2>3, CancelOutcomeType
    <3> QED
      BY <1>13, <2>1, <2>3, <3>1, <3>2 DEF BrokerOK, cancel_order, CancelAtBroker
  <2>5. StoreOK' /\ CommandOK'
    BY <1>13, <1>d, <2>1, <2>2, <2>3, CancelResponseType DEF CancelAtBroker, CommandOK
  <2>6. CycleOK'
    BY <1>13, <2>2 DEF CancelAtBroker, CycleOK, GoTo, CommandPCs
  <2>7. Shape'
    <3>1. \/ pc' = [pc EXCEPT ![p] = "CmdReject"] /\ UNCHANGED target
          \/ /\ pc' = [pc EXCEPT ![p] = "CancelReport"]
             /\ \E r \in Fills : /\ r.life = "CANCELLED"
                                /\ target' = [target EXCEPT ![p] = r]
      BY <2>1, <2>2, <2>3, CancelResponseType DEF GoTo
    <3> QED
      BY <1>13, <2>1, <3>1
         DEF CancelAtBroker, Shape, CyclePCs, BrokerPCs, CycleOK, CommandOK
  <2> QED
    BY <2>4, <2>5, <2>6, <2>7
<1>14. CASE CancelReport(p)
  <2>1. target[p] \in Fills /\ BrokerOf[p] \in Brokers
    BY <1>14 DEF CancelReport, Shape, BrokerPCs
  <2>2. StoreOK'
    BY <1>14, <2>1, AppendType, ReportEventType DEF CancelReport, Fills, OrderLifecycleState
  <2>3. BrokerOK' /\ CommandOK'
    BY <1>14, <1>b DEF CancelReport, CommandOK
  <2>4. CycleOK' /\ Shape'
    BY <1>14, <2>1 DEF CancelReport, CycleOK, Shape, GoTo, CyclePCs, BrokerPCs, CommandPCs
  <2> QED
    BY <2>2, <2>3, <2>4
<1>15. CASE CancelReportRaises(p)
  <2>1. StoreOK' /\ BrokerOK' /\ CommandOK'
    BY <1>15, <1>b, <1>d DEF CancelReportRaises, CommandOK
  <2>2. CycleOK' /\ Shape'
    BY <1>15 DEF CancelReportRaises, CycleOK, Shape, GoTo, CyclePCs, BrokerPCs, CommandPCs
  <2> QED
    BY <2>1, <2>2
<1>16. CASE RejectCommand(p)
  <2>1. StoreOK' /\ BrokerOK' /\ CommandOK'
    BY <1>16, <1>b, <1>e DEF RejectCommand, ForgetOrders, CommandOK, OneMoreAudit, Decision
  <2>2. CycleOK' /\ Shape'
    BY <1>16, GoToType DEF RejectCommand, CommandPCs, CyclePCs, BrokerPCs
  <2> QED
    BY <2>1, <2>2
<1>17. CASE FlattenAtBroker(p)
  <2>1. BrokerOf[p] \in Brokers /\ pc[p] = "FlattenNext" /\ todo[p] \subseteq Fills
    BY <1>17 DEF FlattenAtBroker, Shape, BrokerPCs, CommandOK
  <2>2. PICK f \in todo[p] : \E o \in CancelOutcomes(BrokerOf[p], f.key) :
            /\ cancel_order(BrokerOf[p], f.key, o)
            /\ todo' = [todo EXCEPT ![p] = @ \ {f}]
            /\ GoTo(p, IF o.reply = "ack" THEN "FlattenNext" ELSE "CmdReject")
    BY <1>17 DEF FlattenAtBroker
  <2>3. f \in Fills /\ f.key \in Keys
    BY <2>1 DEF Fills
  <2>4. BrokerOK'
    <3>1. PICK o \in CancelOutcomes(BrokerOf[p], f.key) : cancel_order(BrokerOf[p], f.key, o)
      BY <2>2
    <3>2. o.order \in Order \cup {NoOrder}
      BY <2>1, <2>3, CancelOutcomeType
    <3> QED
      BY <1>17, <2>1, <2>3, <3>1, <3>2 DEF BrokerOK, cancel_order, FlattenAtBroker
  <2>5. StoreOK' /\ CommandOK'
    BY <1>17, <1>d, <2>2, <2>3 DEF FlattenAtBroker, CommandOK
  <2>6. CycleOK' /\ Shape'
    BY <1>17, <2>1, <2>2, GoToType DEF FlattenAtBroker, CommandPCs, CyclePCs, BrokerPCs
  <2> QED
    BY <2>4, <2>5, <2>6
<1>18. CASE AuditRaises(p)
  <2>1. StoreOK' /\ BrokerOK' /\ CommandOK'
    BY <1>18, <1>b, <1>d DEF AuditRaises, ForgetOrders, CommandOK
  <2>2. CycleOK' /\ Shape'
    BY <1>18, GoToType DEF AuditRaises, CommandPCs, CyclePCs, BrokerPCs
  <2> QED
    BY <2>1, <2>2
<1> QED
  BY <1>1, <1>2, <1>3, <1>4, <1>5, <1>6, <1>7, <1>8, <1>9, <1>10, <1>11, <1>12, <1>13,
     <1>14, <1>15, <1>16, <1>17, <1>18 DEF StartCommand, CommandStep

\* A crash empties the process's memory and, for a fake, its broker's.
LEMMA CrashType ==
    ASSUME TypeOK, Shape, NEW p \in Procs, Crash(p) PROVE TypeOK' /\ Shape'
<1> USE DEF TypeOK
<1>1. StoreOK' /\ BoundsOK'
  BY DEF Crash, StoreOK, BoundsOK
<1>2. BrokerOK'
  BY DEF Crash, BrokerOK
<1>3. CommandOK'
  BY DEF Crash, CommandOK
<1>4. CycleOK' /\ Shape'
  BY ForgetType DEF Crash, CommandOK
<1> QED
  BY <1>1, <1>2, <1>3, <1>4

\* A fill at a remote adapter.
LEMMA RemoteFillType ==
    ASSUME TypeOK, Shape, NEW b \in Brokers, NEW k \in Keys, RemoteProgress(b, k)
    PROVE  TypeOK' /\ Shape'
<1> USE DEF TypeOK
<1>1. StoreOK' /\ BoundsOK' /\ CommandOK' /\ CycleOK' /\ Shape'
  BY DEF RemoteProgress, StoreOK, BoundsOK, CommandOK, CycleOK, Shape
<1>2. book[b][k] \in Order
  BY DEF RemoteProgress, RemoteFill, OpenOrders, BrokerOK
<1>3. {"FILLED", "PARTIAL_FILL"} \subseteq OrderLifecycleState
  BY DEF OrderLifecycleState, NON_TERMINAL_LIFECYCLE
<1>4. PICK o \in Order : book' = [book EXCEPT ![b][k] = o] /\ UNCHANGED placed
  <2> DEFINE held == book[b][k]
             life == IF held.filled + 1 = Requested(held.intent)
                     THEN "FILLED" ELSE "PARTIAL_FILL"
             after == [intent |-> held.intent, life |-> life, filled |-> held.filled + 1]
  <2>1. book' = [book EXCEPT ![b][k] = after] /\ UNCHANGED placed
    BY DEF RemoteProgress, RemoteFill
  <2>2. life \in OrderLifecycleState
    BY <1>3
  <2> HIDE DEF life
  <2>3. after \in Order
    BY <1>2, <2>2 DEF Order
  <2> QED
    BY <2>1, <2>3
<1>5. BrokerOK'
  BY <1>4 DEF BrokerOK
<1> QED
  BY <1>1, <1>5

\* The empty store, idle processes and empty brokers are well typed.
LEMMA TypeInit == Init => TypeOK /\ Shape
<1> SUFFICES ASSUME Init PROVE TypeOK /\ Shape
  OBVIOUS
<1>1. StoreOK /\ BrokerOK /\ CommandOK /\ BoundsOK
  BY DEF Init, ControlInit, StoreOK, BrokerOK, CommandOK, BoundsOK
<1>2. CycleOK
  BY AttemptAssumption DEF Init, CycleInit, CycleOK, NoTally
<1>3. Shape
  BY DEF Init, CycleInit, Shape, CyclePCs, BrokerPCs
<1> QED
  BY <1>1, <1>2, <1>3 DEF TypeOK

\* Every step keeps every variable in its domain.
LEMMA TypeNext == TypeOK /\ Shape /\ [Next]_vars => TypeOK' /\ Shape'
<1> SUFFICES ASSUME TypeOK, Shape, [Next]_vars PROVE TypeOK' /\ Shape'
  OBVIOUS
<1>1. ASSUME NEW p \in Procs, StartJob(p) PROVE TypeOK' /\ Shape'
  <2>1. BoundsOK'
    BY <1>1 DEF StartJob, TypeOK, BoundsOK
  <2>2. StoreOK' /\ BrokerOK' /\ CycleOK' /\ CommandOK' /\ Shape'
    BY <1>1, StartCycleType, CommandType DEF StartJob
  <2> QED
    BY <2>1, <2>2 DEF TypeOK
<1>2. ASSUME NEW p \in Procs, RunCycle(p) PROVE TypeOK' /\ Shape'
  BY <1>2, CycleStepType DEF RunCycle
<1>3. ASSUME NEW p \in Procs, RunCommand(p) PROVE TypeOK' /\ Shape'
  <2>1. BoundsOK'
    BY <1>3 DEF RunCommand, TypeOK, BoundsOK
  <2>2. StoreOK' /\ BrokerOK' /\ CycleOK' /\ CommandOK' /\ Shape'
    BY <1>3, CommandType DEF RunCommand
  <2> QED
    BY <2>1, <2>2 DEF TypeOK
<1>4. CASE UNCHANGED vars
  BY <1>4 DEF vars, TypeOK, StoreOK, BrokerOK, CycleOK, CommandOK, BoundsOK, Shape
<1> QED
  BY <1>1, <1>2, <1>3, <1>4, CrashType, RemoteFillType DEF Next, Step, Rest

\* Type correctness of the deployment: every variable stays in its domain, and the local
\* values a step of the cycle or of a command reads are there when it reads them.
THEOREM TypeCorrect == Spec => [](TypeOK /\ Shape)
<1>1. Init => TypeOK /\ Shape
  BY TypeInit
<1>2. TypeOK /\ Shape /\ [Next]_vars => (TypeOK /\ Shape)'
  BY TypeNext
<1> QED
  BY <1>1, <1>2, PTL DEF Spec
-----------------------------------------------------------------------------
(* What an append does to the reads restart recovery and the commands make. *)

\* An append adds one row at the end and keeps the others.
LEMMA AppendRows ==
    ASSUME StoreOK, NEW e \in StoredEvent, append(e)
    PROVE  /\ Len(log) \in Nat /\ Len(log') = Len(log) + 1
           /\ \A i \in 1..Len(log) : log'[i] = log[i]
           /\ log'[Len(log) + 1] = e
BY AppendProperties, LenProperties DEF StoreOK, append

\* Rows that are neither attempts nor reports are invisible to all of them.
LEMMA AppendOther ==
    ASSUME StoreOK, NEW e \in StoredEvent, append(e), NEW k,
           e.type \notin {"BROKER_SUBMIT_INTENT", "EXECUTION_REPORT"}
    PROVE  /\ SubmitsOf(log', k) = SubmitsOf(log, k)
           /\ ReportsOf(log', k) = ReportsOf(log, k)
           /\ HasTerminalReport(log', k) <=> HasTerminalReport(log, k)
<1>1. SubmitsOf(log', k) = SubmitsOf(log, k)
  BY AppendRows DEF SubmitsOf
<1>2. ReportsOf(log', k) = ReportsOf(log, k)
  BY AppendRows DEF ReportsOf
<1>3. \A i \in ReportsOf(log, k) : log'[i] = log[i]
  BY AppendRows DEF ReportsOf
<1> QED
  BY <1>1, <1>2, <1>3 DEF HasTerminalReport, LatestReport

\* An attempt shows up under its own key and changes no report.
LEMMA AppendSubmit ==
    ASSUME StoreOK, NEW i \in Intents, append(SubmitEvent(i)), NEW k
    PROVE  /\ SubmitsOf(log', k) # {} <=> SubmitsOf(log, k) # {} \/ k = KeyOf(i)
           /\ ReportsOf(log', k) = ReportsOf(log, k)
           /\ HasTerminalReport(log', k) <=> HasTerminalReport(log, k)
<1>1. SubmitEvent(i) \in StoredEvent
  BY SubmitEventType
<1>2. /\ SubmitEvent(i).type = "BROKER_SUBMIT_INTENT"
      /\ SubmitEvent(i).key = KeyOf(i)
  BY DEF SubmitEvent
<1>3. /\ Len(log) \in Nat /\ Len(log') = Len(log) + 1
      /\ \A j \in 1..Len(log) : log'[j] = log[j]
      /\ log'[Len(log) + 1] = SubmitEvent(i)
  BY <1>1, AppendRows
<1>4. SubmitsOf(log', k) =
          SubmitsOf(log, k) \cup (IF k = KeyOf(i) THEN {Len(log) + 1} ELSE {})
  BY <1>2, <1>3 DEF SubmitsOf
<1>5. ReportsOf(log', k) = ReportsOf(log, k)
  BY <1>2, <1>3 DEF ReportsOf
<1>6. \A j \in ReportsOf(log, k) : log'[j] = log[j]
  BY <1>3 DEF ReportsOf
<1> QED
  BY <1>4, <1>5, <1>6 DEF HasTerminalReport, LatestReport

\* A report is the latest one of its key; nothing else moves.
LEMMA AppendReportRow ==
    ASSUME StoreOK, NEW key \in Keys, NEW life \in OrderLifecycleState, NEW n \in Nat,
           append(ReportEvent(key, life, n)), NEW k
    PROVE  /\ SubmitsOf(log', k) = SubmitsOf(log, k)
           /\ ReportsOf(log', k) # {} <=> ReportsOf(log, k) # {} \/ k = key
           /\ HasTerminalReport(log', k) <=>
                 IF k = key THEN life \notin NON_TERMINAL_LIFECYCLE
                 ELSE HasTerminalReport(log, k)
<1> DEFINE new == Len(log) + 1
<1>1. ReportEvent(key, life, n) \in StoredEvent
  BY ReportEventType
<1>2. /\ ReportEvent(key, life, n).type = "EXECUTION_REPORT"
      /\ ReportEvent(key, life, n).key = key
      /\ ReportEvent(key, life, n).life = life
  BY DEF ReportEvent
<1>3. /\ Len(log) \in Nat /\ Len(log') = new
      /\ \A j \in 1..Len(log) : log'[j] = log[j]
      /\ log'[new] = ReportEvent(key, life, n)
  BY <1>1, AppendRows
<1>4. SubmitsOf(log', k) = SubmitsOf(log, k)
  BY <1>2, <1>3 DEF SubmitsOf
<1>5. ReportsOf(log', k) =
          ReportsOf(log, k) \cup (IF k = key THEN {new} ELSE {})
  BY <1>2, <1>3 DEF ReportsOf
<1>6. \A j \in ReportsOf(log, k) : j \in 1..Len(log) /\ log'[j] = log[j]
  BY <1>3 DEF ReportsOf
<1>7. CASE k = key
  <2>1. new \in ReportsOf(log', k) /\ \A j \in ReportsOf(log', k) : j <= new
    BY <1>3, <1>5, <1>6, <1>7
  <2>2. \A j : LatestReport(log', k, j) <=> j = new
    BY <1>3, <1>5, <1>6, <2>1 DEF LatestReport
  <2>3. HasTerminalReport(log', k) <=> life \notin NON_TERMINAL_LIFECYCLE
    BY <1>2, <1>3, <2>1, <2>2 DEF HasTerminalReport
  <2> QED
    BY <1>4, <1>5, <1>7, <2>3
<1>8. CASE k # key
  <2>1. HasTerminalReport(log', k) <=> HasTerminalReport(log, k)
    BY <1>5, <1>6, <1>8 DEF HasTerminalReport, LatestReport
  <2> QED
    BY <1>4, <1>5, <1>8, <2>1
<1> QED
  BY <1>7, <1>8
-----------------------------------------------------------------------------
(* The invariant of the submit path. *)

\* The store answers the same questions as before.
SameAnswers ==
    \A k \in Keys :
        /\ SubmitsOf(log', k) # {} <=> SubmitsOf(log, k) # {}
        /\ ReportsOf(log', k) # {} <=> ReportsOf(log, k) # {}
        /\ HasTerminalReport(log', k) <=> HasTerminalReport(log, k)

\* The brokers hold no order, and expose no key, that they did not before.
NothingNew ==
    /\ placed' = placed
    /\ \A b \in Brokers, k \in Keys : book'[b][k] # NoOrder => book[b][k] # NoOrder
    /\ Exposed' \subseteq Exposed

\* Nobody enters a step that holds a key, and whoever is in one keeps its key.
NobodyEnters ==
    \A q \in Procs :
        /\ pc'[q] \in {"Submit", "Report"} =>
               pc'[q] = pc[q] /\ intent'[q] = intent[q] /\ fill'[q] = fill[q]
        /\ pc'[q] = "CancelReport" => pc[q] = "CancelReport" /\ target'[q] = target[q]
        /\ pc'[q] \in {"CancelResolve", "CancelNext", "CancelReport"} =>
               \A f \in todo'[q] : ReportsOf(log', f.key) # {}

QuietStep == SameAnswers /\ NothingNew /\ NobodyEnters

\* A step that does none of these preserves the invariant.
LEMMA Quiet ==
    ASSUME TypeOK, Shape, OrderInv, SameAnswers, NothingNew, NobodyEnters
    PROVE  OrderInv'
<1> USE DEF Submitted, Reported, Closed
<1>1. \A q \in Procs : pc[q] \in {"Submit", "Report"} => KeyOf(intent[q]) \in Keys
  BY KeyType DEF Shape
<1>2. \A q \in Procs : pc[q] = "CancelReport" => target[q].key \in Keys
  BY DEF Shape, Fills
<1>3. AttemptInFlight'
  BY <1>1 DEF OrderInv, AttemptInFlight, SameAnswers, NothingNew, NobodyEnters
<1>4. AnswerInFlight'
  BY <1>1 DEF OrderInv, AnswerInFlight, SameAnswers, NothingNew, NobodyEnters
<1>5. KeyOwned'
  BY DEF OrderInv, KeyOwned, NobodyEnters
<1>6. PlacedOnRecord'
  BY DEF OrderInv, PlacedOnRecord, SameAnswers, NothingNew
<1>7. HeldOnce'
  BY DEF OrderInv, HeldOnce, NothingNew
<1>8. ClosedNotExposed'
  BY DEF OrderInv, ClosedNotExposed, SameAnswers, NothingNew
<1>9. CancelInFlight'
  BY <1>2 DEF OrderInv, CancelInFlight, SameAnswers, NothingNew, NobodyEnters
<1> QED
  BY <1>3, <1>4, <1>5, <1>6, <1>7, <1>8, <1>9 DEF OrderInv

\* An artifact or another plain row, or no row, leaves the answers as they are.
LEMMA PlainAnswers ==
    ASSUME StoreOK, NEW t \in RecordType, NEW d \in Decision, append(Plain(t, d)),
           t \notin {"BROKER_SUBMIT_INTENT", "EXECUTION_REPORT"}
    PROVE  SameAnswers
<1>1. Plain(t, d) \in StoredEvent /\ Plain(t, d).type = t
  BY PlainType DEF Plain
<1> QED
  BY <1>1, AppendOther DEF SameAnswers

\* The case of an AuditArtifact.
LEMMA ArtifactAnswers ==
    ASSUME StoreOK, NEW d \in Decision, append(AuditArtifact(d)) PROVE SameAnswers
<1>1. "AUDIT_ARTIFACT" \in RecordType
  BY DEF RecordType
<1> QED
  BY <1>1, PlainAnswers DEF AuditArtifact

\* The case of a step that does not write to the store.
LEMMA SameLogAnswers == ASSUME UNCHANGED log PROVE SameAnswers
BY DEF SameAnswers

\* A broker that was not called exposes what it did.
LEMMA SameBook == ASSUME UNCHANGED <<book, placed>> PROVE NothingNew
BY DEF NothingNew, Exposed, OpenOrders

\* The attempt becomes durable: the key was free, so nobody else holds it and no broker
\* has an order for it.
LEMMA PersistAttemptInv ==
    ASSUME TypeOK, Shape, OrderInv, NEW p \in Procs, PersistAttempt(p),
           UNCHANGED <<commandVars, bounds>>
    PROVE  OrderInv'
<1> USE DEF Submitted, Reported, Closed
<1> DEFINE key == KeyOf(intent[p])
<1>1. /\ pc[p] = "Persist" /\ intent[p] \in Intents /\ key \in Keys
      /\ pc' = [pc EXCEPT ![p] = "Submit"]
      /\ UNCHANGED <<intent, fill, todo, target, book, placed>>
      /\ pc \in [Procs -> {"Idle"} \cup CyclePCs \cup CommandPCs]
  BY KeyType DEF PersistAttempt, Shape, GoTo, TypeOK, CycleOK
<1>2. SubmitsOf(log, key) = {}
  BY DEF PersistAttempt, record_submit_attempt, DuplicateIdempotencyKey
<1>3. \A k : /\ SubmitsOf(log', k) # {} <=> SubmitsOf(log, k) # {} \/ k = key
             /\ ReportsOf(log', k) = ReportsOf(log, k)
             /\ HasTerminalReport(log', k) <=> HasTerminalReport(log, k)
  BY <1>1, AppendSubmit DEF PersistAttempt, record_submit_attempt, TypeOK
<1>4. Exposed' = Exposed
  BY <1>1 DEF Exposed, OpenOrders
<1>5. \A q \in Procs : pc[q] \in {"Submit", "Report"} => KeyOf(intent[q]) # key
  BY <1>2 DEF OrderInv, AttemptInFlight, AnswerInFlight
<1>6. placed[key] = 0 /\ ReportsOf(log, key) = {}
  BY <1>1, <1>2 DEF OrderInv, PlacedOnRecord
<1>7. AttemptInFlight'
  BY <1>1, <1>3, <1>6 DEF OrderInv, AttemptInFlight
<1>8. AnswerInFlight'
  BY <1>1, <1>3, <1>4 DEF OrderInv, AnswerInFlight
<1>9. KeyOwned'
  BY <1>1, <1>5 DEF OrderInv, KeyOwned
<1>10. PlacedOnRecord'
  BY <1>1, <1>3 DEF OrderInv, PlacedOnRecord
<1>11. HeldOnce' /\ ClosedNotExposed'
  BY <1>1, <1>3, <1>4 DEF OrderInv, HeldOnce, ClosedNotExposed
<1>12. CancelInFlight'
  BY <1>1, <1>3, <1>4 DEF OrderInv, CancelInFlight
<1> QED
  BY <1>7, <1>8, <1>9, <1>10, <1>11, <1>12 DEF OrderInv

\* The broker call: the first and only order of the key.
LEMMA SubmitToBrokerInv ==
    ASSUME TypeOK, Shape, OrderInv, NEW p \in Procs, SubmitToBroker(p),
           UNCHANGED <<commandVars, bounds>>
    PROVE  OrderInv'
<1> USE DEF Submitted, Reported, Closed
<1> DEFINE key == KeyOf(intent[p])
           b == BrokerOf[p]
<1>1. /\ pc[p] = "Submit" /\ intent[p] \in Intents /\ key \in Keys /\ b \in Brokers
      /\ UNCHANGED <<log, intent, todo, target>>
      /\ pc \in [Procs -> {"Idle"} \cup CyclePCs \cup CommandPCs]
      /\ fill \in [Procs -> Order \cup {NoFill}]
      /\ placed \in [Keys -> Nat]
      /\ book \in [Brokers -> [Keys -> Order \cup {NoOrder}]]
  BY KeyType DEF SubmitToBroker, Shape, CyclePCs, TypeOK, CycleOK, BrokerOK
<1>2. PICK o \in SubmitOutcomes(b, intent[p]) :
          /\ submit_order(b, intent[p], o)
          /\ fill' = [fill EXCEPT ![p] = IF o.reply = "ack" THEN o.order ELSE NoFill]
          /\ GoTo(p, IF o.reply = "ack" THEN "Report" ELSE "Failed")
  BY DEF SubmitToBroker
<1>3. /\ o.reply \in {"ack", "error"} /\ o.order \in Order \cup {NoOrder}
      /\ o.reply = "ack" => o.order \in Order
      /\ NoOrder \notin Order
  BY <1>1, SubmitOutcomeType, CycleNoneAssumption DEF TypeOK
<1>4. SubmitsOf(log, key) # {} /\ ReportsOf(log, key) = {} /\ placed[key] = 0
  BY <1>1 DEF OrderInv, AttemptInFlight
<1>5. \A c \in Brokers : book[c][key] = NoOrder
  BY <1>1, <1>4 DEF OrderInv, HeldOnce
<1>6. /\ book' = [book EXCEPT ![b][key] = o.order]
      /\ placed' = [placed EXCEPT ![key] = IF o.order # NoOrder THEN 1 ELSE 0]
  <2>1. /\ book' = [book EXCEPT ![b][key] = o.order]
        /\ placed' = [placed EXCEPT ![key] =
               IF book[b][key] = NoOrder /\ o.order # NoOrder
               THEN placed[key] + 1 ELSE placed[key]]
    BY <1>2 DEF submit_order
  <2>2. book[b][key] = NoOrder /\ placed[key] + 1 = 1
    BY <1>1, <1>4, <1>5
  <2> QED
    BY <1>4, <2>1, <2>2
<1>7. \A c \in Brokers, k \in Keys :
          book'[c][k] = IF c = b /\ k = key THEN o.order ELSE book[c][k]
  BY <1>1, <1>6
<1>8. /\ Exposed' \subseteq Exposed \cup {key}
      /\ key \in Exposed' => o.order # NoOrder /\ o.order.life \in NON_TERMINAL_LIFECYCLE
  BY <1>1, <1>5, <1>7 DEF Exposed, OpenOrders
<1>9. pc' = [pc EXCEPT ![p] = IF o.reply = "ack" THEN "Report" ELSE "Failed"]
  BY <1>2 DEF GoTo
<1>10. \A q \in Procs : q # p /\ pc[q] \in {"Submit", "Report"} =>
           KeyOf(intent[q]) \in Keys /\ KeyOf(intent[q]) # key
  BY <1>1, KeyType DEF OrderInv, KeyOwned, Shape
<1>11. \A q \in Procs : q # p => pc'[q] = pc[q] /\ fill'[q] = fill[q]
  BY <1>1, <1>2, <1>9
<1>12. /\ pc'[p] \in {"Report", "Failed"}
       /\ pc'[p] = "Report" => o.reply = "ack" /\ fill'[p] = o.order
  BY <1>1, <1>2, <1>9
<1>13. AttemptInFlight'
  BY <1>1, <1>6, <1>10, <1>11, <1>12 DEF OrderInv, AttemptInFlight
<1>14. AnswerInFlight'
  <2>1. ASSUME NEW q \in Procs, pc'[q] = "Report", q # p
        PROVE  /\ SubmitsOf(log', KeyOf(intent'[q])) # {}
               /\ ReportsOf(log', KeyOf(intent'[q])) = {}
               /\ placed'[KeyOf(intent'[q])] = 1
               /\ fill'[q].life \notin NON_TERMINAL_LIFECYCLE =>
                      KeyOf(intent'[q]) \notin Exposed'
    BY <1>1, <1>6, <1>8, <1>10, <1>11, <2>1 DEF OrderInv, AnswerInFlight
  <2>2. ASSUME pc'[p] = "Report"
        PROVE  /\ SubmitsOf(log', KeyOf(intent'[p])) # {}
               /\ ReportsOf(log', KeyOf(intent'[p])) = {}
               /\ placed'[KeyOf(intent'[p])] = 1
               /\ fill'[p].life \notin NON_TERMINAL_LIFECYCLE =>
                      KeyOf(intent'[p]) \notin Exposed'
    BY <1>1, <1>3, <1>4, <1>6, <1>8, <1>12, <2>2
  <2> QED
    BY <2>1, <2>2 DEF AnswerInFlight
<1>15. KeyOwned'
  BY <1>1, <1>10, <1>11, <1>12 DEF OrderInv, KeyOwned
<1>16. PlacedOnRecord'
  <2>1. \A k \in Keys : k # key => placed'[k] = placed[k]
    BY <1>1, <1>6
  <2>2. placed'[key] \in {0, 1}
    BY <1>1, <1>6
  <2> QED
    BY <1>1, <1>4, <2>1, <2>2 DEF OrderInv, PlacedOnRecord
<1>17. HeldOnce'
  BY <1>1, <1>5, <1>6, <1>7 DEF OrderInv, HeldOnce
<1>18. ClosedNotExposed'
  <2>1. ~HasTerminalReport(log, key)
    BY <1>4 DEF HasTerminalReport
  <2> QED
    BY <1>1, <1>8, <2>1 DEF OrderInv, ClosedNotExposed
<1>19. CancelInFlight'
  BY <1>1, <1>4, <1>8, <1>11, <1>12 DEF OrderInv, CancelInFlight
<1> QED
  BY <1>13, <1>14, <1>15, <1>16, <1>17, <1>18, <1>19 DEF OrderInv

\* The broker's answer is recorded.
LEMMA AppendReportInv ==
    ASSUME TypeOK, Shape, OrderInv, NEW p \in Procs, AppendReport(p),
           UNCHANGED <<commandVars, bounds>>
    PROVE  OrderInv'
<1> USE DEF Submitted, Reported, Closed
<1> DEFINE key == KeyOf(intent[p])
           life == fill[p].life
<1>1. /\ pc[p] = "Report" /\ intent[p] \in Intents /\ key \in Keys
      /\ fill[p] \in Order /\ life \in OrderLifecycleState /\ fill[p].filled \in Nat
      /\ UNCHANGED <<book, placed, todo, target>>
      /\ pc \in [Procs -> {"Idle"} \cup CyclePCs \cup CommandPCs]
  BY KeyType DEF AppendReport, Shape, Order, TypeOK, CycleOK
<1>2. \A k : /\ SubmitsOf(log', k) = SubmitsOf(log, k)
             /\ ReportsOf(log', k) # {} <=> ReportsOf(log, k) # {} \/ k = key
             /\ HasTerminalReport(log', k) <=>
                   IF k = key THEN life \notin NON_TERMINAL_LIFECYCLE
                   ELSE HasTerminalReport(log, k)
  BY <1>1, AppendReportRow DEF AppendReport, TypeOK
<1>3. /\ ReportsOf(log, key) = {} /\ placed[key] = 1
      /\ life \notin NON_TERMINAL_LIFECYCLE => key \notin Exposed
  BY <1>1 DEF OrderInv, AnswerInFlight
<1>4. Exposed' = Exposed
  BY <1>1 DEF Exposed, OpenOrders
<1>5. /\ pc'[p] \in {"Finish", "Request"}
      /\ \A q \in Procs : q # p =>
             pc'[q] = pc[q] /\ intent'[q] = intent[q] /\ fill'[q] = fill[q]
  BY <1>1 DEF AppendReport, NextItem, TypeOK, CycleOK
<1>6. \A q \in Procs : q # p /\ pc[q] \in {"Submit", "Report"} =>
          KeyOf(intent[q]) \in Keys /\ KeyOf(intent[q]) # key
  BY <1>1, KeyType DEF OrderInv, KeyOwned, Shape
<1>7. AttemptInFlight' /\ AnswerInFlight'
  BY <1>1, <1>2, <1>4, <1>5, <1>6 DEF OrderInv, AttemptInFlight, AnswerInFlight
<1>8. KeyOwned'
  BY <1>5 DEF OrderInv, KeyOwned
<1>9. PlacedOnRecord' /\ HeldOnce'
  BY <1>1, <1>2, <1>3 DEF OrderInv, PlacedOnRecord, HeldOnce
<1>10. ClosedNotExposed'
  BY <1>2, <1>3, <1>4 DEF OrderInv, ClosedNotExposed
<1>11. CancelInFlight'
  BY <1>1, <1>2, <1>3, <1>4, <1>5 DEF OrderInv, CancelInFlight
<1> QED
  BY <1>7, <1>8, <1>9, <1>10, <1>11 DEF OrderInv

\* Removing the exposure of one key at one broker.
LEMMA CancelShrinks ==
    ASSUME TypeOK, NEW b \in Brokers, NEW k \in Keys, NEW o \in CancelOutcomes(b, k),
           cancel_order(b, k, o), UNCHANGED placed
    PROVE  NothingNew
<1>1. book \in [Brokers -> [Keys -> Order \cup {NoOrder}]]
  BY DEF TypeOK, BrokerOK
<1>2. /\ o.order = NoOrder <=> book[b][k] = NoOrder
      /\ o.order # book[b][k] => o.order.life = "CANCELLED"
  BY CancelOutcomeType DEF TypeOK
<1>3. \A c \in Brokers, j \in Keys :
          book'[c][j] = IF c = b /\ j = k THEN o.order ELSE book[c][j]
  BY <1>1 DEF cancel_order
<1>4. "CANCELLED" \notin NON_TERMINAL_LIFECYCLE
  BY DEF NON_TERMINAL_LIFECYCLE
<1>5. Exposed' \subseteq Exposed
  BY <1>2, <1>3, <1>4 DEF Exposed, OpenOrders
<1> QED
  BY <1>2, <1>3, <1>5 DEF NothingNew

\* The confirmed cancel: the order was open, so its record was not closed and no other
\* command is reporting it; afterwards no broker can execute it.
LEMMA CancelAtBrokerInv ==
    ASSUME TypeOK, Shape, OrderInv, NEW p \in Procs, CancelAtBroker(p), UNCHANGED bounds
    PROVE  OrderInv'
<1> USE DEF Submitted, Reported, Closed
<1> DEFINE b == BrokerOf[p]
<1>1. /\ pc[p] = "CancelNext" /\ b \in Brokers /\ todo[p] \subseteq Fills
      /\ UNCHANGED <<log, intent, fill, placed>>
      /\ pc \in [Procs -> {"Idle"} \cup CyclePCs \cup CommandPCs]
      /\ todo \in [Procs -> SUBSET Fills] /\ target \in [Procs -> Fills \cup {NoTarget}]
      /\ book \in [Brokers -> [Keys -> Order \cup {NoOrder}]]
  BY DEF CancelAtBroker, Shape, BrokerPCs, TypeOK, CycleOK, CommandOK, BrokerOK
<1>2. PICK f \in todo[p] : \E o \in CancelOutcomes(b, f.key) :
          /\ cancel_order(b, f.key, o)
          /\ IF CancelConfirmed(f, o)
             THEN /\ GoTo(p, "CancelReport")
                  /\ target' = [target EXCEPT ![p] = CancelResponse(f, o)]
                  /\ todo' = [todo EXCEPT ![p] = @ \ {f}]
             ELSE GoTo(p, "CmdReject") /\ UNCHANGED <<target, todo>>
  BY DEF CancelAtBroker
<1>3. PICK o \in CancelOutcomes(b, f.key) :
          /\ cancel_order(b, f.key, o)
          /\ IF CancelConfirmed(f, o)
             THEN /\ GoTo(p, "CancelReport")
                  /\ target' = [target EXCEPT ![p] = CancelResponse(f, o)]
                  /\ todo' = [todo EXCEPT ![p] = @ \ {f}]
             ELSE GoTo(p, "CmdReject") /\ UNCHANGED <<target, todo>>
  BY <1>2
<1>4. f.key \in Keys /\ ReportsOf(log, f.key) # {}
  BY <1>1 DEF Fills, OrderInv, CancelInFlight
<1>5. NothingNew /\ SameAnswers
  BY <1>1, <1>3, <1>4, CancelShrinks, SameLogAnswers
<1>6. CASE ~CancelConfirmed(f, o)
  <2>1. NobodyEnters
    BY <1>1, <1>3, <1>6 DEF NobodyEnters, GoTo, OrderInv, CancelInFlight
  <2> QED
    BY <1>5, <2>1, Quiet
<1>7. CASE CancelConfirmed(f, o)
  <2>1. f.key \in OpenOrders(b) /\ o.order.life = "CANCELLED"
    BY <1>7 DEF CancelConfirmed, CancelOutcomes
  <2>2. f.key \in Exposed /\ ~HasTerminalReport(log, f.key) /\ book[b][f.key] # NoOrder
    BY <1>1, <1>4, <2>1 DEF Exposed, OpenOrders, OrderInv, ClosedNotExposed
  <2>3. \A c \in Brokers : c # b => book[c][f.key] = NoOrder
    BY <1>1, <1>4, <2>2 DEF OrderInv, HeldOnce
  <2>4. \A c \in Brokers, j \in Keys :
            book'[c][j] = IF c = b /\ j = f.key THEN o.order ELSE book[c][j]
    BY <1>1, <1>3, <1>4 DEF cancel_order
  <2>5. f.key \notin Exposed'
    BY <1>1, <1>4, <2>1, <2>3, <2>4 DEF Exposed, OpenOrders, NON_TERMINAL_LIFECYCLE
  <2>6. \A q \in Procs : pc[q] = "CancelReport" => target[q].key # f.key
    BY <2>2 DEF OrderInv, CancelInFlight
  <2>7. /\ pc' = [pc EXCEPT ![p] = "CancelReport"]
        /\ target' = [target EXCEPT ![p] = CancelResponse(f, o)]
        /\ todo' = [todo EXCEPT ![p] = @ \ {f}]
    BY <1>3, <1>7 DEF GoTo
  <2>8. \A q \in Procs : q # p =>
            pc'[q] = pc[q] /\ target'[q] = target[q] /\ todo'[q] = todo[q]
    BY <1>1, <2>7
  <2>9. pc'[p] = "CancelReport" /\ target'[p].key = f.key /\ todo'[p] \subseteq todo[p]
    BY <1>1, <1>7, <2>7, CancelResponseType DEF TypeOK
  <2>10. AttemptInFlight' /\ KeyOwned'
    BY <1>1, <2>8, <2>9 DEF OrderInv, AttemptInFlight, KeyOwned
  <2>13. AnswerInFlight'
    BY <1>1, <1>5, <2>8, <2>9 DEF OrderInv, AnswerInFlight, NothingNew
  <2>11. PlacedOnRecord' /\ HeldOnce' /\ ClosedNotExposed'
    BY <1>1, <1>5 DEF OrderInv, PlacedOnRecord, HeldOnce, ClosedNotExposed, NothingNew
  <2>12. CancelInFlight'
    <3>1. ASSUME NEW q \in Procs,
                 pc'[q] \in {"CancelResolve", "CancelNext", "CancelReport"}
          PROVE  \A g \in todo'[q] : ReportsOf(log', g.key) # {}
      BY <1>1, <2>8, <2>9, <3>1 DEF OrderInv, CancelInFlight
    <3>2. ASSUME NEW q \in Procs, pc'[q] = "CancelReport"
          PROVE  /\ ReportsOf(log', target'[q].key) # {}
                 /\ ~HasTerminalReport(log', target'[q].key)
                 /\ target'[q].key \notin Exposed'
      BY <1>1, <1>4, <1>5, <2>2, <2>5, <2>8, <2>9, <3>2
         DEF OrderInv, CancelInFlight, NothingNew
    <3>3. ASSUME NEW q \in Procs, NEW r \in Procs, pc'[q] = "CancelReport",
                 pc'[r] = "CancelReport", target'[r].key = target'[q].key
          PROVE  r = q
      BY <2>6, <2>8, <2>9, <3>3 DEF OrderInv, CancelInFlight
    <3> QED
      BY <3>1, <3>2, <3>3 DEF CancelInFlight
  <2> QED
    BY <2>10, <2>11, <2>12, <2>13 DEF OrderInv
<1> QED
  BY <1>6, <1>7

\* The terminal report of the cancelled order.
LEMMA CancelReportInv ==
    ASSUME TypeOK, Shape, OrderInv, NEW p \in Procs, CancelReport(p), UNCHANGED bounds
    PROVE  OrderInv'
<1> USE DEF Submitted, Reported, Closed
<1> DEFINE key == target[p].key
<1>1. /\ pc[p] = "CancelReport" /\ target[p] \in Fills /\ key \in Keys
      /\ target[p].filled \in Nat /\ "CANCELLED" \in OrderLifecycleState
      /\ target[p].life = "CANCELLED"
      /\ UNCHANGED <<book, placed, todo, intent, fill>>
      /\ pc \in [Procs -> {"Idle"} \cup CyclePCs \cup CommandPCs]
      /\ target \in [Procs -> Fills \cup {NoTarget}]
  BY DEF CancelReport, Shape, Fills, OrderLifecycleState, TypeOK, CycleOK, CommandOK
<1>2. \A k : /\ SubmitsOf(log', k) = SubmitsOf(log, k)
             /\ ReportsOf(log', k) # {} <=> ReportsOf(log, k) # {} \/ k = key
             /\ HasTerminalReport(log', k) <=>
                   IF k = key THEN "CANCELLED" \notin NON_TERMINAL_LIFECYCLE
                   ELSE HasTerminalReport(log, k)
  BY <1>1, AppendReportRow DEF CancelReport, TypeOK
<1>3. /\ ReportsOf(log, key) # {} /\ key \notin Exposed
      /\ \A q \in Procs : pc[q] = "CancelReport" /\ target[q].key = key => q = p
  BY <1>1 DEF OrderInv, CancelInFlight
<1>4. Exposed' = Exposed
  BY <1>1 DEF Exposed, OpenOrders
<1>5. /\ pc'[p] = "CancelNext"
      /\ \A q \in Procs : q # p => pc'[q] = pc[q] /\ target'[q] = target[q]
  BY <1>1 DEF CancelReport, GoTo
<1>6. AttemptInFlight' /\ AnswerInFlight'
  BY <1>1, <1>2, <1>3, <1>4, <1>5 DEF OrderInv, AttemptInFlight, AnswerInFlight
<1>7. KeyOwned'
  BY <1>1, <1>5 DEF OrderInv, KeyOwned
<1>8. PlacedOnRecord' /\ HeldOnce'
  BY <1>1, <1>2, <1>3 DEF OrderInv, PlacedOnRecord, HeldOnce
<1>9. ClosedNotExposed'
  BY <1>2, <1>3, <1>4 DEF OrderInv, ClosedNotExposed
<1>10. CancelInFlight'
  BY <1>1, <1>2, <1>3, <1>4, <1>5 DEF OrderInv, CancelInFlight
<1> QED
  BY <1>6, <1>7, <1>8, <1>9, <1>10 DEF OrderInv

\* One process moves to a step that holds no key; the others stand still.
LEMMA Bystanders ==
    ASSUME TypeOK, OrderInv, SameAnswers, NEW p \in Procs,
           pc'[p] \notin {"Submit", "Report", "CancelResolve", "CancelNext", "CancelReport"},
           \A q \in Procs \ {p} :
               /\ pc'[q] = pc[q] /\ intent'[q] = intent[q] /\ fill'[q] = fill[q]
               /\ target'[q] = target[q] /\ todo'[q] = todo[q]
    PROVE  NobodyEnters
<1>1. \A q \in Procs : todo[q] \subseteq Fills
  BY DEF TypeOK, CommandOK
<1>2. \A q \in Procs, f \in Fills : f \in todo[q] => f.key \in Keys
  BY DEF Fills
<1> QED
  BY <1>1, <1>2 DEF NobodyEnters, OrderInv, CancelInFlight, SameAnswers, Reported

\* The steps of a cycle.
LEMMA CycleStepKind ==
    ASSUME TypeOK, Shape, OrderInv, NEW p \in Procs, CycleStep(p),
           UNCHANGED <<commandVars, bounds>>
    PROVE  QuietStep \/ PersistAttempt(p) \/ SubmitToBroker(p) \/ AppendReport(p)
<1>a. /\ pc \in [Procs -> {"Idle"} \cup CyclePCs \cup CommandPCs] /\ StoreOK
      /\ intent \in [Procs -> Intents \cup {NoIntent}]
      /\ fill \in [Procs -> Order \cup {NoFill}]
  BY DEF TypeOK, CycleOK
<1>b. ASSUME NEW next, GoTo(p, next), UNCHANGED <<cycleVars, book, placed>>, SameAnswers,
             next \notin {"Submit", "Report", "CancelResolve", "CancelNext", "CancelReport"}
      PROVE  QuietStep
  BY <1>a, <1>b, Bystanders, SameBook DEF GoTo, QuietStep
<1>c. ASSUME NEW outcome, NextItem(p, outcome), UNCHANGED <<book, placed>>, SameAnswers
      PROVE  QuietStep
  BY <1>a, <1>c, Bystanders, SameBook DEF NextItem, QuietStep
<1>d. ASSUME Forget(p), UNCHANGED <<log, book, placed>> PROVE QuietStep
  BY <1>a, <1>d, SameLogAnswers, Bystanders, SameBook DEF Forget, QuietStep
<1>1. CASE AuditRequest(p) \/ ValidateApproves(p) \/ MintTicket(p)
  <2>1. SameAnswers
    BY <1>1, <1>a, PlainAnswers
       DEF AuditRequest, ValidateApproves, MintTicket, RecordType, Decision
  <2> QED
    BY <1>1, <1>b, <2>1 DEF AuditRequest, ValidateApproves, MintTicket
<1>2. CASE ValidateRejects(p) \/ DeferNoPrice(p) \/ ConfirmDeclines(p)
           \/ PersistDuplicate(p) \/ AuditFailure(p)
  <2>1. SameAnswers
    BY <1>2, <1>a, ArtifactAnswers
       DEF ValidateRejects, DeferNoPrice, ConfirmDeclines, PersistDuplicate, AuditFailure,
           Decision
  <2> QED
    BY <1>2, <1>c, <2>1
       DEF ValidateRejects, DeferNoPrice, ConfirmDeclines, PersistDuplicate, AuditFailure
<1>3. CASE RouteRaises(p) \/ ConfirmRaises(p) \/ ReportRaises(p)
  BY <1>3, <1>d DEF RouteRaises, ConfirmRaises, ReportRaises
<1>4. ASSUME NEW t \in Tokens, ConfirmAnswers(p, t) PROVE QuietStep
  BY <1>4, <1>a, SameLogAnswers, Bystanders, SameBook DEF ConfirmAnswers, GoTo, QuietStep
<1>5. CASE SubmitRefused(p) \/ FinishCycle(p)
  BY <1>5, <1>b, SameLogAnswers DEF SubmitRefused, FinishCycle
<1> QED
  BY <1>1, <1>2, <1>3, <1>4, <1>5 DEF CycleStep

\* Starting a cycle.
LEMMA StartCycleKind ==
    ASSUME TypeOK, Shape, OrderInv, NEW p \in Procs, NEW batch \in Batches,
           NEW n \in Attempts, StartCycle(p, batch, n), UNCHANGED commandVars
    PROVE  QuietStep
<1>1. SameAnswers
  BY ArtifactAnswers DEF StartCycle, Decision, TypeOK
<1>2. pc \in [Procs -> {"Idle"} \cup CyclePCs \cup CommandPCs]
  BY DEF TypeOK, CycleOK
<1>3. NobodyEnters
  BY <1>1, <1>2, Bystanders DEF StartCycle, GoTo
<1> QED
  BY <1>1, <1>3, SameBook DEF StartCycle, QuietStep

\* The operator commands.
LEMMA CommandKind ==
    ASSUME TypeOK, Shape, OrderInv, NEW p \in Procs,
           StartCommand(p) \/ (CommandStep(p) /\ UNCHANGED bounds)
    PROVE  QuietStep \/ CancelAtBroker(p) \/ CancelReport(p)
<1>a. /\ pc \in [Procs -> {"Idle"} \cup CyclePCs \cup CommandPCs] /\ StoreOK
      /\ todo \in [Procs -> SUBSET Fills] /\ target \in [Procs -> Fills \cup {NoTarget}]
  BY DEF TypeOK, CycleOK, CommandOK
<1>b. ASSUME NEW next, GoTo(p, next), UNCHANGED <<cycleVars, book, placed>>, SameAnswers,
             \A q \in Procs \ {p} : target'[q] = target[q] /\ todo'[q] = todo[q],
             next \notin {"Submit", "Report", "CancelResolve", "CancelNext", "CancelReport"}
      PROVE  QuietStep
  BY <1>a, <1>b, Bystanders, SameBook DEF GoTo, QuietStep
<1>1. CASE ReadCommand(p) \/ Unauthorized(p)
  <2>1. SameAnswers
    BY <1>1, <1>a, ArtifactAnswers DEF ReadCommand, Unauthorized, FirstAudit, Decision
  <2>2. pc[p] = "Idle" /\ UNCHANGED <<pc, intent, fill, target, todo, book, placed>>
    BY <1>1 DEF ReadCommand, Unauthorized
  <2> QED
    BY <2>1, <2>2, Bystanders, SameBook DEF QuietStep
<1>2. CASE \/ export_audit(p) \/ OpenOrdersRaise(p) \/ ExportRaises(p) \/ PositionsRaise(p)
           \/ FollowUpRaises(p) \/ CommandRaises(p)
  BY <1>2, <1>b, SameLogAnswers
     DEF export_audit, OpenOrdersRaise, ExportRaises, PositionsRaise, FollowUpRaises,
         CommandRaises
<1>3. CASE halt_new_entries(p) \/ resume_new_entries(p) \/ RefuseCommand(p) \/ ExportDone(p)
  <2>1. SameAnswers
    BY <1>3, <1>a, ArtifactAnswers
       DEF halt_new_entries, resume_new_entries, SwitchCommand, RefuseCommand, ExportDone,
           FirstAudit, Decision
  <2> QED
    BY <1>3, <1>b, <2>1
       DEF halt_new_entries, resume_new_entries, SwitchCommand, RefuseCommand, ExportDone
<1>4. CASE PersistSwitch(p)
  <2>1. SameAnswers
    BY <1>4, <1>a, PlainAnswers DEF PersistSwitch, RecordType, Decision
  <2> QED
    BY <1>4, <1>b, <2>1 DEF PersistSwitch
<1>5. CASE record_command_rejection(p) \/ CancelDone(p) \/ FlattenDone(p) \/ RejectCommand(p)
  <2>1. SameAnswers
    BY <1>5, <1>a, ArtifactAnswers
       DEF record_command_rejection, CancelDone, FlattenDone, RejectCommand, OneMoreAudit,
           Decision
  <2> QED
    BY <1>5, <1>a, <1>b, <2>1
       DEF record_command_rejection, CancelDone, FlattenDone, RejectCommand, ForgetOrders
<1>6. CASE flatten_paper_only(p)
  BY <1>6, <1>a, <1>b, SameLogAnswers DEF flatten_paper_only
<1>7. CASE cancel_open_orders(p)
  <2>1. SameAnswers /\ NothingNew
    BY <1>7, SameLogAnswers, SameBook DEF cancel_open_orders
  <2>2. NobodyEnters
    BY <1>7, <1>a
       DEF cancel_open_orders, GoTo, NobodyEnters, OrderInv, CancelInFlight, Reported
  <2> QED
    BY <2>1, <2>2 DEF QuietStep
<1>8. CASE CancelResolve(p)
  <2>1. SameAnswers /\ NothingNew
    BY <1>8, SameLogAnswers, SameBook DEF CancelResolve
  <2>2. pc[p] = "CancelResolve" /\ UNCHANGED <<log, intent, fill, target>>
    BY <1>8 DEF CancelResolve
  <2>3. \/ UNCHANGED todo
        \/ \E f \in snap[p] : /\ todo' = [todo EXCEPT ![p] = @ \cup {f}]
                              /\ ReportsOf(log, f.key) # {}
    BY <1>8 DEF CancelResolve, resolve_cancel_identity
  <2>4. \/ UNCHANGED pc
        \/ pc' = [pc EXCEPT ![p] = "CancelNext"]
        \/ pc' = [pc EXCEPT ![p] = "CmdReject"]
    BY <1>8 DEF CancelResolve, GoTo
  <2>5. \A q \in Procs \ {p} : pc'[q] = pc[q] /\ todo'[q] = todo[q]
    BY <1>a, <2>3, <2>4
  <2>6. pc'[p] \in {"CancelResolve", "CancelNext", "CmdReject"}
    BY <1>a, <2>2, <2>4
  <2>7. \A f \in todo'[p] : ReportsOf(log, f.key) # {}
    BY <1>a, <2>2, <2>3 DEF OrderInv, CancelInFlight, Reported
  <2>8. NobodyEnters
    BY <2>2, <2>5, <2>6, <2>7 DEF NobodyEnters, OrderInv, CancelInFlight, Reported
  <2> QED
    BY <2>1, <2>8 DEF QuietStep
<1>9. CASE CancelReportRaises(p)
  BY <1>9, <1>a, <1>b, SameLogAnswers DEF CancelReportRaises
<1>10. CASE FlattenAtBroker(p)
  <2>1. BrokerOf[p] \in Brokers /\ todo[p] \subseteq Fills
    BY <1>10, <1>a DEF FlattenAtBroker, Shape, BrokerPCs
  <2>2. PICK f \in todo[p] : \E o \in CancelOutcomes(BrokerOf[p], f.key) :
            /\ cancel_order(BrokerOf[p], f.key, o)
            /\ todo' = [todo EXCEPT ![p] = @ \ {f}]
            /\ GoTo(p, IF o.reply = "ack" THEN "FlattenNext" ELSE "CmdReject")
    BY <1>10 DEF FlattenAtBroker
  <2>3. f.key \in Keys
    BY <2>1 DEF Fills
  <2>4. UNCHANGED <<log, intent, fill, target, placed>>
    BY <1>10 DEF FlattenAtBroker
  <2>5. SameAnswers /\ NothingNew
    BY <2>1, <2>2, <2>3, <2>4, SameLogAnswers, CancelShrinks
  <2>6. NobodyEnters
    BY <1>a, <2>2, <2>4, <2>5, Bystanders DEF GoTo
  <2> QED
    BY <2>5, <2>6 DEF QuietStep
<1>11. CASE AuditRaises(p)
  BY <1>11, <1>a, <1>b, SameLogAnswers DEF AuditRaises, ForgetOrders
<1> QED
  BY <1>1, <1>2, <1>3, <1>4, <1>5, <1>6, <1>7, <1>8, <1>9, <1>10, <1>11
     DEF StartCommand, CommandStep

\* A crash: a process forgets its key, a fake forgets its orders; the record stays.
LEMMA CrashKind ==
    ASSUME TypeOK, Shape, OrderInv, NEW p \in Procs, Crash(p) PROVE QuietStep
<1>1. /\ pc \in [Procs -> {"Idle"} \cup CyclePCs \cup CommandPCs]
      /\ intent \in [Procs -> Intents \cup {NoIntent}]
      /\ fill \in [Procs -> Order \cup {NoFill}]
      /\ todo \in [Procs -> SUBSET Fills] /\ target \in [Procs -> Fills \cup {NoTarget}]
  BY DEF TypeOK, CycleOK, CommandOK
<1>2. SameAnswers
  BY SameLogAnswers DEF Crash
<1>3. NobodyEnters
  BY <1>1, <1>2, Bystanders DEF Crash, Forget
<1>4. \A b \in Brokers, k \in Keys : book'[b][k] \in {NoOrder, book[b][k]}
  BY DEF Crash
<1>5. NothingNew
  BY <1>4 DEF Crash, NothingNew, Exposed, OpenOrders
<1> QED
  BY <1>2, <1>3, <1>5 DEF QuietStep

\* A fill at a remote adapter: of an order that was open already.
LEMMA RemoteFillKind ==
    ASSUME TypeOK, Shape, OrderInv, NEW b \in Brokers, NEW k \in Keys, RemoteProgress(b, k)
    PROVE  QuietStep
<1>1. SameAnswers
  BY SameLogAnswers DEF RemoteProgress
<1>2. \A q \in Procs, f \in Fills : f \in todo[q] => f.key \in Keys
  BY DEF Fills
<1>3. NobodyEnters
  BY <1>1 DEF RemoteProgress, NobodyEnters, OrderInv, CancelInFlight, Reported
<1>4. k \in OpenOrders(b) /\ UNCHANGED placed
  BY DEF RemoteProgress, RemoteFill
<1>5. \A c \in Brokers, j \in Keys : c # b \/ j # k => book'[c][j] = book[c][j]
  BY DEF RemoteProgress, RemoteFill, TypeOK, BrokerOK
<1>6. NothingNew
  BY <1>4, <1>5 DEF NothingNew, Exposed, OpenOrders
<1> QED
  BY <1>1, <1>3, <1>6 DEF QuietStep

\* With nothing on record and nobody at work the submit path's invariant holds.
LEMMA OrderInit == Init => OrderInv
<1> SUFFICES ASSUME Init PROVE OrderInv
  OBVIOUS
<1>1. \A k : SubmitsOf(log, k) = {} /\ ReportsOf(log, k) = {}
  BY DEF Init, SubmitsOf, ReportsOf
<1>2. \A q \in Procs : pc[q] = "Idle"
  BY DEF Init, CycleInit
<1>3. \A b \in Brokers, k \in Keys : book[b][k] = NoOrder
  BY DEF Init
<1>4. \A k \in Keys : placed[k] = 0
  BY DEF Init
<1>5. AttemptInFlight /\ AnswerInFlight /\ KeyOwned /\ CancelInFlight
  BY <1>2 DEF AttemptInFlight, AnswerInFlight, KeyOwned, CancelInFlight
<1>6. PlacedOnRecord /\ HeldOnce
  BY <1>1, <1>3, <1>4 DEF PlacedOnRecord, HeldOnce, Reported, Submitted
<1>7. ClosedNotExposed
  BY <1>1 DEF ClosedNotExposed, Closed, HasTerminalReport
<1> QED
  BY <1>5, <1>6, <1>7 DEF OrderInv

\* What any step does to the records and the brokers: one of the five steps that move an
\* order, or nothing that restart recovery or a broker would show.
LEMMA StepKinds ==
    ASSUME TypeOK, Shape, OrderInv, [Next]_vars
    PROVE  \/ QuietStep
           \/ \E p \in Procs :
                 /\ PersistAttempt(p) \/ SubmitToBroker(p) \/ AppendReport(p)
                 /\ UNCHANGED <<commandVars, bounds>>
           \/ \E p \in Procs :
                 /\ CancelAtBroker(p) \/ CancelReport(p)
                 /\ UNCHANGED bounds
<1>1. ASSUME NEW p \in Procs, StartJob(p)
      PROVE  QuietStep
  <2>1. CASE StartCommand(p)
    <3>1. pc[p] = "Idle"
      BY <2>1 DEF StartCommand, ReadCommand, export_audit, Unauthorized, halt_new_entries,
         resume_new_entries, SwitchCommand, cancel_open_orders, flatten_paper_only,
         RefuseCommand, OpenOrdersRaise
    <3> QED
      BY <2>1, <3>1, CommandKind DEF CancelAtBroker, CancelReport
  <2> QED
    BY <1>1, <2>1, StartCycleKind DEF StartJob
<1>2. CASE UNCHANGED vars
  <2>1. /\ UNCHANGED <<log, book, placed>>
        /\ UNCHANGED <<pc, intent, fill, target, todo>>
    BY <1>2 DEF vars
  <2>2. NobodyEnters
    BY <2>1 DEF NobodyEnters, OrderInv, CancelInFlight, Reported
  <2> QED
    BY <2>1, <2>2, SameLogAnswers, SameBook DEF QuietStep
<1>3. ASSUME NEW p \in Procs, RunCycle(p)
      PROVE  \/ QuietStep
             \/ /\ PersistAttempt(p) \/ SubmitToBroker(p) \/ AppendReport(p)
                /\ UNCHANGED <<commandVars, bounds>>
  BY <1>3, CycleStepKind DEF RunCycle
<1>4. ASSUME NEW p \in Procs, RunCommand(p)
      PROVE  QuietStep \/ ((CancelAtBroker(p) \/ CancelReport(p)) /\ UNCHANGED bounds)
  BY <1>4, CommandKind DEF RunCommand
<1> QED
  BY <1>1, <1>2, <1>3, <1>4, CrashKind, RemoteFillKind DEF Next, Step, Rest

\* Every step preserves the invariant of the submit path.
LEMMA OrderNext == TypeOK /\ Shape /\ OrderInv /\ [Next]_vars => OrderInv'
BY StepKinds, Quiet, PersistAttemptInv, SubmitToBrokerInv, AppendReportInv,
   CancelAtBrokerInv, CancelReportInv DEF QuietStep

\* The inductive invariant of the deployment holds in every reachable state.
THEOREM Inductive == Spec => []IndInv
<1>1. Init => IndInv
  BY TypeInit, OrderInit DEF IndInv
<1>2. IndInv /\ [Next]_vars => IndInv'
  BY TypeNext, OrderNext DEF IndInv
<1> QED
  BY <1>1, <1>2, PTL DEF Spec

\* At most one order is executed for an idempotency key, whatever the processes, their
\* crashes and their retries: the store's UNIQUE index serialises the attempts, and
\* run_paper_cycle calls the broker only after its own attempt was accepted.
THEOREM AtMostOnceHolds == Spec => []AtMostOnce
<1>1. IndInv => AtMostOnce
  BY DEF IndInv, OrderInv, PlacedOnRecord, AtMostOnce
<1> QED
  BY <1>1, Inductive, PTL

\* unresolved_open_orders() reports every order that is open at any broker: the attempt
\* precedes the order, and a terminal report follows the order's end.
THEOREM NoOpenOrderLostHolds == Spec => []NoOpenOrderLost
<1>1. IndInv => NoOpenOrderLost
  <2> SUFFICES ASSUME IndInv, NEW b \in Brokers, NEW k \in OpenOrders(b)
               PROVE  k \in unresolved_open_orders(log)
    BY DEF NoOpenOrderLost
  <2>1. k \in Keys /\ book[b][k] # NoOrder /\ k \in Exposed
    BY DEF OpenOrders, Exposed
  <2>2. SubmitsOf(log, k) # {}
    BY <2>1 DEF IndInv, OrderInv, HeldOnce, PlacedOnRecord, Submitted
  <2>3. ~HasTerminalReport(log, k)
    BY <2>1 DEF IndInv, OrderInv, ClosedNotExposed, Closed
  <2> QED
    BY <2>1, <2>2, <2>3 DEF unresolved_open_orders
<1> QED
  BY <1>1, Inductive, PTL
=============================================================================
