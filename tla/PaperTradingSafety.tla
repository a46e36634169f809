-------------------------- MODULE PaperTradingSafety --------------------------
(***************************************************************************)
(* What the deployment promises and what its audit trail is good for,      *)
(* proved for every set of processes, brokers, tickets and batches: it     *)
(* implements the order ledger, orders are the ones a human confirmed,     *)
(* fill evidence is never rewritten, commands and failed submits leave     *)
(* their trace.  Each of the latter comes with the invariant that makes it *)
(* inductive on top of IndInv.                                             *)
(***************************************************************************)
EXTENDS PaperTradingProofs, FiniteSetTheorems

USE DEF cycleVars, commandVars, bounds

-----------------------------------------------------------------------------
(* The order ledger.  Of the steps StepKinds distinguishes, PersistAttempt is Attempt,
   SubmitToBroker is Place (or nothing, when the adapter took no order), AppendReport is
   Acknowledge, CancelReport is Close, and everything else at most retires exposure. *)

\* What the ledger sees of a state.
ledgerView == Ledger!ledgerVars

\* A quiet step, or a cancel at the broker, is a Retire of the ledger.
LEMMA RetireStep ==
    ASSUME SameAnswers, NothingNew PROVE Ledger!Retire
<1>1. \A k \in Keys : StandingOf(k)' = StandingOf(k)
  BY DEF SameAnswers, StandingOf
<1> QED
  BY <1>1 DEF NothingNew, Ledger!Retire

\* The durable attempt.
LEMMA AttemptStep ==
    ASSUME TypeOK, Shape, OrderInv, NEW p \in Procs, PersistAttempt(p)
    PROVE  \E k \in Keys : Ledger!Attempt(k)
<1>1. /\ intent[p] \in Intents /\ KeyOf(intent[p]) \in Keys
      /\ UNCHANGED <<book, placed>>
  BY KeyType DEF PersistAttempt, Shape
<1> PICK key \in Keys : key = KeyOf(intent[p])
  BY <1>1
<1>2. SubmitsOf(log, key) = {}
  BY DEF PersistAttempt, record_submit_attempt, DuplicateIdempotencyKey
<1>3. \A k : /\ SubmitsOf(log', k) # {} <=> SubmitsOf(log, k) # {} \/ k = key
             /\ ReportsOf(log', k) = ReportsOf(log, k)
             /\ HasTerminalReport(log', k) <=> HasTerminalReport(log, k)
  BY <1>1, AppendSubmit DEF PersistAttempt, record_submit_attempt, TypeOK
<1>4. ReportsOf(log, key) = {}
  BY <1>1, <1>2 DEF OrderInv, PlacedOnRecord, Submitted, Reported
<1>5. StandingOf(key) = "none"
  BY <1>2 DEF StandingOf
<1>6. StandingOf(key)' = "attempted"
  BY <1>3, <1>4 DEF StandingOf
<1>7. \A k \in Keys : k # key => StandingOf(k)' = StandingOf(k)
  BY <1>3 DEF StandingOf
<1>8. Exposed' = Exposed
  BY <1>1 DEF Exposed, OpenOrders
<1> QED
  BY <1>1, <1>5, <1>6, <1>7, <1>8 DEF Ledger!Attempt

\* The broker's answer on record.
LEMMA AcknowledgeStep ==
    ASSUME TypeOK, Shape, OrderInv, NEW p \in Procs, AppendReport(p)
    PROVE  \E k \in Keys : Ledger!Acknowledge(k)
<1>1. /\ pc[p] = "Report" /\ intent[p] \in Intents /\ KeyOf(intent[p]) \in Keys
      /\ fill[p] \in Order /\ fill[p].life \in OrderLifecycleState
      /\ fill[p].filled \in Nat
      /\ UNCHANGED <<book, placed>>
  BY KeyType DEF AppendReport, Shape, Order
<1> PICK key \in Keys, life \in OrderLifecycleState :
        key = KeyOf(intent[p]) /\ life = fill[p].life
  BY <1>1
<1>2. \A k : /\ SubmitsOf(log', k) = SubmitsOf(log, k)
             /\ ReportsOf(log', k) # {} <=> ReportsOf(log, k) # {} \/ k = key
             /\ HasTerminalReport(log', k) <=>
                   IF k = key THEN life \notin NON_TERMINAL_LIFECYCLE
                   ELSE HasTerminalReport(log, k)
  BY <1>1, AppendReportRow DEF AppendReport, TypeOK
<1>3. /\ SubmitsOf(log, key) # {} /\ ReportsOf(log, key) = {} /\ placed[key] = 1
      /\ life \notin NON_TERMINAL_LIFECYCLE => key \notin Exposed
  BY <1>1 DEF OrderInv, AnswerInFlight, Submitted, Reported
<1>4. Exposed' = Exposed
  BY <1>1 DEF Exposed, OpenOrders
<1>5. StandingOf(key) = "attempted"
  BY <1>3 DEF StandingOf
<1>6. StandingOf(key)' = IF life \notin NON_TERMINAL_LIFECYCLE THEN "closed" ELSE "open"
  BY <1>2, <1>3 DEF StandingOf
<1>7. \A k \in Keys : k # key => StandingOf(k)' = StandingOf(k)
  BY <1>2 DEF StandingOf
<1> QED
  BY <1>1, <1>3, <1>4, <1>5, <1>6, <1>7 DEF Ledger!Acknowledge

\* The terminal report of a cancelled order.
LEMMA CloseStep ==
    ASSUME TypeOK, Shape, OrderInv, NEW p \in Procs, CancelReport(p)
    PROVE  \E k \in Keys : Ledger!Close(k)
<1>1. /\ pc[p] = "CancelReport" /\ target[p] \in Fills /\ target[p].key \in Keys
      /\ target[p].filled \in Nat /\ "CANCELLED" \in OrderLifecycleState
      /\ target[p].life = "CANCELLED"
      /\ "CANCELLED" \notin NON_TERMINAL_LIFECYCLE
      /\ UNCHANGED <<book, placed>>
  BY DEF CancelReport, Shape, Fills, OrderLifecycleState, NON_TERMINAL_LIFECYCLE
<1> PICK key \in Keys : key = target[p].key
  BY <1>1
<1>2. \A k : /\ SubmitsOf(log', k) = SubmitsOf(log, k)
             /\ ReportsOf(log', k) # {} <=> ReportsOf(log, k) # {} \/ k = key
             /\ HasTerminalReport(log', k) <=>
                   IF k = key THEN "CANCELLED" \notin NON_TERMINAL_LIFECYCLE
                   ELSE HasTerminalReport(log, k)
  BY <1>1, AppendReportRow DEF CancelReport, TypeOK
<1>3. /\ ReportsOf(log, key) # {} /\ ~HasTerminalReport(log, key) /\ key \notin Exposed
      /\ SubmitsOf(log, key) # {}
  BY <1>1 DEF OrderInv, CancelInFlight, PlacedOnRecord, Submitted, Reported, Closed
<1>4. Exposed' = Exposed
  BY <1>1 DEF Exposed, OpenOrders
<1>5. StandingOf(key) = "open" /\ StandingOf(key)' = "closed"
  BY <1>1, <1>2, <1>3 DEF StandingOf
<1>6. \A k \in Keys : k # key => StandingOf(k)' = StandingOf(k)
  BY <1>2 DEF StandingOf
<1> QED
  BY <1>1, <1>3, <1>4, <1>5, <1>6 DEF Ledger!Close

\* The broker call takes the order on, once; or nothing happens at the broker.
LEMMA PlaceStep ==
    ASSUME TypeOK, Shape, OrderInv, NEW p \in Procs, SubmitToBroker(p)
    PROVE  (\E k \in Keys : Ledger!Place(k)) \/ Ledger!Retire
<1>1. /\ pc[p] = "Submit" /\ intent[p] \in Intents /\ KeyOf(intent[p]) \in Keys
      /\ BrokerOf[p] \in Brokers /\ UNCHANGED log
      /\ placed \in [Keys -> Nat]
      /\ book \in [Brokers -> [Keys -> Order \cup {NoOrder}]]
  BY KeyType DEF SubmitToBroker, Shape, CyclePCs, TypeOK, BrokerOK
<1> PICK key \in Keys, b \in Brokers : key = KeyOf(intent[p]) /\ b = BrokerOf[p]
  BY <1>1
<1>2. PICK o \in SubmitOutcomes(b, intent[p]) : submit_order(b, intent[p], o)
  BY DEF SubmitToBroker
<1>3. SubmitsOf(log, key) # {} /\ ReportsOf(log, key) = {} /\ placed[key] = 0
  BY <1>1 DEF OrderInv, AttemptInFlight, Submitted, Reported
<1>4. \A c \in Brokers : book[c][key] = NoOrder
  BY <1>1, <1>3 DEF OrderInv, HeldOnce
<1>5. /\ book' = [book EXCEPT ![b][key] = o.order]
      /\ placed' = [placed EXCEPT ![key] = IF o.order # NoOrder THEN 1 ELSE 0]
  <2>1. /\ book' = [book EXCEPT ![b][key] = o.order]
        /\ placed' = [placed EXCEPT ![key] =
               IF book[b][key] = NoOrder /\ o.order # NoOrder
               THEN placed[key] + 1 ELSE placed[key]]
    BY <1>2 DEF submit_order
  <2>2. placed[key] + 1 = 1
    BY <1>3
  <2> QED
    BY <1>3, <1>4, <2>1, <2>2
<1>6. \A c \in Brokers, k \in Keys :
          book'[c][k] = IF c = b /\ k = key THEN o.order ELSE book[c][k]
  BY <1>1, <1>5
<1>7. \A k \in Keys : k # key => (k \in Exposed' <=> k \in Exposed)
  BY <1>6 DEF Exposed, OpenOrders
<1>8. key \notin Exposed /\ (o.order = NoOrder => key \notin Exposed')
  BY <1>4, <1>6 DEF Exposed, OpenOrders
<1>9. Exposed \subseteq Keys /\ Exposed' \subseteq Keys
  BY DEF Exposed
<1>10. StandingOf(key) = "attempted" /\ \A k \in Keys : StandingOf(k)' = StandingOf(k)
  BY <1>1, <1>3 DEF StandingOf
<1>11. CASE o.order = NoOrder
  <2>1. placed' = placed
    BY <1>1, <1>3, <1>5, <1>11
  <2>2. Exposed' \subseteq Exposed
    BY <1>7, <1>8, <1>9, <1>11
  <2> QED
    BY <1>10, <2>1, <2>2 DEF Ledger!Retire
<1>12. CASE o.order # NoOrder
  <2>1. placed' = [placed EXCEPT ![key] = 1]
    BY <1>5, <1>12
  <2>2. Exposed' \in {Exposed, Exposed \cup {key}}
    BY <1>7, <1>8, <1>9
  <2> QED
    BY <1>3, <1>10, <2>1, <2>2 DEF Ledger!Place
<1> QED
  BY <1>11, <1>12

\* A cancel at the broker, confirmed or not, only removes exposure.
LEMMA CancelStep ==
    ASSUME TypeOK, Shape, NEW p \in Procs, CancelAtBroker(p)
    PROVE  Ledger!Retire
<1>1. BrokerOf[p] \in Brokers /\ todo[p] \subseteq Fills /\ UNCHANGED <<log, placed>>
  BY DEF CancelAtBroker, Shape, BrokerPCs, TypeOK, CommandOK
<1>2. PICK f \in todo[p] : \E o \in CancelOutcomes(BrokerOf[p], f.key) :
          cancel_order(BrokerOf[p], f.key, o)
  BY DEF CancelAtBroker
<1>3. f.key \in Keys
  BY <1>1 DEF Fills
<1>4. NothingNew
  BY <1>1, <1>2, <1>3, CancelShrinks
<1> QED
  BY <1>1, <1>4, SameLogAnswers, RetireStep

\* Every step of the deployment is a step of the ledger or leaves it alone.
LEMMA LedgerStep ==
    ASSUME IndInv, [Next]_vars PROVE [Ledger!LedgerNext]_ledgerView
<1>1. TypeOK /\ Shape /\ OrderInv
  BY DEF IndInv
<1> QED
  BY <1>1, StepKinds, RetireStep, AttemptStep, PlaceStep, AcknowledgeStep, CancelStep,
     CloseStep DEF Ledger!LedgerNext, QuietStep

\* The ledger starts with nothing on record, nothing placed and nothing exposed.
LEMMA LedgerStart == Init => Ledger!LedgerInit
<1> SUFFICES ASSUME Init PROVE Ledger!LedgerInit
  OBVIOUS
<1>1. \A k \in Keys : StandingOf(k) = "none"
  BY DEF Init, StandingOf, SubmitsOf
<1>2. Exposed = {}
  BY DEF Init, Exposed, OpenOrders
<1> QED
  BY <1>1, <1>2 DEF Init, Ledger!LedgerInit

\* The deployment implements the order ledger, for any number of processes, brokers,
\* tickets, jobs and crashes: attempts precede orders, each key is placed at most once,
\* and a record is closed only when no broker can still execute the order.
THEOREM Refinement == Spec => ImplementsLedger
<1>1. Spec => []IndInv
  BY Inductive
<1>2. IndInv /\ [Next]_vars => [Ledger!LedgerNext]_ledgerView
  BY LedgerStep
<1> QED
  BY <1>1, <1>2, LedgerStart, PTL
     DEF Spec, ImplementsLedger, Ledger!LedgerSpec, ledgerView

\* A terminal report is never superseded: a cycle reports an order only if nobody has,
\* a cancel only if the latest report is still open, and no two cancels report one order.
THEOREM TerminalIsFinalHolds == Spec => TerminalIsFinal
<1>1. ASSUME IndInv, [Next]_vars, NEW k \in Keys, HasTerminalReport(log, k)
      PROVE  HasTerminalReport(log, k)'
  <2>1. SubmitsOf(log, k) # {} /\ ReportsOf(log, k) # {}
    BY <1>1 DEF IndInv, OrderInv, PlacedOnRecord, Submitted, Reported, HasTerminalReport
  <2>2. StandingOf(k) = "closed"
    BY <1>1, <2>1 DEF StandingOf
  <2>3. [Ledger!LedgerNext]_ledgerView
    BY <1>1, LedgerStep
  <2>4. StandingOf(k)' = "closed"
    <3>1. [j \in Keys |-> StandingOf(j)][k] = "closed"
      BY <2>2
    <3>2. [j \in Keys |-> StandingOf(j)]'[k] = "closed"
      BY <2>3, <3>1
         DEF Ledger!LedgerNext, Ledger!Attempt, Ledger!Place, Ledger!Acknowledge,
             Ledger!Close, Ledger!Retire, Ledger!ledgerVars, ledgerView
    <3> QED
      BY <3>2
  <2> QED
    BY <2>4 DEF StandingOf
<1>2. IndInv /\ [Next]_vars =>
          [\A k \in Keys : HasTerminalReport(log, k) => HasTerminalReport(log, k)']_vars
  BY <1>1
<1> QED
  BY <1>2, Inductive, PTL DEF Spec, TerminalIsFinal

\* Every step of the ledger keeps its promise.
LEMMA LedgerSafeNext ==
    ASSUME Ledger!LedgerSafe, [Ledger!LedgerNext]_ledgerView PROVE Ledger!LedgerSafe'
<1> USE DEF Ledger!LedgerSafe, Ledger!Standing
<1>1. ASSUME NEW k \in Keys, Ledger!Attempt(k) PROVE Ledger!LedgerSafe'
  BY <1>1 DEF Ledger!Attempt
<1>2. ASSUME NEW k \in Keys, Ledger!Place(k) PROVE Ledger!LedgerSafe'
  BY <1>2 DEF Ledger!Place
<1>3. ASSUME NEW k \in Keys, Ledger!Acknowledge(k) PROVE Ledger!LedgerSafe'
  BY <1>3 DEF Ledger!Acknowledge
<1>4. ASSUME NEW k \in Keys, Ledger!Close(k) PROVE Ledger!LedgerSafe'
  BY <1>4 DEF Ledger!Close
<1>5. CASE Ledger!Retire
  BY <1>5 DEF Ledger!Retire
<1>6. CASE UNCHANGED ledgerView
  BY <1>6 DEF ledgerView, Ledger!ledgerVars
<1> QED
  BY <1>1, <1>2, <1>3, <1>4, <1>5, <1>6 DEF Ledger!LedgerNext

\* The order ledger keeps its promise: nothing is placed twice or without a recorded
\* attempt, and no executable order has a record that is missing or closed.
THEOREM LedgerIsSafe == Ledger!LedgerSpec => []Ledger!LedgerSafe
<1>1. Ledger!LedgerInit => Ledger!LedgerSafe
  BY DEF Ledger!LedgerInit, Ledger!LedgerSafe, Ledger!Standing
<1> QED
  BY <1>1, LedgerSafeNext, PTL DEF Ledger!LedgerSpec, ledgerView

\* The deployment implements the ledger, so it keeps the promise too.
THEOREM DeploymentIsSafe == Spec => []Ledger!LedgerSafe
BY Refinement, LedgerIsSafe, PTL DEF ImplementsLedger

-----------------------------------------------------------------------------
(* The audit trail. *)

\* Between the confirmation and the broker call: the token was granted by a human, and
\* once the attempt is on record its row carries the intent's limit price.
ConfirmedInFlight ==
    \A p \in Procs :
        /\ pc[p] \in CyclePCs => require_paper_safe
        /\ pc[p] \in {"Persist", "Submit"} => token[p].intent \in granted
        /\ pc[p] = "Submit" =>
               \E i \in SubmitsOf(log, KeyOf(intent[p])) : log[i].price = intent[p].price

\* What a cancel holds of an order is what every report of the order says.
EvidenceHeld ==
    \A p \in Procs :
        /\ pc[p] \in {"CancelResolve", "CancelNext", "CancelReport"} =>
               \A f \in todo[p] : \A i \in ReportsOf(log, f.key) : log[i].filled = f.filled
        /\ pc[p] = "CancelReport" =>
               \A i \in ReportsOf(log, target[p].key) : log[i].filled = target[p].filled

\* A command between its artifact and its last step has counted the artifact.
ArtifactHeld ==
    \A p \in Procs : pc[p] \in {"HaltState", "ResumeState", "CliReject"} => audits[p] >= 1

\* The rows of one type and decision, and the processes that owe the store a switch row.
RowsWith(l, type, d) == {i \in 1..Len(l) : l[i].type = type /\ l[i].decision = d}

Owing(d) == {p \in Procs : pc[p] = IF d = "HALT" THEN "HaltState" ELSE "ResumeState"}

\* Every switch row, and every one still owed, has an artifact of its own.
SwitchesPaired ==
    \A d \in {"HALT", "RESUME"} :
        /\ IsFiniteSet(Owing(d))
        /\ Cardinality(RowsWith(log, "KILL_SWITCH_STATE", d)) + Cardinality(Owing(d))
               <= Cardinality(RowsWith(log, "AUDIT_ARTIFACT", d))

\* The keys some process is between the attempt and the end of the item with.
HeldKeys == {KeyOf(intent[p]) : p \in {q \in Procs : pc[q] \in {"Submit", "Report", "Failed"}}}

\* Attempts that nobody works on any more and that never got a report.
Abandoned == {k \in Keys : Submitted(k) /\ ~Reported(k) /\ k \notin HeldKeys}

\* A failed submit keeps its key to itself, unreported, until it is counted; and what is
\* counted is abandoned for good.
FailuresKept ==
    /\ \A p \in Procs :
           pc[p] = "Failed" => Submitted(KeyOf(intent[p])) /\ ~Reported(KeyOf(intent[p]))
    /\ \A p, q \in Procs :
           /\ pc[p] \in {"Submit", "Report", "Failed"} /\ pc[q] \in {"Submit", "Report", "Failed"}
           /\ KeyOf(intent[p]) = KeyOf(intent[q])
           => p = q
    /\ IsFiniteSet({k \in Keys : Submitted(k)})
    /\ \A p \in Procs : tally[p]["submit_failed"] <= Cardinality(Abandoned)

SafetyInv ==
    /\ ConfirmedInFlight /\ PlacedAsConfirmed
    /\ EvidenceHeld /\ EvidencePreserved
    /\ ArtifactHeld /\ SwitchesPaired /\ FailuresKept

-----------------------------------------------------------------------------
(* Steps seen from one process, and what they do to the rows. *)

\* One process steps; the locals of the others stand still.
Alone(p) ==
    \A q \in Procs \ {p} :
        /\ pc'[q] = pc[q] /\ intent'[q] = intent[q] /\ token'[q] = token[q]
        /\ tally'[q] = tally[q] /\ todo'[q] = todo[q] /\ target'[q] = target[q]
        /\ audits'[q] = audits[q]

\* Rows are never changed, and no order appears at a broker or changes its intent.
RowsKept == \A i \in 1..Len(log) : i \in 1..Len(log') /\ log'[i] = log[i]

BookKept ==
    \A b \in Brokers, k \in Keys :
        book'[b][k] # NoOrder =>
            book[b][k] # NoOrder /\ book'[b][k].intent = book[b][k].intent

\* No row, or one that is neither an attempt, a report nor a switch position.
QuietRow ==
    \/ UNCHANGED log
    \/ \E t \in RecordType \ {"BROKER_SUBMIT_INTENT", "EXECUTION_REPORT", "KILL_SWITCH_STATE"},
          d \in Decision : append(Plain(t, d))

\* An append leaves the rows before it alone.
LEMMA AppendKeeps == ASSUME StoreOK, NEW e \in StoredEvent, append(e) PROVE RowsKept
BY AppendRows DEF RowsKept

\* The rows of one type and decision are finitely many.
LEMMA RowsFinite ==
    ASSUME StoreOK, NEW t, NEW d
    PROVE  IsFiniteSet(RowsWith(log, t, d)) /\ Cardinality(RowsWith(log, t, d)) \in Nat
<1>1. IsFiniteSet(1..Len(log))
  BY LenProperties, FS_Interval DEF StoreOK
<1>2. IsFiniteSet(RowsWith(log, t, d))
  BY <1>1, FS_Subset DEF RowsWith
<1> QED
  BY <1>2, FS_CardinalityType

\* An append adds its own row to them.
LEMMA RowsWithAppend ==
    ASSUME StoreOK, NEW e \in StoredEvent, append(e), NEW t, NEW d
    PROVE  /\ IsFiniteSet(RowsWith(log, t, d))
           /\ Len(log) + 1 \notin RowsWith(log, t, d)
           /\ RowsWith(log', t, d) =
                 IF e.type = t /\ e.decision = d THEN RowsWith(log, t, d) \cup {Len(log) + 1}
                 ELSE RowsWith(log, t, d)
<1>1. /\ Len(log) \in Nat /\ Len(log') = Len(log) + 1
      /\ \A i \in 1..Len(log) : log'[i] = log[i]
      /\ log'[Len(log) + 1] = e
  BY AppendRows
<1>3. IsFiniteSet(RowsWith(log, t, d))
  BY RowsFinite
<1>4. Len(log) + 1 \notin RowsWith(log, t, d)
  BY <1>1 DEF RowsWith
<1>5. CASE e.type = t /\ e.decision = d
  BY <1>1, <1>3, <1>4, <1>5 DEF RowsWith
<1>6. CASE ~(e.type = t /\ e.decision = d)
  BY <1>1, <1>3, <1>4, <1>6 DEF RowsWith
<1> QED
  BY <1>5, <1>6

\* What a quiet row leaves as it is.
LEMMA QuietRows ==
    ASSUME StoreOK, QuietRow
    PROVE  /\ RowsKept
           /\ \A k : SubmitsOf(log', k) = SubmitsOf(log, k)
           /\ \A k : ReportsOf(log', k) = ReportsOf(log, k)
           /\ \A d : RowsWith(log', "KILL_SWITCH_STATE", d) = RowsWith(log, "KILL_SWITCH_STATE", d)
           /\ \A d : /\ IsFiniteSet(RowsWith(log', "AUDIT_ARTIFACT", d))
                     /\ RowsWith(log, "AUDIT_ARTIFACT", d) \subseteq
                           RowsWith(log', "AUDIT_ARTIFACT", d)
<1>1. CASE UNCHANGED log
  BY <1>1, RowsFinite DEF RowsKept
<1>2. CASE ~UNCHANGED log
  <2>1. PICK t \in RecordType \ {"BROKER_SUBMIT_INTENT", "EXECUTION_REPORT", "KILL_SWITCH_STATE"},
             d \in Decision : append(Plain(t, d))
    BY <1>2 DEF QuietRow
  <2>2. Plain(t, d) \in StoredEvent /\ Plain(t, d).type = t
    BY PlainType DEF Plain
  <2>3. RowsKept
    BY <2>1, <2>2, AppendKeeps
  <2>4. \A k : SubmitsOf(log', k) = SubmitsOf(log, k) /\ ReportsOf(log', k) = ReportsOf(log, k)
    BY <2>1, <2>2, AppendOther
  <2>5. \A c : RowsWith(log', "KILL_SWITCH_STATE", c) = RowsWith(log, "KILL_SWITCH_STATE", c)
    BY <2>1, <2>2, RowsWithAppend
  <2>6. ASSUME NEW c
        PROVE  /\ IsFiniteSet(RowsWith(log', "AUDIT_ARTIFACT", c))
               /\ RowsWith(log, "AUDIT_ARTIFACT", c) \subseteq RowsWith(log', "AUDIT_ARTIFACT", c)
    <3>1. /\ IsFiniteSet(RowsWith(log, "AUDIT_ARTIFACT", c))
          /\ RowsWith(log', "AUDIT_ARTIFACT", c) \in
                {RowsWith(log, "AUDIT_ARTIFACT", c),
                 RowsWith(log, "AUDIT_ARTIFACT", c) \cup {Len(log) + 1}}
      BY <2>1, <2>2, RowsWithAppend
    <3>2. IsFiniteSet(RowsWith(log, "AUDIT_ARTIFACT", c) \cup {Len(log) + 1})
      BY <3>1, FS_AddElement
    <3> QED
      BY <3>1, <3>2
  <2> QED
    BY <2>3, <2>4, <2>5, <2>6
<1> QED
  BY <1>1, <1>2

-----------------------------------------------------------------------------
(* Each part of the invariant under a step that leaves its own concerns alone. *)

\* Confirmation: nobody comes to the attempt or the broker call, no order is new.
LEMMA ConfirmedKept ==
    ASSUME ConfirmedInFlight, PlacedAsConfirmed, RowsKept, BookKept, granted \subseteq granted',
           \A q \in Procs :
               /\ pc'[q] \in CyclePCs => pc[q] \in CyclePCs \/ require_paper_safe
               /\ pc'[q] \in {"Persist", "Submit"} =>
                      pc'[q] = pc[q] /\ token'[q] = token[q] /\ intent'[q] = intent[q]
    PROVE  ConfirmedInFlight' /\ PlacedAsConfirmed'
<1>1. \A k : \A i \in SubmitsOf(log, k) : i \in SubmitsOf(log', k) /\ log'[i] = log[i]
  BY DEF RowsKept, SubmitsOf
<1>2. ConfirmedInFlight'
  BY <1>1 DEF ConfirmedInFlight, require_paper_safe, paper_submission_armed
<1>3. PlacedAsConfirmed'
  BY <1>1 DEF PlacedAsConfirmed, BookKept
<1> QED
  BY <1>2, <1>3

\* Evidence: no report is written and no cancel takes on another order.
LEMMA EvidenceKept ==
    ASSUME EvidenceHeld, EvidencePreserved, RowsKept,
           \A k : ReportsOf(log', k) = ReportsOf(log, k),
           \A q \in Procs :
               /\ pc'[q] \in {"CancelResolve", "CancelNext", "CancelReport"} =>
                      \/ todo'[q] = {}
                      \/ /\ pc[q] \in {"CancelResolve", "CancelNext", "CancelReport"}
                         /\ todo'[q] \subseteq todo[q]
               /\ pc'[q] = "CancelReport" => pc[q] = "CancelReport" /\ target'[q] = target[q]
    PROVE  EvidenceHeld' /\ EvidencePreserved'
<1>1. \A k : \A i \in ReportsOf(log, k) : log'[i] = log[i]
  BY DEF RowsKept, ReportsOf
<1>2. EvidencePreserved'
  BY <1>1 DEF EvidencePreserved
<1>3. EvidenceHeld'
  BY <1>1 DEF EvidenceHeld
<1> QED
  BY <1>2, <1>3

\* The kill switch: no switch row, no new debt.
LEMMA SwitchesKept ==
    ASSUME StoreOK, SwitchesPaired, QuietRow,
           \A q \in Procs : pc'[q] \in {"HaltState", "ResumeState"} => pc'[q] = pc[q]
    PROVE  SwitchesPaired'
<1> SUFFICES ASSUME NEW d \in {"HALT", "RESUME"}
             PROVE  /\ IsFiniteSet(Owing(d)')
                    /\ Cardinality(RowsWith(log', "KILL_SWITCH_STATE", d)) + Cardinality(Owing(d)')
                           <= Cardinality(RowsWith(log', "AUDIT_ARTIFACT", d))
  BY DEF SwitchesPaired
<1>1. /\ IsFiniteSet(Owing(d))
      /\ Cardinality(RowsWith(log, "KILL_SWITCH_STATE", d)) + Cardinality(Owing(d))
             <= Cardinality(RowsWith(log, "AUDIT_ARTIFACT", d))
  BY DEF SwitchesPaired
<1>2. Owing(d)' \subseteq Owing(d)
  BY DEF Owing
<1>3. /\ IsFiniteSet(Owing(d)') /\ Cardinality(Owing(d)') <= Cardinality(Owing(d))
      /\ Cardinality(Owing(d)') \in Nat /\ Cardinality(Owing(d)) \in Nat
  BY <1>1, <1>2, FS_Subset, FS_CardinalityType
<1>4. /\ RowsWith(log', "KILL_SWITCH_STATE", d) = RowsWith(log, "KILL_SWITCH_STATE", d)
      /\ IsFiniteSet(RowsWith(log', "AUDIT_ARTIFACT", d))
      /\ RowsWith(log, "AUDIT_ARTIFACT", d) \subseteq RowsWith(log', "AUDIT_ARTIFACT", d)
  BY QuietRows
<1>5. /\ Cardinality(RowsWith(log, "AUDIT_ARTIFACT", d)) <=
             Cardinality(RowsWith(log', "AUDIT_ARTIFACT", d))
      /\ Cardinality(RowsWith(log, "AUDIT_ARTIFACT", d)) \in Nat
      /\ Cardinality(RowsWith(log', "AUDIT_ARTIFACT", d)) \in Nat
  BY <1>4, FS_Subset, FS_CardinalityType
<1>6. Cardinality(RowsWith(log, "KILL_SWITCH_STATE", d)) \in Nat
  BY RowsFinite
<1> QED
  BY <1>1, <1>3, <1>4, <1>5, <1>6

\* Failures: the attempts and which of them have reports stay, keys are only let go, and
\* nothing is counted.
LEMMA FailuresStay ==
    ASSUME TypeOK, Shape, OrderInv, FailuresKept,
           \A k \in Keys :
               /\ SubmitsOf(log', k) # {} <=> SubmitsOf(log, k) # {}
               /\ ReportsOf(log', k) # {} <=> ReportsOf(log, k) # {},
           \A q \in Procs :
               /\ pc'[q] \in {"Submit", "Report", "Failed"} =>
                      /\ pc[q] \in {"Submit", "Report", "Failed"} /\ intent'[q] = intent[q]
                      /\ pc'[q] = "Failed" => pc[q] \in {"Submit", "Failed"}
               /\ tally'[q]["submit_failed"] \in Nat
               /\ tally'[q]["submit_failed"] <= tally[q]["submit_failed"]
    PROVE  FailuresKept'
<1> USE DEF Submitted, Reported
<1>1. \A q \in Procs : pc[q] \in {"Submit", "Report", "Failed"} => KeyOf(intent[q]) \in Keys
  BY KeyType DEF Shape
<1>2. {k \in Keys : Submitted(k)}' = {k \in Keys : Submitted(k)}
  OBVIOUS
<1>3. HeldKeys' \subseteq HeldKeys
  BY DEF HeldKeys
<1>4. Abandoned \subseteq Abandoned'
  BY <1>3 DEF Abandoned
<1>5. Abandoned' \subseteq {k \in Keys : Submitted(k)}
  BY <1>2 DEF Abandoned
<1>6. /\ Cardinality(Abandoned) <= Cardinality(Abandoned')
      /\ Cardinality(Abandoned) \in Nat /\ Cardinality(Abandoned') \in Nat
  <2>1. IsFiniteSet(Abandoned')
    BY <1>5, FS_Subset DEF FailuresKept
  <2> QED
    BY <1>4, <2>1, FS_Subset, FS_CardinalityType
<1>7. \A q \in Procs : tally'[q]["submit_failed"] <= Cardinality(Abandoned')
  <2> TAKE q \in Procs
  <2>1. tally[q]["submit_failed"] \in Nat
    BY DEF TypeOK, CycleOK, Outcomes
  <2>2. tally[q]["submit_failed"] <= Cardinality(Abandoned)
    BY DEF FailuresKept
  <2> QED
    BY <1>6, <2>1, <2>2
<1>8. \A q \in Procs :
          pc'[q] = "Failed" => /\ SubmitsOf(log', KeyOf(intent'[q])) # {}
                               /\ ReportsOf(log', KeyOf(intent'[q])) = {}
  BY <1>1 DEF FailuresKept, OrderInv, AttemptInFlight
<1>9. \A p, q \in Procs :
          /\ pc'[p] \in {"Submit", "Report", "Failed"} /\ pc'[q] \in {"Submit", "Report", "Failed"}
          /\ KeyOf(intent'[p]) = KeyOf(intent'[q])
          => p = q
  BY DEF FailuresKept
<1> QED
  BY <1>2, <1>7, <1>8, <1>9 DEF FailuresKept

\* The steps at which some part of the invariant says something about the process.
Critical ==
    {"Persist", "Submit", "Report", "Failed", "CancelResolve", "CancelNext", "CancelReport",
     "HaltState", "ResumeState", "CliReject"}

\* A process moves to none of these and no order, report or switch row appears.
LEMMA Uneventful ==
    ASSUME TypeOK, TypeOK', Shape, OrderInv, SafetyInv, NEW p \in Procs, Alone(p),
           pc'[p] \notin Critical,
           pc'[p] \in CyclePCs => pc[p] \in CyclePCs \/ require_paper_safe,
           QuietRow, BookKept, UNCHANGED granted,
           tally'[p]["submit_failed"] <= tally[p]["submit_failed"]
    PROVE  SafetyInv'
<1>1. /\ StoreOK /\ RowsKept
      /\ \A k : SubmitsOf(log', k) = SubmitsOf(log, k)
      /\ \A k : ReportsOf(log', k) = ReportsOf(log, k)
  BY QuietRows DEF TypeOK
<1>2. \A q \in Procs :
          /\ tally[q]["submit_failed"] \in Nat /\ tally'[q]["submit_failed"] \in Nat
          /\ tally'[q]["submit_failed"] <= tally[q]["submit_failed"]
  <2> TAKE q \in Procs
  <2>1. tally[q]["submit_failed"] \in Nat /\ tally'[q]["submit_failed"] \in Nat
    BY DEF TypeOK, CycleOK, Outcomes
  <2>2. q # p => tally'[q] = tally[q]
    BY DEF Alone
  <2> QED
    BY <2>1, <2>2
<1>3. ConfirmedInFlight' /\ PlacedAsConfirmed'
  BY <1>1, ConfirmedKept DEF SafetyInv, Alone, Critical
<1>4. EvidenceHeld' /\ EvidencePreserved'
  BY <1>1, EvidenceKept DEF SafetyInv, Alone, Critical
<1>5. ArtifactHeld'
  BY DEF SafetyInv, ArtifactHeld, Alone, Critical
<1>6. SwitchesPaired'
  BY <1>1, SwitchesKept DEF SafetyInv, Alone, Critical
<1>7. FailuresKept'
  BY <1>1, <1>2, FailuresStay DEF SafetyInv, Alone, Critical
<1> QED
  BY <1>3, <1>4, <1>5, <1>6, <1>7 DEF SafetyInv

\* The locals of the other processes: the assignments of every step are to its own.
LEMMA AloneStep ==
    ASSUME TypeOK, NEW p \in Procs,
           \/ StartJob(p) \/ RunCycle(p) \/ RunCommand(p) \/ Crash(p)
    PROVE  Alone(p)
<1>1. /\ pc \in [Procs -> {"Idle"} \cup CyclePCs \cup CommandPCs]
      /\ intent \in [Procs -> Intents \cup {NoIntent}]
      /\ token \in [Procs -> Tokens \cup {NoToken}]
      /\ tally \in [Procs -> [Outcomes -> Nat]]
      /\ todo \in [Procs -> SUBSET Fills]
      /\ target \in [Procs -> Fills \cup {NoTarget}]
      /\ audits \in [Procs -> Nat]
  BY DEF TypeOK, CycleOK, CommandOK
<1>2. ASSUME CycleStep(p), UNCHANGED commandVars PROVE Alone(p)
  <2>1. ASSUME NEW l, GoTo(p, l), UNCHANGED cycleVars PROVE Alone(p)
    BY <1>1, <1>2, <2>1 DEF GoTo, Alone
  <2>2. ASSUME NEW o, NextItem(p, o) PROVE Alone(p)
    BY <1>1, <1>2, <2>2 DEF NextItem, Alone
  <2>3. ASSUME Forget(p) PROVE Alone(p)
    BY <1>1, <1>2, <2>3 DEF Forget, Alone
  <2>4. ASSUME NEW t \in Tokens, ConfirmAnswers(p, t) PROVE Alone(p)
    BY <1>1, <1>2, <2>4 DEF ConfirmAnswers, GoTo, Alone
  <2>5. ASSUME SubmitToBroker(p) PROVE Alone(p)
    BY <1>1, <1>2, <2>5 DEF SubmitToBroker, GoTo, Alone
  <2> QED
    BY <1>2, <2>1, <2>2, <2>3, <2>4, <2>5
       DEF CycleStep, AuditRequest, ValidateRejects, ValidateApproves, RouteRaises, MintTicket,
           DeferNoPrice, ConfirmDeclines, ConfirmRaises, PersistAttempt, PersistDuplicate,
           SubmitRefused, AuditFailure, AppendReport, ReportRaises, FinishCycle
<1>3. ASSUME StartCommand(p) PROVE Alone(p)
  BY <1>1, <1>3
     DEF StartCommand, ReadCommand, export_audit, Unauthorized, halt_new_entries,
         resume_new_entries, SwitchCommand, cancel_open_orders, flatten_paper_only,
         RefuseCommand, OpenOrdersRaise, FirstAudit, GoTo, Alone
<1>4. ASSUME CommandStep(p) PROVE Alone(p)
  <2>1. CASE CancelResolve(p) \/ CancelAtBroker(p) \/ FlattenAtBroker(p)
    BY <1>1, <2>1 DEF CancelResolve, CancelAtBroker, FlattenAtBroker, GoTo, Alone
  <2>2. CASE ~(CancelResolve(p) \/ CancelAtBroker(p) \/ FlattenAtBroker(p))
    BY <1>1, <1>4, <2>2
       DEF CommandStep, ExportDone, ExportRaises, PersistSwitch, record_command_rejection,
           CancelReport, CancelReportRaises, CancelDone, RejectCommand, PositionsRaise,
           FlattenDone, FollowUpRaises, AuditRaises, CommandRaises, ForgetOrders, FirstAudit,
           OneMoreAudit, GoTo, Alone
  <2> QED
    BY <2>1, <2>2
<1>5. ASSUME Crash(p) PROVE Alone(p)
  BY <1>1, <1>5 DEF Crash, Forget, Alone
<1>6. ASSUME NEW batch, NEW n, StartCycle(p, batch, n), UNCHANGED commandVars PROVE Alone(p)
  BY <1>1, <1>6 DEF StartCycle, GoTo, Alone
<1> QED
  BY <1>2, <1>3, <1>4, <1>5, <1>6 DEF StartJob, RunCycle, RunCommand

\* An artifact is a quiet row.
LEMMA QuietArtifact ==
    ASSUME NEW d \in Decision, append(AuditArtifact(d)) PROVE QuietRow
BY DEF AuditArtifact, QuietRow, RecordType

\* A broker that was not called holds what it did.
LEMMA QuietBook == ASSUME UNCHANGED book PROVE BookKept
BY DEF BookKept

-----------------------------------------------------------------------------
(* The paper cycle. *)

\* The steps of a cycle that touch neither the store's orders nor a broker.
LEMMA CycleUneventful ==
    ASSUME TypeOK, TypeOK', Shape, OrderInv, SafetyInv, NEW p \in Procs, Alone(p),
           UNCHANGED <<book, granted>>,
           \/ AuditRequest(p) \/ ValidateApproves(p) \/ MintTicket(p) \/ FinishCycle(p)
           \/ ValidateRejects(p) \/ DeferNoPrice(p) \/ ConfirmDeclines(p) \/ PersistDuplicate(p)
           \/ RouteRaises(p) \/ ConfirmRaises(p) \/ ReportRaises(p)
    PROVE  SafetyInv'
<1>1. /\ pc \in [Procs -> {"Idle"} \cup CyclePCs \cup CommandPCs]
      /\ tally \in [Procs -> [Outcomes -> Nat]] /\ tally[p]["submit_failed"] \in Nat
  BY DEF TypeOK, CycleOK, Outcomes
<1>2. BookKept
  BY QuietBook
<1>3. CASE AuditRequest(p) \/ ValidateApproves(p) \/ MintTicket(p) \/ FinishCycle(p)
  <2>1. QuietRow
    BY <1>3 DEF AuditRequest, ValidateApproves, MintTicket, FinishCycle, QuietRow, RecordType,
                Decision
  <2>2. /\ pc[p] \in CyclePCs /\ pc'[p] \notin Critical /\ UNCHANGED tally
    BY <1>1, <1>3 DEF AuditRequest, ValidateApproves, MintTicket, FinishCycle, GoTo, CyclePCs,
                      Critical
  <2> QED
    BY <1>1, <1>2, <2>1, <2>2, Uneventful
<1>4. CASE ValidateRejects(p) \/ DeferNoPrice(p) \/ ConfirmDeclines(p) \/ PersistDuplicate(p)
  <2>1. QuietRow
    BY <1>4, QuietArtifact
       DEF ValidateRejects, DeferNoPrice, ConfirmDeclines, PersistDuplicate, Decision
  <2>2. pc[p] \in CyclePCs
    BY <1>4 DEF ValidateRejects, DeferNoPrice, ConfirmDeclines, PersistDuplicate, CyclePCs
  <2>3. PICK o \in Outcomes \ {"submit_failed"} : NextItem(p, o)
    BY <1>4 DEF ValidateRejects, DeferNoPrice, ConfirmDeclines, PersistDuplicate, Outcomes
  <2>4. pc'[p] \notin Critical /\ tally'[p]["submit_failed"] = tally[p]["submit_failed"]
    BY <1>1, <2>3 DEF NextItem, Critical, Outcomes
  <2> QED
    BY <1>1, <1>2, <2>1, <2>2, <2>4, Uneventful
<1>5. CASE RouteRaises(p) \/ ConfirmRaises(p) \/ ReportRaises(p)
  <2>1. Forget(p) /\ QuietRow
    BY <1>5 DEF RouteRaises, ConfirmRaises, ReportRaises, QuietRow
  <2>2. pc'[p] = "Idle" /\ tally'[p]["submit_failed"] = 0
    BY <1>1, <2>1 DEF Forget, NoTally, Outcomes
  <2> QED
    BY <1>1, <1>2, <2>1, <2>2, Uneventful DEF Critical, CyclePCs
<1> QED
  BY <1>3, <1>4, <1>5

\* The human's answer: the token is for an intent that is granted from now on.
LEMMA ConfirmAnswersSafe ==
    ASSUME TypeOK, TypeOK', Shape, OrderInv, SafetyInv, NEW p \in Procs, Alone(p),
           NEW t \in Tokens, ConfirmAnswers(p, t), UNCHANGED commandVars
    PROVE  SafetyInv'
<1>1. /\ pc \in [Procs -> {"Idle"} \cup CyclePCs \cup CommandPCs]
      /\ token \in [Procs -> Tokens \cup {NoToken}]
      /\ pc[p] = "Confirm" /\ pc'[p] = "Persist" /\ token'[p] = t
      /\ UNCHANGED <<log, book, tally>>
      /\ t.intent \in granted' /\ granted \subseteq granted'
  BY DEF ConfirmAnswers, GoTo, TypeOK, CycleOK
<1>2. RowsKept /\ BookKept /\ QuietRow
  BY <1>1 DEF RowsKept, BookKept, QuietRow
<1>3. ConfirmedInFlight' /\ PlacedAsConfirmed'
  BY <1>1 DEF SafetyInv, ConfirmedInFlight, PlacedAsConfirmed, Alone, CyclePCs,
              require_paper_safe, paper_submission_armed
<1>4. EvidenceHeld' /\ EvidencePreserved'
  BY <1>1, <1>2, EvidenceKept DEF SafetyInv, Alone
<1>5. ArtifactHeld'
  BY <1>1 DEF SafetyInv, ArtifactHeld, Alone
<1>6. SwitchesPaired'
  BY <1>1, <1>2, SwitchesKept DEF SafetyInv, Alone, TypeOK
<1>7. \A q \in Procs : tally[q]["submit_failed"] \in Nat
  BY DEF TypeOK, CycleOK, Outcomes
<1>8. FailuresKept'
  BY <1>1, <1>7, FailuresStay DEF SafetyInv, Alone
<1> QED
  BY <1>3, <1>4, <1>5, <1>6, <1>8 DEF SafetyInv

\* The attempt: its row carries the price, and its key was nobody's.
LEMMA PersistAttemptSafe ==
    ASSUME TypeOK, TypeOK', Shape, OrderInv, SafetyInv, NEW p \in Procs, Alone(p),
           PersistAttempt(p), UNCHANGED commandVars
    PROVE  SafetyInv'
<1> USE DEF Submitted, Reported
<1> DEFINE key == KeyOf(intent[p])
           row == SubmitEvent(intent[p])
<1>1. /\ pc \in [Procs -> {"Idle"} \cup CyclePCs \cup CommandPCs]
      /\ pc[p] = "Persist" /\ pc'[p] = "Submit" /\ UNCHANGED <<intent, token, tally, book, granted>>
      /\ intent[p] \in Intents /\ key \in Keys /\ StoreOK
  BY KeyType DEF PersistAttempt, GoTo, TypeOK, CycleOK, Shape
<1>2. /\ row \in StoredEvent /\ append(row) /\ SubmitsOf(log, key) = {}
      /\ row.type = "BROKER_SUBMIT_INTENT" /\ row.key = key /\ row.price = intent[p].price
  BY <1>1, SubmitEventType
     DEF PersistAttempt, record_submit_attempt, DuplicateIdempotencyKey, SubmitEvent
<1>3. RowsKept /\ BookKept
  BY <1>1, <1>2, AppendKeeps, QuietBook
<1>4. \A k : /\ SubmitsOf(log', k) # {} <=> SubmitsOf(log, k) # {} \/ k = key
             /\ ReportsOf(log', k) = ReportsOf(log, k)
  BY <1>1, <1>2, AppendSubmit
<1>5. \E i \in SubmitsOf(log', key) : log'[i].price = intent[p].price
  BY <1>1, <1>2, AppendRows DEF SubmitsOf
<1>6. \A k : \A i \in SubmitsOf(log, k) : i \in SubmitsOf(log', k) /\ log'[i] = log[i]
  BY <1>3 DEF RowsKept, SubmitsOf
<1>7. ConfirmedInFlight'
  BY <1>1, <1>5, <1>6 DEF SafetyInv, ConfirmedInFlight, Alone, CyclePCs, require_paper_safe,
                          paper_submission_armed
<1>8. PlacedAsConfirmed'
  BY <1>1, <1>6 DEF SafetyInv, PlacedAsConfirmed
<1>9. EvidenceHeld' /\ EvidencePreserved'
  BY <1>1, <1>3, <1>4, EvidenceKept DEF SafetyInv, Alone
<1>10. ArtifactHeld'
  BY <1>1 DEF SafetyInv, ArtifactHeld, Alone
<1>11. SwitchesPaired'
  <2>1. \A d, t : t # "BROKER_SUBMIT_INTENT" => RowsWith(log', t, d) = RowsWith(log, t, d)
    BY <1>1, <1>2, RowsWithAppend
  <2>2. \A d \in {"HALT", "RESUME"} : Owing(d)' = Owing(d)
    BY <1>1 DEF Owing, Alone
  <2> QED
    BY <2>1, <2>2 DEF SafetyInv, SwitchesPaired
<1>12. FailuresKept'
  <2>1. ReportsOf(log, key) = {}
    BY <1>1, <1>2 DEF OrderInv, PlacedOnRecord
  <2>2. \A q \in Procs : pc[q] \in {"Submit", "Report", "Failed"} =>
            KeyOf(intent[q]) # key /\ KeyOf(intent[q]) \in Keys
    BY <1>2, KeyType DEF Shape, OrderInv, AttemptInFlight, AnswerInFlight, SafetyInv, FailuresKept
  <2>3. HeldKeys' = HeldKeys \cup {key}
    BY <1>1 DEF HeldKeys, Alone
  <2>4. Abandoned' = Abandoned
    BY <1>2, <1>4, <2>3 DEF Abandoned
  <2>5. {k \in Keys : SubmitsOf(log', k) # {}} = {k \in Keys : SubmitsOf(log, k) # {}} \cup {key}
    BY <1>1, <1>4
  <2>6. IsFiniteSet({k \in Keys : SubmitsOf(log', k) # {}})
    BY <2>5, FS_AddElement DEF SafetyInv, FailuresKept
  <2>7. \A q \in Procs : pc'[q] = "Failed" =>
            SubmitsOf(log', KeyOf(intent'[q])) # {} /\ ReportsOf(log', KeyOf(intent'[q])) = {}
    BY <1>1, <1>4 DEF SafetyInv, FailuresKept, Alone
  <2>8. \A q, r \in Procs :
            /\ pc'[q] \in {"Submit", "Report", "Failed"} /\ pc'[r] \in {"Submit", "Report", "Failed"}
            /\ KeyOf(intent'[q]) = KeyOf(intent'[r])
            => q = r
    BY <1>1, <2>2 DEF SafetyInv, FailuresKept, Alone
  <2>9. \A q \in Procs : tally'[q]["submit_failed"] <= Cardinality(Abandoned')
    BY <1>1, <2>4 DEF SafetyInv, FailuresKept
  <2> QED
    BY <2>6, <2>7, <2>8, <2>9 DEF FailuresKept
<1> QED
  BY <1>7, <1>8, <1>9, <1>10, <1>11, <1>12 DEF SafetyInv

\* What an adapter holds after a submit: what it held, or an order for this intent.
LEMMA SubmitIntent ==
    ASSUME NEW b \in Brokers, NEW i \in Intents, NEW o \in SubmitOutcomes(b, i)
    PROVE  \/ book[b][KeyOf(i)] # NoOrder /\ o.order = book[b][KeyOf(i)]
           \/ o.order = NoOrder
           \/ o.order.intent = i
<1>1. simulate(Profile[b], i) = NoOrder \/ simulate(Profile[b], i).intent = i
  BY DEF simulate
<1>2. \A r \in RemoteSubmit(i) : r.order = NoOrder \/ r.order.intent = i
  <2> DEFINE new == {[intent |-> i, life |-> "WORKING", filled |-> 0],
                     [intent |-> i, life |-> "REJECTED", filled |-> 0],
                     [intent |-> i, life |-> "FILLED", filled |-> Requested(i)]}
  <2>1. \A order \in new : order.intent = i
    OBVIOUS
  <2>2. RemoteSubmit(i) = [reply : {"ack", "error"}, order : new]
                              \cup {[reply |-> "error", order |-> NoOrder]}
    BY DEF RemoteSubmit
  <2> HIDE DEF new
  <2> QED
    BY <2>1, <2>2
<1> QED
  BY <1>1, <1>2 DEF SubmitOutcomes

\* The broker call: the order is the confirmed one.
LEMMA SubmitToBrokerSafe ==
    ASSUME TypeOK, TypeOK', Shape, OrderInv, SafetyInv, NEW p \in Procs, Alone(p),
           SubmitToBroker(p), UNCHANGED commandVars
    PROVE  SafetyInv'
<1> DEFINE b == BrokerOf[p]
           i == intent[p]
<1>1. PICK o \in SubmitOutcomes(b, i) :
          /\ submit_order(b, i, o)
          /\ GoTo(p, IF o.reply = "ack" THEN "Report" ELSE "Failed")
  BY DEF SubmitToBroker
<1>2. /\ pc \in [Procs -> {"Idle"} \cup CyclePCs \cup CommandPCs]
      /\ pc[p] = "Submit" /\ pc'[p] \in {"Report", "Failed"}
      /\ UNCHANGED <<log, granted, intent, token, tally>>
      /\ b \in Brokers /\ i \in Intents /\ KeyOf(i) \in Keys
      /\ book \in [Brokers -> [Keys -> Order \cup {NoOrder}]]
  BY <1>1, KeyType DEF SubmitToBroker, GoTo, Shape, CyclePCs, TypeOK, CycleOK, BrokerOK
<1>3. \A c \in Brokers, j \in Keys :
          book'[c][j] = IF c = b /\ j = KeyOf(i) THEN o.order ELSE book[c][j]
  BY <1>1, <1>2 DEF submit_order
<1>4. /\ i \in granted
      /\ \E n \in SubmitsOf(log, KeyOf(i)) : log[n].price = i.price
  <2>1. token[p].intent = i
    BY <1>2 DEF SubmitToBroker, validate_submit, validate_human_confirmation, SafetyInv,
                ConfirmedInFlight, require_paper_safe, CyclePCs
  <2> QED
    BY <1>2, <2>1 DEF SafetyInv, ConfirmedInFlight
<1>5. PlacedAsConfirmed'
  <2> SUFFICES ASSUME NEW c \in Brokers, NEW j \in Keys, book'[c][j] # NoOrder
               PROVE  /\ \E n \in SubmitsOf(log, j) : log[n].price = book'[c][j].intent.price
                      /\ book'[c][j].intent \in granted
    BY <1>2 DEF PlacedAsConfirmed
  <2>1. CASE book[c][j] # NoOrder /\ book'[c][j] = book[c][j]
    BY <2>1 DEF SafetyInv, PlacedAsConfirmed
  <2>2. CASE ~(book[c][j] # NoOrder /\ book'[c][j] = book[c][j])
    <3>1. c = b /\ j = KeyOf(i) /\ book'[c][j] = o.order
      BY <1>3, <2>2
    <3>2. o.order.intent = i
      BY <1>2, <2>2, <3>1, SubmitIntent
    <3> QED
      BY <1>4, <3>1, <3>2
  <2> QED
    BY <2>1, <2>2
<1>6. ConfirmedInFlight'
  BY <1>2 DEF SafetyInv, ConfirmedInFlight, Alone, CyclePCs, require_paper_safe,
              paper_submission_armed
<1>7. RowsKept /\ QuietRow
  BY <1>2 DEF RowsKept, QuietRow
<1>8. EvidenceHeld' /\ EvidencePreserved'
  BY <1>2, <1>7, EvidenceKept DEF SafetyInv, Alone
<1>9. ArtifactHeld'
  BY <1>2 DEF SafetyInv, ArtifactHeld, Alone
<1>10. SwitchesPaired'
  BY <1>2, <1>7, SwitchesKept DEF SafetyInv, Alone, TypeOK
<1>11. \A q \in Procs : tally[q]["submit_failed"] \in Nat
  BY DEF TypeOK, CycleOK, Outcomes
<1>12. FailuresKept'
  BY <1>2, <1>11, FailuresStay DEF SafetyInv, Alone
<1> QED
  BY <1>5, <1>6, <1>8, <1>9, <1>10, <1>12 DEF SafetyInv

\* The local gate refuses: the attempt stays on record, without a report.
LEMMA SubmitRefusedSafe ==
    ASSUME TypeOK, TypeOK', Shape, OrderInv, SafetyInv, NEW p \in Procs, Alone(p),
           SubmitRefused(p), UNCHANGED commandVars
    PROVE  SafetyInv'
<1>1. /\ pc \in [Procs -> {"Idle"} \cup CyclePCs \cup CommandPCs]
      /\ pc[p] = "Submit" /\ pc'[p] = "Failed"
      /\ UNCHANGED <<log, book, granted, intent, token, tally>>
  BY DEF SubmitRefused, GoTo, TypeOK, CycleOK
<1>2. RowsKept /\ QuietRow /\ BookKept
  BY <1>1 DEF RowsKept, QuietRow, BookKept
<1>3. ConfirmedInFlight' /\ PlacedAsConfirmed'
  BY <1>1, <1>2, ConfirmedKept DEF SafetyInv, Alone, CyclePCs
<1>4. EvidenceHeld' /\ EvidencePreserved'
  BY <1>1, <1>2, EvidenceKept DEF SafetyInv, Alone
<1>5. ArtifactHeld'
  BY <1>1 DEF SafetyInv, ArtifactHeld, Alone
<1>6. SwitchesPaired'
  BY <1>1, <1>2, SwitchesKept DEF SafetyInv, Alone, TypeOK
<1>7. \A q \in Procs : tally[q]["submit_failed"] \in Nat
  BY DEF TypeOK, CycleOK, Outcomes
<1>8. FailuresKept'
  BY <1>1, <1>7, FailuresStay DEF SafetyInv, Alone
<1> QED
  BY <1>3, <1>4, <1>5, <1>6, <1>8 DEF SafetyInv

\* The failure is counted, and its key is abandoned in the same step.
LEMMA AuditFailureSafe ==
    ASSUME TypeOK, TypeOK', Shape, OrderInv, SafetyInv, NEW p \in Procs, Alone(p),
           AuditFailure(p), UNCHANGED commandVars
    PROVE  SafetyInv'
<1> USE DEF Submitted, Reported
<1> DEFINE key == KeyOf(intent[p])
<1>1. /\ pc \in [Procs -> {"Idle"} \cup CyclePCs \cup CommandPCs]
      /\ tally \in [Procs -> [Outcomes -> Nat]]
      /\ pc[p] = "Failed" /\ pc'[p] \in {"Finish", "Request"}
      /\ UNCHANGED <<book, granted>> /\ StoreOK /\ key \in Keys
  BY KeyType DEF AuditFailure, NextItem, TypeOK, CycleOK, Shape
<1>2. QuietRow /\ BookKept
  BY <1>1, QuietArtifact, QuietBook DEF AuditFailure, Decision
<1>3. /\ RowsKept /\ \A k : SubmitsOf(log', k) = SubmitsOf(log, k)
      /\ \A k : ReportsOf(log', k) = ReportsOf(log, k)
  BY <1>1, <1>2, QuietRows
<1>4. ConfirmedInFlight' /\ PlacedAsConfirmed'
  BY <1>1, <1>2, <1>3, ConfirmedKept DEF SafetyInv, Alone, CyclePCs
<1>5. EvidenceHeld' /\ EvidencePreserved'
  BY <1>1, <1>3, EvidenceKept DEF SafetyInv, Alone
<1>6. ArtifactHeld'
  BY <1>1 DEF SafetyInv, ArtifactHeld, Alone
<1>7. SwitchesPaired'
  BY <1>1, <1>2, SwitchesKept DEF SafetyInv, Alone
<1>8. FailuresKept'
  <2>1. /\ SubmitsOf(log, key) # {} /\ ReportsOf(log, key) = {} /\ key \in HeldKeys
        /\ IsFiniteSet({k \in Keys : SubmitsOf(log, k) # {}})
    BY <1>1 DEF SafetyInv, FailuresKept, HeldKeys
  <2>2. HeldKeys' = HeldKeys \ {key}
    BY <1>1 DEF SafetyInv, FailuresKept, HeldKeys, Alone
  <2>3. Abandoned' = Abandoned \cup {key} /\ key \notin Abandoned
    BY <1>1, <1>3, <2>1, <2>2 DEF Abandoned
  <2>4. IsFiniteSet(Abandoned)
    BY <2>1, FS_Subset DEF Abandoned
  <2>5. /\ Cardinality(Abandoned') = Cardinality(Abandoned) + 1
        /\ Cardinality(Abandoned) \in Nat
    BY <2>3, <2>4, FS_AddElement, FS_CardinalityType
  <2>6. \A q \in Procs : tally'[q]["submit_failed"] <= Cardinality(Abandoned')
    <3> TAKE q \in Procs
    <3>1. /\ tally[q]["submit_failed"] \in Nat
          /\ tally[q]["submit_failed"] <= Cardinality(Abandoned)
      BY <1>1 DEF SafetyInv, FailuresKept, Outcomes
    <3>2. tally'[q]["submit_failed"] \in
              {tally[q]["submit_failed"], tally[q]["submit_failed"] + 1}
      BY <1>1 DEF AuditFailure, NextItem, Outcomes
    <3> QED
      BY <2>5, <3>1, <3>2
  <2>7. \A q \in Procs : pc'[q] = "Failed" =>
            SubmitsOf(log', KeyOf(intent'[q])) # {} /\ ReportsOf(log', KeyOf(intent'[q])) = {}
    BY <1>1, <1>3 DEF SafetyInv, FailuresKept, Alone
  <2>8. \A q, r \in Procs :
            /\ pc'[q] \in {"Submit", "Report", "Failed"} /\ pc'[r] \in {"Submit", "Report", "Failed"}
            /\ KeyOf(intent'[q]) = KeyOf(intent'[r])
            => q = r
    BY <1>1 DEF SafetyInv, FailuresKept, Alone
  <2> QED
    BY <1>3, <2>1, <2>6, <2>7, <2>8 DEF FailuresKept
<1> QED
  BY <1>4, <1>5, <1>6, <1>7, <1>8 DEF SafetyInv

-----------------------------------------------------------------------------
(* Reports. *)

\* A report is a row under its own key; it moves no attempt and no switch.
LEMMA ReportWritten ==
    ASSUME StoreOK, NEW key \in Keys, NEW life \in OrderLifecycleState, NEW n \in Nat,
           append(ReportEvent(key, life, n))
    PROVE  /\ RowsKept
           /\ \A k : SubmitsOf(log', k) = SubmitsOf(log, k)
           /\ \A k : ReportsOf(log', k) =
                        ReportsOf(log, k) \cup (IF k = key THEN {Len(log) + 1} ELSE {})
           /\ \A k : \A i \in ReportsOf(log, k) : log'[i] = log[i]
           /\ log'[Len(log) + 1].filled = n
           /\ \A t, d : t # "EXECUTION_REPORT" => RowsWith(log', t, d) = RowsWith(log, t, d)
<1> DEFINE row == ReportEvent(key, life, n)
<1>1. row \in StoredEvent
  BY ReportEventType
<1>2. row.type = "EXECUTION_REPORT" /\ row.key = key /\ row.filled = n
  BY DEF ReportEvent
<1> HIDE DEF row
<1>3. /\ Len(log) \in Nat /\ Len(log') = Len(log) + 1
      /\ \A i \in 1..Len(log) : log'[i] = log[i]
      /\ log'[Len(log) + 1] = row
  BY <1>1, AppendRows DEF row
<1>4. RowsKept
  BY <1>3 DEF RowsKept
<1>5. \A k : SubmitsOf(log', k) = SubmitsOf(log, k)
  BY <1>2, <1>3 DEF SubmitsOf
<1>6. \A k : ReportsOf(log', k) =
                ReportsOf(log, k) \cup (IF k = key THEN {Len(log) + 1} ELSE {})
  BY <1>2, <1>3 DEF ReportsOf
<1>7. \A k : \A i \in ReportsOf(log, k) : log'[i] = log[i]
  BY <1>3 DEF ReportsOf
<1>8. \A t, d : t # "EXECUTION_REPORT" => RowsWith(log', t, d) = RowsWith(log, t, d)
  BY <1>2, <1>3 DEF RowsWith
<1> QED
  BY <1>2, <1>3, <1>4, <1>5, <1>6, <1>7, <1>8

\* The report of a submit: the first of its key, and no cancel holds that key yet.
LEMMA AppendReportSafe ==
    ASSUME TypeOK, TypeOK', Shape, OrderInv, SafetyInv, NEW p \in Procs, Alone(p),
           AppendReport(p), UNCHANGED commandVars
    PROVE  SafetyInv'
<1> USE DEF Submitted, Reported
<1> DEFINE key == KeyOf(intent[p])
<1>1. /\ pc \in [Procs -> {"Idle"} \cup CyclePCs \cup CommandPCs]
      /\ tally \in [Procs -> [Outcomes -> Nat]]
      /\ pc[p] = "Report" /\ pc'[p] \in {"Finish", "Request"}
      /\ UNCHANGED <<book, granted, todo, target>> /\ StoreOK /\ key \in Keys
  BY KeyType DEF AppendReport, NextItem, TypeOK, CycleOK, Shape
<1>2. fill[p].life \in OrderLifecycleState /\ fill[p].filled \in Nat
  BY <1>1 DEF Shape, Order
<1>3. /\ RowsKept
      /\ \A k : SubmitsOf(log', k) = SubmitsOf(log, k)
      /\ \A k : ReportsOf(log', k) =
                   ReportsOf(log, k) \cup (IF k = key THEN {Len(log) + 1} ELSE {})
      /\ \A k : \A i \in ReportsOf(log, k) : log'[i] = log[i]
      /\ \A t, d : t # "EXECUTION_REPORT" => RowsWith(log', t, d) = RowsWith(log, t, d)
  BY <1>1, <1>2, ReportWritten DEF AppendReport
<1>4. ReportsOf(log, key) = {}
  BY <1>1 DEF OrderInv, AnswerInFlight
<1>5. ConfirmedInFlight' /\ PlacedAsConfirmed'
  BY <1>1, <1>3, QuietBook, ConfirmedKept DEF SafetyInv, Alone, CyclePCs
<1>6. EvidencePreserved'
  BY <1>3, <1>4 DEF SafetyInv, EvidencePreserved
<1>7. EvidenceHeld'
  <2>1. \A q \in Procs : pc'[q] \in {"CancelResolve", "CancelNext", "CancelReport"} =>
            /\ pc[q] = pc'[q]
            /\ \A f \in todo[q] : f.key # key
            /\ pc[q] = "CancelReport" => target[q].key # key
    BY <1>1, <1>4 DEF OrderInv, CancelInFlight, Alone
  <2>2. ASSUME NEW k, k # key, NEW n, \A i \in ReportsOf(log, k) : log[i].filled = n
        PROVE  \A i \in ReportsOf(log', k) : log'[i].filled = n
    BY <1>3, <2>2
  <2>3. \A q \in Procs : pc'[q] \in {"CancelResolve", "CancelNext", "CancelReport"} =>
            \A f \in todo'[q] : \A i \in ReportsOf(log', f.key) : log'[i].filled = f.filled
    BY <1>1, <2>1, <2>2 DEF SafetyInv, EvidenceHeld
  <2>4. \A q \in Procs : pc'[q] = "CancelReport" =>
            \A i \in ReportsOf(log', target'[q].key) : log'[i].filled = target'[q].filled
    <3> SUFFICES ASSUME NEW q \in Procs, pc'[q] = "CancelReport"
                 PROVE  \A i \in ReportsOf(log', target[q].key) : log'[i].filled = target[q].filled
      BY <1>1
    <3>1. /\ target[q].key # key
          /\ \A i \in ReportsOf(log, target[q].key) : log[i].filled = target[q].filled
      BY <2>1 DEF SafetyInv, EvidenceHeld
    <3> QED
      BY <2>2, <3>1
  <2> QED
    BY <2>3, <2>4 DEF EvidenceHeld
<1>8. ArtifactHeld'
  BY <1>1 DEF SafetyInv, ArtifactHeld, Alone
<1>9. SwitchesPaired'
  <2>1. \A d \in {"HALT", "RESUME"} : Owing(d)' = Owing(d)
    BY <1>1 DEF Owing, Alone
  <2> QED
    BY <1>3, <2>1 DEF SafetyInv, SwitchesPaired
<1>10. FailuresKept'
  <2>1. \A q \in Procs : q # p /\ pc[q] \in {"Submit", "Report", "Failed"} =>
            KeyOf(intent[q]) # key
    BY <1>1 DEF SafetyInv, FailuresKept
  <2>2. HeldKeys' = HeldKeys \ {key} /\ key \in HeldKeys
    BY <1>1, <2>1 DEF HeldKeys, Alone
  <2>3. Abandoned' = Abandoned
    BY <1>3, <2>2 DEF Abandoned
  <2>4. \A q \in Procs : tally'[q]["submit_failed"] = tally[q]["submit_failed"]
    BY <1>1 DEF AppendReport, NextItem, Outcomes
  <2>5. \A q \in Procs : pc'[q] = "Failed" =>
            SubmitsOf(log', KeyOf(intent'[q])) # {} /\ ReportsOf(log', KeyOf(intent'[q])) = {}
    <3> SUFFICES ASSUME NEW q \in Procs, pc'[q] = "Failed"
                 PROVE  /\ SubmitsOf(log', KeyOf(intent'[q])) # {}
                        /\ ReportsOf(log', KeyOf(intent'[q])) = {}
      OBVIOUS
    <3>1. q # p /\ pc[q] = "Failed" /\ intent'[q] = intent[q]
      BY <1>1 DEF Alone
    <3>2. SubmitsOf(log, KeyOf(intent[q])) # {} /\ ReportsOf(log, KeyOf(intent[q])) = {}
      BY <3>1 DEF SafetyInv, FailuresKept
    <3>3. KeyOf(intent[q]) # key
      BY <2>1, <3>1
    <3> QED
      BY <1>3, <3>1, <3>2, <3>3
  <2>6. \A q, r \in Procs :
            /\ pc'[q] \in {"Submit", "Report", "Failed"} /\ pc'[r] \in {"Submit", "Report", "Failed"}
            /\ KeyOf(intent'[q]) = KeyOf(intent'[r])
            => q = r
    BY <1>1 DEF SafetyInv, FailuresKept, Alone
  <2> QED
    BY <1>3, <2>3, <2>4, <2>5, <2>6 DEF SafetyInv, FailuresKept
<1> QED
  BY <1>5, <1>6, <1>7, <1>8, <1>9, <1>10 DEF SafetyInv

\* The terminal report of a cancel carries the evidence every earlier report carries.
LEMMA CancelReportSafe ==
    ASSUME TypeOK, TypeOK', Shape, OrderInv, SafetyInv, NEW p \in Procs, Alone(p),
           CancelReport(p)
    PROVE  SafetyInv'
<1> USE DEF Submitted, Reported
<1> DEFINE key == target[p].key
           new == Len(log) + 1
<1>1. /\ pc \in [Procs -> {"Idle"} \cup CyclePCs \cup CommandPCs]
      /\ pc[p] = "CancelReport" /\ pc'[p] = "CancelNext"
      /\ UNCHANGED <<book, granted, todo, intent, token, tally, audits>> /\ StoreOK
      /\ target[p] \in Fills /\ key \in Keys
  BY DEF CancelReport, GoTo, TypeOK, CycleOK, Shape, Fills
<1>2. target[p].life \in OrderLifecycleState /\ target[p].filled \in Nat
  BY <1>1 DEF Fills
<1>3. /\ RowsKept
      /\ \A k : SubmitsOf(log', k) = SubmitsOf(log, k)
      /\ \A k : ReportsOf(log', k) = ReportsOf(log, k) \cup (IF k = key THEN {new} ELSE {})
      /\ \A k : \A i \in ReportsOf(log, k) : log'[i] = log[i]
      /\ log'[new].filled = target[p].filled
      /\ \A t, d : t # "EXECUTION_REPORT" => RowsWith(log', t, d) = RowsWith(log, t, d)
  BY <1>1, <1>2, ReportWritten DEF CancelReport
<1>4. /\ ReportsOf(log, key) # {}
      /\ \A i \in ReportsOf(log, key) : log[i].filled = target[p].filled
  BY <1>1 DEF OrderInv, CancelInFlight, SafetyInv, EvidenceHeld
<1> HIDE DEF new
<1>5. \A i \in ReportsOf(log', key) : log'[i].filled = target[p].filled
  BY <1>3, <1>4
<1>6. ConfirmedInFlight' /\ PlacedAsConfirmed'
  BY <1>1, <1>3, QuietBook, ConfirmedKept DEF SafetyInv, Alone, CyclePCs
<1>7. EvidencePreserved'
  BY <1>3, <1>5 DEF SafetyInv, EvidencePreserved
<1>8. EvidenceHeld'
  <2>1. ASSUME NEW f \in Fills, \A i \in ReportsOf(log, f.key) : log[i].filled = f.filled
        PROVE  \A i \in ReportsOf(log', f.key) : log'[i].filled = f.filled
    <3>1. CASE f.key = key
      BY <1>4, <1>5, <2>1, <3>1
    <3>2. CASE f.key # key
      BY <1>3, <2>1, <3>2
    <3> QED
      BY <3>1, <3>2
  <2>2. \A q \in Procs : /\ todo[q] \subseteq Fills
                         /\ pc[q] = "CancelReport" => target[q] \in Fills
    BY DEF TypeOK, CommandOK, Shape
  <2>3. \A q \in Procs : pc'[q] \in {"CancelResolve", "CancelNext", "CancelReport"} =>
            \A f \in todo'[q] : \A i \in ReportsOf(log', f.key) : log'[i].filled = f.filled
    BY <1>1, <2>1, <2>2 DEF SafetyInv, EvidenceHeld, Alone
  <2>4. \A q \in Procs : pc'[q] = "CancelReport" =>
            \A i \in ReportsOf(log', target'[q].key) : log'[i].filled = target'[q].filled
    BY <1>1, <2>1, <2>2 DEF SafetyInv, EvidenceHeld, Alone
  <2> QED
    BY <2>3, <2>4 DEF EvidenceHeld
<1>9. ArtifactHeld'
  BY <1>1 DEF SafetyInv, ArtifactHeld, Alone
<1>10. SwitchesPaired'
  <2>1. \A d \in {"HALT", "RESUME"} : Owing(d)' = Owing(d)
    BY <1>1 DEF Owing, Alone
  <2> QED
    BY <1>3, <2>1 DEF SafetyInv, SwitchesPaired
<1>11. \A q \in Procs : tally[q]["submit_failed"] \in Nat
  BY DEF TypeOK, CycleOK, Outcomes
<1>12. \A k : ReportsOf(log', k) # {} <=> ReportsOf(log, k) # {}
  BY <1>3, <1>4
<1>13. FailuresKept'
  BY <1>1, <1>3, <1>11, <1>12, FailuresStay DEF SafetyInv, Alone
<1> QED
  BY <1>6, <1>7, <1>8, <1>9, <1>10, <1>13 DEF SafetyInv

-----------------------------------------------------------------------------
(* The operator commands. *)

\* The parts of the invariant a command that only writes an artifact cannot disturb.
LEMMA ArtifactOnly ==
    ASSUME TypeOK, TypeOK', Shape, OrderInv, SafetyInv, NEW p \in Procs, Alone(p), QuietRow,
           pc'[p] \notin Critical \ {"HaltState", "ResumeState", "CliReject"},
           pc'[p] \notin CyclePCs, UNCHANGED <<book, granted, tally>>
    PROVE  /\ ConfirmedInFlight' /\ PlacedAsConfirmed' /\ EvidenceHeld' /\ EvidencePreserved'
           /\ FailuresKept'
<1>1. /\ StoreOK /\ RowsKept /\ BookKept
      /\ \A k : SubmitsOf(log', k) = SubmitsOf(log, k)
      /\ \A k : ReportsOf(log', k) = ReportsOf(log, k)
  BY QuietRows, QuietBook DEF TypeOK
<1>2. ConfirmedInFlight' /\ PlacedAsConfirmed'
  BY <1>1, ConfirmedKept DEF SafetyInv, Alone, CyclePCs
<1>3. EvidenceHeld' /\ EvidencePreserved'
  BY <1>1, EvidenceKept DEF SafetyInv, Alone, Critical
<1>4. \A q \in Procs : tally[q]["submit_failed"] \in Nat
  BY DEF TypeOK, CycleOK, Outcomes
<1>5. FailuresKept'
  BY <1>1, <1>4, FailuresStay DEF SafetyInv, Alone, Critical
<1> QED
  BY <1>2, <1>3, <1>5

\* halt-new-entries and resume-new-entries: one more artifact, one more row owed.
LEMMA SwitchCommandSafe ==
    ASSUME TypeOK, TypeOK', Shape, OrderInv, SafetyInv, NEW p \in Procs, Alone(p),
           NEW d \in {"HALT", "RESUME"},
           SwitchCommand(p, d, IF d = "HALT" THEN "HaltState" ELSE "ResumeState")
    PROVE  SafetyInv'
<1> DEFINE next == IF d = "HALT" THEN "HaltState" ELSE "ResumeState"
           row == AuditArtifact(d)
<1>1. /\ pc \in [Procs -> {"Idle"} \cup CyclePCs \cup CommandPCs] /\ audits \in [Procs -> Nat]
      /\ pc[p] = "Idle" /\ pc'[p] = next /\ audits'[p] = 1 /\ append(row) /\ StoreOK
      /\ UNCHANGED <<book, granted, tally>>
  BY DEF SwitchCommand, FirstAudit, GoTo, TypeOK, CycleOK, CommandOK
<1>2. QuietRow
  BY <1>1, QuietArtifact DEF Decision
<1>3. /\ ConfirmedInFlight' /\ PlacedAsConfirmed' /\ EvidenceHeld' /\ EvidencePreserved'
      /\ FailuresKept'
  BY <1>1, <1>2, ArtifactOnly DEF Critical, CyclePCs
<1>4. ArtifactHeld'
  BY <1>1 DEF SafetyInv, ArtifactHeld, Alone
<1>5. SwitchesPaired'
  <2> SUFFICES ASSUME NEW c \in {"HALT", "RESUME"}
               PROVE  /\ IsFiniteSet(Owing(c)')
                      /\ Cardinality(RowsWith(log', "KILL_SWITCH_STATE", c))
                             + Cardinality(Owing(c)')
                             <= Cardinality(RowsWith(log', "AUDIT_ARTIFACT", c))
    BY DEF SwitchesPaired
  <2>1. row \in StoredEvent /\ row.type = "AUDIT_ARTIFACT" /\ row.decision = d
    BY PlainType DEF AuditArtifact, Plain, RecordType, Decision
  <2>2. /\ IsFiniteSet(RowsWith(log, "AUDIT_ARTIFACT", c))
        /\ Len(log) + 1 \notin RowsWith(log, "AUDIT_ARTIFACT", c)
        /\ RowsWith(log', "AUDIT_ARTIFACT", c) =
              IF d = c THEN RowsWith(log, "AUDIT_ARTIFACT", c) \cup {Len(log) + 1}
              ELSE RowsWith(log, "AUDIT_ARTIFACT", c)
        /\ RowsWith(log', "KILL_SWITCH_STATE", c) = RowsWith(log, "KILL_SWITCH_STATE", c)
    BY <1>1, <2>1, RowsWithAppend
  <2>3. /\ Cardinality(RowsWith(log, "AUDIT_ARTIFACT", c)) \in Nat
        /\ Cardinality(RowsWith(log, "KILL_SWITCH_STATE", c)) \in Nat
    BY <1>1, RowsFinite
  <2>4. /\ IsFiniteSet(Owing(c)) /\ Cardinality(Owing(c)) \in Nat
        /\ Cardinality(RowsWith(log, "KILL_SWITCH_STATE", c)) + Cardinality(Owing(c))
               <= Cardinality(RowsWith(log, "AUDIT_ARTIFACT", c))
    BY FS_CardinalityType DEF SafetyInv, SwitchesPaired
  <2>5. CASE c = d
    <3>1. Owing(c)' = Owing(c) \cup {p} /\ p \notin Owing(c)
      BY <1>1, <2>5 DEF Owing, Alone
    <3>2. IsFiniteSet(Owing(c)') /\ Cardinality(Owing(c)') = Cardinality(Owing(c)) + 1
      BY <2>4, <3>1, FS_AddElement
    <3>3. Cardinality(RowsWith(log', "AUDIT_ARTIFACT", c)) =
              Cardinality(RowsWith(log, "AUDIT_ARTIFACT", c)) + 1
      BY <2>2, <2>5, FS_AddElement
    <3> QED
      BY <2>2, <2>3, <2>4, <3>2, <3>3
  <2>6. CASE c # d
    <3>1. Owing(c)' = Owing(c)
      BY <1>1, <2>6 DEF Owing, Alone
    <3> QED
      BY <2>2, <2>4, <2>6, <3>1
  <2> QED
    BY <2>5, <2>6
<1> QED
  BY <1>3, <1>4, <1>5 DEF SafetyInv

\* The switch is persisted: the row that was owed.
LEMMA PersistSwitchSafe ==
    ASSUME TypeOK, TypeOK', Shape, OrderInv, SafetyInv, NEW p \in Procs, Alone(p),
           PersistSwitch(p)
    PROVE  SafetyInv'
<1> DEFINE d == IF pc[p] = "HaltState" THEN "HALT" ELSE "RESUME"
           row == Plain("KILL_SWITCH_STATE", d)
<1>1. /\ pc \in [Procs -> {"Idle"} \cup CyclePCs \cup CommandPCs]
      /\ pc[p] \in {"HaltState", "ResumeState"} /\ pc'[p] = "Idle" /\ append(row) /\ StoreOK
      /\ UNCHANGED <<book, granted, tally, todo, target, audits, intent, token>>
  BY DEF PersistSwitch, GoTo, TypeOK, CycleOK
<1>2. /\ row \in StoredEvent /\ row.type = "KILL_SWITCH_STATE" /\ row.decision = d
      /\ d \in {"HALT", "RESUME"}
  BY PlainType DEF Plain, RecordType, Decision
<1>3. RowsKept /\ BookKept
  BY <1>1, <1>2, AppendKeeps, QuietBook
<1>4. \A k : SubmitsOf(log', k) = SubmitsOf(log, k) /\ ReportsOf(log', k) = ReportsOf(log, k)
  BY <1>1, <1>2, AppendOther
<1>5. ConfirmedInFlight' /\ PlacedAsConfirmed'
  BY <1>1, <1>3, ConfirmedKept DEF SafetyInv, Alone, CyclePCs
<1>6. EvidenceHeld' /\ EvidencePreserved'
  BY <1>1, <1>3, <1>4, EvidenceKept DEF SafetyInv, Alone
<1>7. ArtifactHeld'
  BY <1>1 DEF SafetyInv, ArtifactHeld, Alone
<1>8. \A q \in Procs : tally[q]["submit_failed"] \in Nat
  BY DEF TypeOK, CycleOK, Outcomes
<1>9. FailuresKept'
  BY <1>1, <1>4, <1>8, FailuresStay DEF SafetyInv, Alone
<1>10. SwitchesPaired'
  <2> SUFFICES ASSUME NEW c \in {"HALT", "RESUME"}
               PROVE  /\ IsFiniteSet(Owing(c)')
                      /\ Cardinality(RowsWith(log', "KILL_SWITCH_STATE", c))
                             + Cardinality(Owing(c)')
                             <= Cardinality(RowsWith(log', "AUDIT_ARTIFACT", c))
    BY DEF SwitchesPaired
  <2>1. /\ IsFiniteSet(RowsWith(log, "KILL_SWITCH_STATE", c))
        /\ Len(log) + 1 \notin RowsWith(log, "KILL_SWITCH_STATE", c)
        /\ RowsWith(log', "KILL_SWITCH_STATE", c) =
              IF d = c THEN RowsWith(log, "KILL_SWITCH_STATE", c) \cup {Len(log) + 1}
              ELSE RowsWith(log, "KILL_SWITCH_STATE", c)
        /\ RowsWith(log', "AUDIT_ARTIFACT", c) = RowsWith(log, "AUDIT_ARTIFACT", c)
    BY <1>1, <1>2, RowsWithAppend
  <2>2. /\ Cardinality(RowsWith(log, "AUDIT_ARTIFACT", c)) \in Nat
        /\ Cardinality(RowsWith(log, "KILL_SWITCH_STATE", c)) \in Nat
    BY <1>1, RowsFinite
  <2>3. /\ IsFiniteSet(Owing(c)) /\ Cardinality(Owing(c)) \in Nat
        /\ Cardinality(RowsWith(log, "KILL_SWITCH_STATE", c)) + Cardinality(Owing(c))
               <= Cardinality(RowsWith(log, "AUDIT_ARTIFACT", c))
    BY FS_CardinalityType DEF SafetyInv, SwitchesPaired
  <2>4. CASE c = d
    <3>1. Owing(c)' = Owing(c) \ {p} /\ p \in Owing(c)
      BY <1>1, <2>4 DEF Owing, Alone
    <3>2. IsFiniteSet(Owing(c)') /\ Cardinality(Owing(c)') = Cardinality(Owing(c)) - 1
      BY <2>3, <3>1, FS_RemoveElement
    <3>3. Cardinality(RowsWith(log', "KILL_SWITCH_STATE", c)) =
              Cardinality(RowsWith(log, "KILL_SWITCH_STATE", c)) + 1
      BY <2>1, <2>4, FS_AddElement
    <3> QED
      BY <2>1, <2>2, <2>3, <3>2, <3>3
  <2>5. CASE c # d
    <3>1. Owing(c)' = Owing(c)
      BY <1>1, <2>5 DEF Owing, Alone
    <3> QED
      BY <2>1, <2>3, <2>5, <3>1
  <2> QED
    BY <2>4, <2>5
<1> QED
  BY <1>5, <1>6, <1>7, <1>9, <1>10 DEF SafetyInv

\* A refused command has its artifact before commands.main writes the second one.
LEMMA RefuseCommandSafe ==
    ASSUME TypeOK, TypeOK', Shape, OrderInv, SafetyInv, NEW p \in Procs, Alone(p),
           RefuseCommand(p)
    PROVE  SafetyInv'
<1>1. /\ pc \in [Procs -> {"Idle"} \cup CyclePCs \cup CommandPCs] /\ audits \in [Procs -> Nat]
      /\ pc[p] = "Idle" /\ pc'[p] \in {"CliReject", "Idle"} /\ audits'[p] = 1 /\ StoreOK
      /\ UNCHANGED <<book, granted, tally>>
  BY DEF RefuseCommand, FirstAudit, GoTo, TypeOK, CycleOK, CommandOK
<1>2. QuietRow
  BY QuietArtifact DEF RefuseCommand, FirstAudit, Decision
<1>3. /\ ConfirmedInFlight' /\ PlacedAsConfirmed' /\ EvidenceHeld' /\ EvidencePreserved'
      /\ FailuresKept'
  BY <1>1, <1>2, ArtifactOnly DEF Critical, CyclePCs
<1>4. ArtifactHeld'
  BY <1>1 DEF SafetyInv, ArtifactHeld, Alone
<1>5. SwitchesPaired'
  BY <1>1, <1>2, SwitchesKept DEF SafetyInv, Alone
<1> QED
  BY <1>3, <1>4, <1>5 DEF SafetyInv

\* cancel-open-orders starts with nothing to cancel, and takes on an order only after its
\* latest report was found to carry the broker's evidence.
LEMMA CancelResolveSafe ==
    ASSUME TypeOK, TypeOK', Shape, OrderInv, SafetyInv, NEW p \in Procs, Alone(p),
           cancel_open_orders(p) \/ CancelResolve(p)
    PROVE  SafetyInv'
<1>1. /\ pc \in [Procs -> {"Idle"} \cup CyclePCs \cup CommandPCs]
      /\ todo \in [Procs -> SUBSET Fills]
      /\ pc'[p] \in {"CancelResolve", "CancelNext", "CmdReject"}
      /\ UNCHANGED <<log, book, granted, intent, token, tally>> /\ StoreOK
  BY DEF cancel_open_orders, CancelResolve, GoTo, TypeOK, CycleOK, CommandOK
<1>2. RowsKept /\ QuietRow /\ BookKept
  BY <1>1 DEF RowsKept, QuietRow, BookKept
<1>3. ConfirmedInFlight' /\ PlacedAsConfirmed'
  BY <1>1, <1>2, ConfirmedKept DEF SafetyInv, Alone, CyclePCs
<1>4. EvidencePreserved'
  BY <1>1 DEF SafetyInv, EvidencePreserved
<1>5. EvidenceHeld'
  <2>1. \A f \in todo'[p] : \A i \in ReportsOf(log, f.key) : log[i].filled = f.filled
    <3>1. CASE cancel_open_orders(p)
      BY <1>1, <3>1 DEF cancel_open_orders
    <3>2. CASE CancelResolve(p)
      <4>1. ASSUME NEW f \in Fills, resolve_cancel_identity(f)
            PROVE  \A i \in ReportsOf(log, f.key) : log[i].filled = f.filled
        <5>1. f.key \in Keys
          BY DEF Fills
        <5> QED
          BY <4>1, <5>1 DEF resolve_cancel_identity, SafetyInv, EvidencePreserved
      <4>2. pc[p] = "CancelResolve" /\ snap[p] \subseteq Fills
        BY <3>2 DEF CancelResolve, TypeOK, CommandOK
      <4>3. \A f \in todo[p] : \A i \in ReportsOf(log, f.key) : log[i].filled = f.filled
        BY <4>2 DEF SafetyInv, EvidenceHeld
      <4>4. \/ UNCHANGED todo
            \/ \E f \in snap[p] : /\ resolve_cancel_identity(f)
                                  /\ todo' = [todo EXCEPT ![p] = @ \cup {f}]
        BY <3>2 DEF CancelResolve
      <4>5. CASE UNCHANGED todo
        BY <4>3, <4>5
      <4>6. CASE ~UNCHANGED todo
        <5>1. PICK f \in snap[p] : /\ resolve_cancel_identity(f)
                                   /\ todo' = [todo EXCEPT ![p] = @ \cup {f}]
          BY <4>4, <4>6
        <5>2. todo'[p] = todo[p] \cup {f}
          BY <1>1, <5>1
        <5>3. \A i \in ReportsOf(log, f.key) : log[i].filled = f.filled
          BY <4>1, <4>2, <5>1
        <5> QED
          BY <4>3, <5>2, <5>3
      <4> QED
        BY <4>5, <4>6
    <3> QED
      BY <3>1, <3>2
  <2>2. \A q \in Procs \ {p} :
            pc'[q] = pc[q] /\ todo'[q] = todo[q] /\ target'[q] = target[q]
    BY DEF Alone
  <2> QED
    BY <1>1, <2>1, <2>2 DEF SafetyInv, EvidenceHeld
<1>6. ArtifactHeld'
  BY <1>1 DEF SafetyInv, ArtifactHeld, Alone
<1>7. SwitchesPaired'
  BY <1>1, <1>2, SwitchesKept DEF SafetyInv, Alone
<1>8. \A q \in Procs : tally[q]["submit_failed"] \in Nat
  BY DEF TypeOK, CycleOK, Outcomes
<1>9. FailuresKept'
  BY <1>1, <1>8, FailuresStay DEF SafetyInv, Alone
<1> QED
  BY <1>3, <1>4, <1>5, <1>6, <1>7, <1>9 DEF SafetyInv

\* A cancel leaves the broker with the same orders for the same intents.
LEMMA CancelBook ==
    ASSUME BrokerOK, NEW b \in Brokers, NEW k \in Keys, NEW o \in CancelOutcomes(b, k),
           cancel_order(b, k, o)
    PROVE  BookKept
<1>1. book[b][k] \in Order \cup {NoOrder} /\ NoOrder \notin Order
  BY CycleNoneAssumption DEF BrokerOK
<1>2. o.order # NoOrder => book[b][k] # NoOrder /\ o.order.intent = book[b][k].intent
  <2>1. CASE k \notin OpenOrders(b)
    BY <2>1 DEF CancelOutcomes
  <2>2. CASE k \in OpenOrders(b)
    <3>1. book[b][k] \in Order /\ book[b][k] # NoOrder
      BY <1>1, <2>2 DEF OpenOrders
    <3>2. [book[b][k] EXCEPT !.life = "CANCELLED"].intent = book[b][k].intent
      BY <3>1 DEF Order
    <3>3. o.order \in {book[b][k], [book[b][k] EXCEPT !.life = "CANCELLED"]}
      BY <2>2 DEF CancelOutcomes, RemoteCancel
    <3> QED
      BY <3>1, <3>2, <3>3
  <2> QED
    BY <2>1, <2>2
<1>3. \A c \in Brokers, j \in Keys :
          book'[c][j] = IF c = b /\ j = k THEN o.order ELSE book[c][j]
  BY DEF cancel_order, BrokerOK
<1> QED
  BY <1>2, <1>3 DEF BookKept

\* The broker confirms a cancel only with the authenticated evidence.
LEMMA CancelAtBrokerSafe ==
    ASSUME TypeOK, TypeOK', Shape, OrderInv, SafetyInv, NEW p \in Procs, Alone(p),
           CancelAtBroker(p)
    PROVE  SafetyInv'
<1> DEFINE b == BrokerOf[p]
<1>1. /\ pc \in [Procs -> {"Idle"} \cup CyclePCs \cup CommandPCs]
      /\ todo \in [Procs -> SUBSET Fills] /\ target \in [Procs -> Fills \cup {NoTarget}]
      /\ pc[p] = "CancelNext" /\ b \in Brokers /\ BrokerOK
      /\ UNCHANGED <<log, granted, intent, token, tally, audits>> /\ StoreOK
  BY DEF CancelAtBroker, GoTo, TypeOK, CycleOK, CommandOK, Shape, BrokerPCs
<1>2. PICK f \in todo[p] : \E o \in CancelOutcomes(b, f.key) :
          /\ cancel_order(b, f.key, o)
          /\ IF CancelConfirmed(f, o)
             THEN /\ GoTo(p, "CancelReport")
                  /\ target' = [target EXCEPT ![p] = CancelResponse(f, o)]
                  /\ todo' = [todo EXCEPT ![p] = @ \ {f}]
             ELSE GoTo(p, "CmdReject") /\ UNCHANGED <<target, todo>>
  BY DEF CancelAtBroker
<1>a. PICK o \in CancelOutcomes(b, f.key) :
          /\ cancel_order(b, f.key, o)
          /\ IF CancelConfirmed(f, o)
             THEN /\ GoTo(p, "CancelReport")
                  /\ target' = [target EXCEPT ![p] = CancelResponse(f, o)]
                  /\ todo' = [todo EXCEPT ![p] = @ \ {f}]
             ELSE GoTo(p, "CmdReject") /\ UNCHANGED <<target, todo>>
  BY <1>2
<1>3. f \in Fills /\ f.key \in Keys
  BY <1>1 DEF Fills
<1>4. BookKept
  BY <1>1, <1>a, <1>3, CancelBook
<1>5. RowsKept /\ QuietRow
  BY <1>1 DEF RowsKept, QuietRow
<1>6. pc'[p] \in {"CancelReport", "CmdReject"}
  BY <1>1, <1>a DEF GoTo
<1>7. ConfirmedInFlight' /\ PlacedAsConfirmed'
  BY <1>1, <1>4, <1>5, <1>6, ConfirmedKept DEF SafetyInv, Alone, CyclePCs
<1>8. EvidencePreserved'
  BY <1>1 DEF SafetyInv, EvidencePreserved
<1>9. EvidenceHeld'
  <2>1. todo'[p] \subseteq todo[p]
    BY <1>1, <1>a
  <2>2. pc'[p] = "CancelReport" => target'[p].key = f.key /\ target'[p].filled = f.filled
    <3>1. CASE CancelConfirmed(f, o)
      <4>1. target'[p] = CancelResponse(f, o)
        BY <1>1, <1>a, <3>1
      <4>2. CancelResponse(f, o).key = f.key /\ CancelResponse(f, o).filled = f.filled
        BY <3>1 DEF CancelResponse, CancelConfirmed
      <4> QED
        BY <4>1, <4>2
    <3>2. CASE ~CancelConfirmed(f, o)
      BY <1>1, <1>a, <3>2 DEF GoTo
    <3> QED
      BY <3>1, <3>2
  <2>3. \A g \in todo[p] : \A i \in ReportsOf(log, g.key) : log[i].filled = g.filled
    BY <1>1 DEF SafetyInv, EvidenceHeld
  <2>4. \A q \in Procs \ {p} :
            pc'[q] = pc[q] /\ todo'[q] = todo[q] /\ target'[q] = target[q]
    BY DEF Alone
  <2> QED
    BY <1>1, <2>1, <2>2, <2>3, <2>4 DEF SafetyInv, EvidenceHeld
<1>10. ArtifactHeld'
  BY <1>1, <1>6 DEF SafetyInv, ArtifactHeld, Alone
<1>11. SwitchesPaired'
  BY <1>1, <1>5, <1>6, SwitchesKept DEF SafetyInv, Alone
<1>12. \A q \in Procs : tally[q]["submit_failed"] \in Nat
  BY DEF TypeOK, CycleOK, Outcomes
<1>13. FailuresKept'
  BY <1>1, <1>6, <1>12, FailuresStay DEF SafetyInv, Alone
<1> QED
  BY <1>7, <1>8, <1>9, <1>10, <1>11, <1>13 DEF SafetyInv

\* The commands' other steps: an artifact or nothing in the store, and at most a cancel
\* at the broker.
LEMMA CommandUneventful ==
    ASSUME TypeOK, TypeOK', Shape, OrderInv, SafetyInv, NEW p \in Procs, Alone(p),
           \/ ReadCommand(p) \/ Unauthorized(p) \/ export_audit(p) \/ OpenOrdersRaise(p)
           \/ flatten_paper_only(p) \/ ExportDone(p) \/ ExportRaises(p)
           \/ record_command_rejection(p) \/ CancelReportRaises(p) \/ CancelDone(p)
           \/ RejectCommand(p) \/ FlattenAtBroker(p) \/ PositionsRaise(p) \/ FlattenDone(p)
           \/ FollowUpRaises(p) \/ AuditRaises(p) \/ CommandRaises(p)
    PROVE  SafetyInv'
<1>1. /\ pc \in [Procs -> {"Idle"} \cup CyclePCs \cup CommandPCs]
      /\ todo \in [Procs -> SUBSET Fills] /\ tally[p]["submit_failed"] \in Nat /\ BrokerOK
  BY DEF TypeOK, CycleOK, CommandOK, Outcomes
<1>2. /\ pc'[p] \notin Critical /\ pc'[p] \notin CyclePCs /\ UNCHANGED <<granted, tally>>
  BY <1>1 DEF ReadCommand, Unauthorized, export_audit, OpenOrdersRaise, flatten_paper_only,
       ExportDone, ExportRaises, record_command_rejection, CancelReportRaises, CancelDone,
       RejectCommand, FlattenAtBroker, PositionsRaise, FlattenDone, FollowUpRaises,
       AuditRaises, CommandRaises, GoTo, Critical, CyclePCs
<1>3. QuietRow
  <2>1. CASE ReadCommand(p) \/ Unauthorized(p) \/ ExportDone(p) \/ record_command_rejection(p)
             \/ CancelDone(p) \/ RejectCommand(p) \/ FlattenDone(p)
    BY <2>1, QuietArtifact
       DEF ReadCommand, Unauthorized, ExportDone, record_command_rejection, CancelDone,
           RejectCommand, FlattenDone, FirstAudit, OneMoreAudit, Decision
  <2>2. CASE export_audit(p) \/ OpenOrdersRaise(p) \/ flatten_paper_only(p) \/ ExportRaises(p)
             \/ CancelReportRaises(p) \/ FlattenAtBroker(p) \/ PositionsRaise(p)
             \/ FollowUpRaises(p) \/ AuditRaises(p) \/ CommandRaises(p)
    BY <2>2 DEF export_audit, OpenOrdersRaise, flatten_paper_only, ExportRaises,
                CancelReportRaises, FlattenAtBroker, PositionsRaise, FollowUpRaises,
                AuditRaises, CommandRaises, QuietRow
  <2> QED
    BY <2>1, <2>2
<1>4. BookKept
  <2>1. CASE FlattenAtBroker(p)
    <3>1. PICK f \in todo[p] : \E o \in CancelOutcomes(BrokerOf[p], f.key) :
              cancel_order(BrokerOf[p], f.key, o)
      BY <2>1 DEF FlattenAtBroker
    <3>2. BrokerOf[p] \in Brokers /\ f.key \in Keys
      BY <1>1, <2>1 DEF FlattenAtBroker, Shape, BrokerPCs, Fills
    <3> QED
      BY <1>1, <3>1, <3>2, CancelBook
  <2>2. CASE ~FlattenAtBroker(p)
    <3>1. UNCHANGED book
      BY <2>2 DEF ReadCommand, Unauthorized, export_audit, OpenOrdersRaise, flatten_paper_only,
           ExportDone, ExportRaises, record_command_rejection, CancelReportRaises, CancelDone,
           RejectCommand, PositionsRaise, FlattenDone, FollowUpRaises, AuditRaises,
           CommandRaises
    <3> QED
      BY <3>1, QuietBook
  <2> QED
    BY <2>1, <2>2
<1> QED
  BY <1>1, <1>2, <1>3, <1>4, Uneventful

-----------------------------------------------------------------------------
(* Every step, and the theorems. *)

\* Starting a cycle, and dying: a fake's orders may go, no order comes.
LEMMA StartOrCrashSafe ==
    ASSUME TypeOK, TypeOK', Shape, OrderInv, SafetyInv, NEW p \in Procs, Alone(p),
           \/ Crash(p)
           \/ \E batch \in Batches, n \in Attempts : StartCycle(p, batch, n)
    PROVE  SafetyInv'
<1>1. /\ pc \in [Procs -> {"Idle"} \cup CyclePCs \cup CommandPCs]
      /\ tally \in [Procs -> [Outcomes -> Nat]] /\ tally[p]["submit_failed"] \in Nat
  BY DEF TypeOK, CycleOK, Outcomes
<1>2. /\ pc'[p] \in {"Idle", "Finish", "Request"} /\ tally'[p] = NoTally /\ UNCHANGED granted
      /\ pc'[p] # "Idle" => require_paper_safe
  BY <1>1 DEF Crash, Forget, StartCycle, GoTo
<1>3. QuietRow
  BY QuietArtifact DEF Crash, StartCycle, QuietRow, Decision
<1>4. BookKept
  <2>1. \A b \in Brokers, k \in Keys : book'[b][k] \in {NoOrder, book[b][k]}
    BY DEF Crash, StartCycle
  <2> QED
    BY <2>1 DEF BookKept
<1>5. tally'[p]["submit_failed"] = 0
  BY <1>2 DEF NoTally, Outcomes
<1> QED
  BY <1>1, <1>2, <1>3, <1>4, <1>5, Uneventful DEF Critical, CyclePCs

\* No process moves and no row is written: a fill at a remote broker, or nothing at all.
LEMMA NobodyMovesSafe ==
    ASSUME TypeOK, Shape, OrderInv, SafetyInv, BookKept,
           UNCHANGED <<log, pc, intent, token, tally, todo, target, audits, granted>>
    PROVE  SafetyInv'
<1>1. RowsKept /\ QuietRow /\ StoreOK
  BY DEF RowsKept, QuietRow, TypeOK
<1>2. ConfirmedInFlight' /\ PlacedAsConfirmed'
  BY <1>1, ConfirmedKept DEF SafetyInv
<1>3. EvidenceHeld' /\ EvidencePreserved'
  BY <1>1, EvidenceKept DEF SafetyInv
<1>4. ArtifactHeld'
  BY DEF SafetyInv, ArtifactHeld
<1>5. SwitchesPaired'
  BY <1>1, SwitchesKept DEF SafetyInv
<1>6. \A q \in Procs : tally[q]["submit_failed"] \in Nat
  BY DEF TypeOK, CycleOK, Outcomes
<1>7. FailuresKept'
  BY <1>6, FailuresStay DEF SafetyInv
<1> QED
  BY <1>2, <1>3, <1>4, <1>5, <1>7 DEF SafetyInv

\* A remote fill is of an order the broker holds, for the same intent.
LEMMA RemoteFillBook ==
    ASSUME BrokerOK, NEW b \in Brokers, NEW k \in Keys, RemoteFill(b, k) PROVE BookKept
<1>1. book[b][k] # NoOrder
  BY DEF RemoteFill, OpenOrders
<1>2. /\ \A c \in Brokers, j \in Keys : c # b \/ j # k => book'[c][j] = book[c][j]
      /\ book'[b][k].intent = book[b][k].intent
  BY DEF RemoteFill, BrokerOK
<1> QED
  BY <1>1, <1>2 DEF BookKept

\* Before anything has happened there is nothing to account for.
LEMMA SafetyInit == Init => SafetyInv
<1> SUFFICES ASSUME Init PROVE SafetyInv
  OBVIOUS
<1>1. \A q \in Procs : pc[q] = "Idle" /\ tally[q]["submit_failed"] = 0
  BY DEF Init, CycleInit, NoTally, Outcomes
<1>2. log = <<>> /\ \A b \in Brokers, k \in Keys : book[b][k] = NoOrder
  BY DEF Init
<1>3. /\ \A k : SubmitsOf(log, k) = {} /\ ReportsOf(log, k) = {}
      /\ \A t, d : RowsWith(log, t, d) = {}
  BY <1>2 DEF SubmitsOf, ReportsOf, RowsWith
<1>4. ConfirmedInFlight /\ EvidenceHeld /\ ArtifactHeld
  BY <1>1 DEF ConfirmedInFlight, EvidenceHeld, ArtifactHeld, CyclePCs
<1>5. PlacedAsConfirmed /\ EvidencePreserved
  BY <1>2, <1>3 DEF PlacedAsConfirmed, EvidencePreserved
<1>6. SwitchesPaired
  <2>1. \A d \in {"HALT", "RESUME"} : Owing(d) = {}
    BY <1>1 DEF Owing
  <2> QED
    BY <1>3, <2>1, FS_EmptySet DEF SwitchesPaired
<1>7. FailuresKept
  <2>1. {k \in Keys : Submitted(k)} = {} /\ Abandoned = {}
    BY <1>3 DEF Abandoned, Submitted
  <2> QED
    BY <1>1, <2>1, FS_EmptySet DEF FailuresKept
<1> QED
  BY <1>4, <1>5, <1>6, <1>7 DEF SafetyInv

\* Every step preserves the invariant of the audit trail.
LEMMA SafetyNext == IndInv /\ IndInv' /\ SafetyInv /\ [Next]_vars => SafetyInv'
<1> SUFFICES ASSUME TypeOK, TypeOK', Shape, OrderInv, SafetyInv, [Next]_vars
             PROVE  SafetyInv'
  BY DEF IndInv
<1>1. ASSUME NEW p \in Procs, StartJob(p) PROVE SafetyInv'
  <2>1. Alone(p)
    BY <1>1, AloneStep
  <2>2. CASE StartCommand(p)
    BY <2>1, <2>2, CommandUneventful, SwitchCommandSafe, CancelResolveSafe, RefuseCommandSafe
       DEF StartCommand, halt_new_entries, resume_new_entries
  <2>3. CASE ~StartCommand(p)
    BY <1>1, <2>1, <2>3, StartOrCrashSafe DEF StartJob
  <2> QED
    BY <2>2, <2>3
<1>2. ASSUME NEW p \in Procs, RunCycle(p) PROVE SafetyInv'
  <2>1. Alone(p) /\ CycleStep(p) /\ UNCHANGED commandVars
    BY <1>2, AloneStep DEF RunCycle
  <2>2. CASE \/ AuditRequest(p) \/ ValidateApproves(p) \/ MintTicket(p) \/ FinishCycle(p)
             \/ ValidateRejects(p) \/ DeferNoPrice(p) \/ ConfirmDeclines(p)
             \/ PersistDuplicate(p) \/ RouteRaises(p) \/ ConfirmRaises(p) \/ ReportRaises(p)
    <3>1. UNCHANGED <<book, granted>>
      BY <2>2 DEF AuditRequest, ValidateApproves, MintTicket, FinishCycle, ValidateRejects,
                  DeferNoPrice, ConfirmDeclines, PersistDuplicate, RouteRaises, ConfirmRaises,
                  ReportRaises
    <3> QED
      BY <2>1, <2>2, <3>1, CycleUneventful
  <2> QED
    BY <2>1, <2>2, ConfirmAnswersSafe, PersistAttemptSafe, SubmitToBrokerSafe, SubmitRefusedSafe,
       AuditFailureSafe, AppendReportSafe DEF CycleStep
<1>3. ASSUME NEW p \in Procs, RunCommand(p) PROVE SafetyInv'
  <2>1. Alone(p) /\ CommandStep(p)
    BY <1>3, AloneStep DEF RunCommand
  <2> QED
    BY <2>1, CommandUneventful, PersistSwitchSafe, CancelResolveSafe, CancelAtBrokerSafe,
       CancelReportSafe DEF CommandStep
<1>4. ASSUME NEW p \in Procs, Crash(p) PROVE SafetyInv'
  BY <1>4, AloneStep, StartOrCrashSafe
<1>5. ASSUME NEW b \in Brokers, NEW k \in Keys, RemoteProgress(b, k) PROVE SafetyInv'
  <2>1. BookKept
    BY <1>5, RemoteFillBook DEF RemoteProgress, TypeOK
  <2> QED
    BY <1>5, <2>1, NobodyMovesSafe DEF RemoteProgress
<1>6. CASE UNCHANGED vars
  BY <1>6, QuietBook, NobodyMovesSafe DEF vars
<1> QED
  BY <1>1, <1>2, <1>3, <1>4, <1>5, <1>6 DEF Next, Step, Rest

\* The two invariants together hold in every reachable state: what is in flight in each
\* process agrees with what the store and the brokers hold of it.
THEOREM SafetyInductive == Spec => [](IndInv /\ SafetyInv)
<1>1. Init => SafetyInv
  BY SafetyInit
<1>2. IndInv /\ IndInv' /\ SafetyInv /\ [Next]_vars => SafetyInv'
  BY SafetyNext
<1> QED
  BY <1>1, <1>2, Inductive, PTL DEF Spec

\* LocalPaperBroker lets an order through only for the intent the human confirmed, and
\* run_paper_cycle only after that intent was persisted: what a broker holds was granted,
\* with the limit price on record.
THEOREM PlacedAsConfirmedHolds == Spec => []PlacedAsConfirmed
<1>1. SafetyInv => PlacedAsConfirmed
  BY DEF SafetyInv
<1> QED
  BY <1>1, SafetyInductive, PTL

\* _resolve_cancel_identity and the comparison of the cancel response keep the terminal
\* report of a cancel in agreement with every report before it.
THEOREM EvidencePreservedHolds == Spec => []EvidencePreserved
<1>1. SafetyInv => EvidencePreserved
  BY DEF SafetyInv
<1> QED
  BY <1>1, SafetyInductive, PTL

\* halt_new_entries and resume_new_entries write the artifact before the switch, in every
\* interleaving and across crashes between the two appends.
THEOREM SwitchAuditedHolds == Spec => []SwitchAudited
<1>1. IndInv /\ SafetyInv => SwitchAudited
  <2> SUFFICES ASSUME IndInv, SafetyInv, NEW d \in {"HALT", "RESUME"}
               PROVE  Cardinality(RowsWith(log, "KILL_SWITCH_STATE", d))
                          <= Cardinality(RowsWith(log, "AUDIT_ARTIFACT", d))
    BY DEF SwitchAudited, RowsWith
  <2>1. /\ Cardinality(RowsWith(log, "KILL_SWITCH_STATE", d)) \in Nat
        /\ Cardinality(RowsWith(log, "AUDIT_ARTIFACT", d)) \in Nat
    BY RowsFinite DEF IndInv, TypeOK
  <2>2. /\ Cardinality(Owing(d)) \in Nat
        /\ Cardinality(RowsWith(log, "KILL_SWITCH_STATE", d)) + Cardinality(Owing(d))
               <= Cardinality(RowsWith(log, "AUDIT_ARTIFACT", d))
    BY FS_CardinalityType DEF SafetyInv, SwitchesPaired
  <2> QED
    BY <2>1, <2>2
<1> QED
  BY <1>1, SafetyInductive, PTL

\* Each submit_failed of a summary is an attempt that restart recovery still shows: no
\* process and no cancel ever reports a key that a failed submit left behind.
THEOREM FailureSurfacedHolds == Spec => []FailureSurfaced
<1>1. IndInv /\ SafetyInv => FailureSurfaced
  <2> SUFFICES ASSUME IndInv, SafetyInv, NEW p \in Procs
               PROVE  tally[p]["submit_failed"] <=
                          Cardinality({k \in Keys : SubmitsOf(log, k) # {} /\ ReportsOf(log, k) = {}})
    BY DEF FailureSurfaced
  <2> DEFINE silent == {k \in Keys : SubmitsOf(log, k) # {} /\ ReportsOf(log, k) = {}}
  <2>1. /\ IsFiniteSet({k \in Keys : Submitted(k)})
        /\ tally[p]["submit_failed"] <= Cardinality(Abandoned)
    BY DEF SafetyInv, FailuresKept
  <2>2. Abandoned \subseteq silent /\ silent \subseteq {k \in Keys : Submitted(k)}
    BY DEF Abandoned, Submitted, Reported
  <2> HIDE DEF silent
  <2>3. IsFiniteSet(silent)
    BY <2>1, <2>2, FS_Subset
  <2>4. /\ Cardinality(Abandoned) <= Cardinality(silent)
        /\ Cardinality(Abandoned) \in Nat /\ Cardinality(silent) \in Nat
    BY <2>2, <2>3, FS_Subset, FS_CardinalityType
  <2>5. tally[p]["submit_failed"] \in Nat
    BY DEF IndInv, TypeOK, CycleOK, Outcomes
  <2> QED
    BY <2>1, <2>4, <2>5 DEF silent
<1> QED
  BY <1>1, SafetyInductive, PTL

\* A mutating command that comes to an end has written an artifact, whatever raised at the
\* broker or in the store before the artifact it ends with: only a store that refuses that
\* one leaves a cancel or a flatten without any (control_plane.py:616-633, 668-685).
THEOREM CommandAuditedHolds == Spec => CommandAudited
<1> DEFINE Audited == \A p \in Procs :
               (/\ pc[p] \in CommandPCs \ {"Export", "Unaudited"} /\ pc'[p] = "Idle"
                /\ crashes' = crashes)
                   => audits'[p] >= 1
<1>1. IndInv /\ SafetyInv /\ [Next]_vars => [Audited]_vars
  <2> SUFFICES ASSUME IndInv, SafetyInv, Next, NEW p \in Procs,
                      pc[p] \in CommandPCs \ {"Export", "Unaudited"}, pc'[p] = "Idle",
                      crashes' = crashes
               PROVE  audits'[p] >= 1
    BY DEF vars
  <2>1. /\ pc \in [Procs -> {"Idle"} \cup CyclePCs \cup CommandPCs]
        /\ audits \in [Procs -> Nat] /\ crashes \in Nat /\ TypeOK
    BY DEF IndInv, TypeOK, CycleOK, CommandOK, BoundsOK
  <2>2. pc[p] # "Idle" /\ pc[p] \notin CyclePCs
    BY DEF CommandPCs, CyclePCs
  <2>3. PICK q \in Procs : StartJob(q) \/ RunCycle(q) \/ RunCommand(q) \/ Crash(q)
    BY <2>2 DEF Next, Step, RemoteProgress, Rest, vars
  <2>4. q = p
    BY <2>1, <2>2, <2>3, AloneStep DEF Alone
  <2>5. CommandStep(p)
    <3>1. ~Crash(p)
      BY <2>1 DEF Crash
    <3>2. ~StartJob(p)
      BY <2>2 DEF StartJob, StartCycle, StartCommand, ReadCommand, export_audit, Unauthorized,
         halt_new_entries, resume_new_entries, SwitchCommand, cancel_open_orders,
         flatten_paper_only, RefuseCommand, OpenOrdersRaise
    <3>3. ~RunCycle(p)
      BY <2>2 DEF RunCycle, CycleStep, AuditRequest, ValidateRejects, ValidateApproves,
         RouteRaises, MintTicket, DeferNoPrice, ConfirmDeclines, ConfirmRaises, ConfirmAnswers,
         PersistAttempt, PersistDuplicate, SubmitRefused, SubmitToBroker, AuditFailure,
         AppendReport, ReportRaises, FinishCycle, CyclePCs
    <3> QED
      BY <2>3, <2>4, <3>1, <3>2, <3>3 DEF RunCommand
  <2>6. CASE PersistSwitch(p) \/ FollowUpRaises(p)
    BY <2>6 DEF PersistSwitch, FollowUpRaises, SafetyInv, ArtifactHeld
  <2>7. CASE record_command_rejection(p) \/ CancelDone(p) \/ RejectCommand(p) \/ FlattenDone(p)
    <3>1. audits'[p] = audits[p] + 1
      BY <2>1, <2>7
         DEF record_command_rejection, CancelDone, RejectCommand, FlattenDone, OneMoreAudit
    <3> QED
      BY <2>1, <3>1
  <2>8. CASE ExportDone(p) \/ ExportRaises(p) \/ CommandRaises(p)
    BY <2>8 DEF ExportDone, ExportRaises, CommandRaises
  <2>9. CASE \/ CancelResolve(p) \/ CancelAtBroker(p) \/ CancelReport(p)
             \/ CancelReportRaises(p) \/ FlattenAtBroker(p) \/ PositionsRaise(p)
             \/ AuditRaises(p)
    BY <2>1, <2>2, <2>9 DEF CancelResolve, CancelAtBroker, CancelReport, CancelReportRaises,
       FlattenAtBroker, PositionsRaise, AuditRaises, GoTo
  <2> QED
    BY <2>5, <2>6, <2>7, <2>8, <2>9 DEF CommandStep
<1> QED
  BY <1>1, SafetyInductive, PTL DEF Spec, CommandAudited
=============================================================================
