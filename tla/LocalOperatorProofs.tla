------------------------ MODULE LocalOperatorProofs ------------------------
(***************************************************************************)
(* Machine-checked proofs about the local paper operator, for every number *)
(* of terminals and invocations on one audit database.                     *)
(***************************************************************************)
EXTENDS LocalOperator, SequenceTheorems, FiniteSetTheorems, TLAPS

-----------------------------------------------------------------------------
(* Lists, and the rows the reads of the store look at. *)

\* The elements of a list, and what makes a value a list.
Elements(l) == {l[i] : i \in DOMAIN l}

IsList(l) == l \in Seq(Elements(l))

\* The shape of a list.
LEMMA ListShape == ASSUME NEW l, IsList(l) PROVE Len(l) \in Nat /\ DOMAIN l = 1..Len(l)
BY LenProperties DEF IsList

\* One more element, the others as they were.
LEMMA ListAppend ==
    ASSUME NEW l, IsList(l), NEW e
    PROVE  /\ IsList(Append(l, e)) /\ Len(l) \in Nat /\ Len(Append(l, e)) = Len(l) + 1
           /\ DOMAIN l = 1..Len(l) /\ DOMAIN Append(l, e) = 1..(Len(l) + 1)
           /\ \A i \in 1..Len(l) : Append(l, e)[i] = l[i]
           /\ Append(l, e)[Len(l) + 1] = e
<1> DEFINE m == Append(l, e)
           S == Elements(l) \cup {e}
<1>1. l \in Seq(S)
  BY SeqMonotonic DEF IsList
<1>2. e \in S
  OBVIOUS
<1> HIDE DEF S
<1>3. /\ Len(l) \in Nat /\ DOMAIN l = 1..Len(l)
  BY <1>1, LenProperties
<1>4. /\ m \in Seq(S) /\ Len(m) = Len(l) + 1
      /\ \A i \in 1..Len(l) : m[i] = l[i]
      /\ m[Len(l) + 1] = e
  BY <1>1, <1>2, AppendProperties
<1> HIDE DEF m
<1>5. DOMAIN m = 1..(Len(l) + 1)
  BY <1>4, LenProperties
<1>6. S = Elements(m)
  BY <1>3, <1>4, <1>5 DEF S, Elements
<1> QED
  BY <1>3, <1>4, <1>5, <1>6 DEF IsList, m

\* An append adds its own row to the attempts or the reports of its own key.
LEMMA RowsOfKey ==
    ASSUME NEW l, IsList(l), NEW e
    PROVE  \A k :
             /\ SubmitsOf(Append(l, e), k) = SubmitsOf(l, k) \cup
                   (IF e.type = "BROKER_SUBMIT_INTENT" /\ e.key = k THEN {Len(l) + 1} ELSE {})
             /\ ReportsOf(Append(l, e), k) = ReportsOf(l, k) \cup
                   (IF e.type = "EXECUTION_REPORT" /\ e.key = k THEN {Len(l) + 1} ELSE {})
<1> DEFINE m == Append(l, e)
<1>1. /\ Len(l) \in Nat /\ Len(m) = Len(l) + 1
      /\ \A i \in 1..Len(l) : m[i] = l[i]
      /\ m[Len(l) + 1] = e
  BY ListAppend
<1> HIDE DEF m
<1>2. 1..Len(m) = (1..Len(l)) \cup {Len(l) + 1}
  BY <1>1
<1>3. ASSUME NEW k
      PROVE  /\ SubmitsOf(m, k) = SubmitsOf(l, k) \cup
                   (IF e.type = "BROKER_SUBMIT_INTENT" /\ e.key = k THEN {Len(l) + 1} ELSE {})
             /\ ReportsOf(m, k) = ReportsOf(l, k) \cup
                   (IF e.type = "EXECUTION_REPORT" /\ e.key = k THEN {Len(l) + 1} ELSE {})
  BY <1>1, <1>2 DEF SubmitsOf, ReportsOf
<1> QED
  BY <1>3 DEF m

-----------------------------------------------------------------------------
(* The inductive invariant. *)

\* The key every invocation submits under.
TheKey == <<CHOOSE t \in Tickets : TRUE, 1>>

Tried == SubmitsOf(log, TheKey) # {}

\* The order is cancelled on record, and that is the last the store says of it.
Settled == \E i \in ReportsOf(log, TheKey) : LatestReport(log, TheKey, i) /\ log[i].life = "CANCELLED"

\* The attempt on record is p's: nobody else may write a report.
Owns(p) == pc[p] \in {"Submit", "Report"} \/ tally[p]["submitted"] = 1

CancelPCs == {"CancelResolve", "CancelNext", "CancelReport", "CmdReject", "Unaudited"}
Asked == {"Persist", "Submit", "Report", "Failed"}
Early == {"Request", "Validate", "Route"}

\* The functions have their domains.
Domains ==
    /\ IsList(log) /\ placed \in [Keys -> Nat]
    /\ DOMAIN book = Brokers /\ \A b \in Brokers : DOMAIN book[b] = Keys
    /\ DOMAIN pc = Procs /\ DOMAIN queue = Procs /\ DOMAIN attempt = Procs /\ DOMAIN intent = Procs
    /\ tally \in [Procs -> [Outcomes -> Nat]]
    /\ DOMAIN snap = Procs /\ DOMAIN todo = Procs /\ DOMAIN target = Procs
    /\ DOMAIN command = Procs /\ DOMAIN shown = Procs

\* Which part of an invocation a terminal is in, and what it goes by there.
Stage(p) ==
    /\ \/ command[p] \in {"submit", "cancel-drill"} /\ pc[p] \in CyclePCs
       \/ command[p] = "cancelling" /\ pc[p] \in CancelPCs
       \/ command[p] \in {"none", "inspect", "done", "drill", "cancelled", "failed"} /\ pc[p] = "Idle"
    /\ pc[p] \in CyclePCs \ {"Finish"} =>
          queue[p] \in TheBatches /\ attempt[p] = 1 /\ tally[p]["submitted"] = 0
    /\ pc[p] \in Asked => KeyOf(intent[p]) = TheKey /\ intent[p] \in Intents /\ accepted # {}
    /\ command[p] \in {"none", "inspect"} \/ pc[p] \in Early => shown[p] = {}
    /\ pc[p] = "Confirm" => \A x \in accepted : x.code \notin shown[p]

\* How far a drill is with the order it placed.
Drilling(p) ==
    /\ command[p] = "cancel-drill" => DrillBroker(p)
    /\ command[p] \in {"cancel-drill", "drill"} /\ Owns(p) /\ pc[p] # "Submit" =>
          TheKey \in OpenOrders(BrokerOf[p])
    /\ command[p] \in {"cancelling", "cancelled"} => tally[p]["submitted"] = 1
    /\ pc[p] = "CancelNext" => snap[p] = {}
    /\ pc[p] = "CancelReport" => snap[p] = {} /\ target[p].life = "CANCELLED"
    /\ command[p] = "cancelling" /\ pc[p] \notin {"CmdReject", "Unaudited"} =>
          \/ \E f \in snap[p] \cup todo[p] : f.key = TheKey
          \/ pc[p] = "CancelReport" /\ target[p].key = TheKey
          \/ Settled
    /\ command[p] = "cancelled" => Settled

\* One terminal at most has the key, and only after its attempt is on record.
Owned ==
    /\ \A p \in Procs : Owns(p) => Tried
    /\ \A p, q \in Procs : Owns(p) /\ Owns(q) => p = q
    /\ \A k \in Keys : k # TheKey => SubmitsOf(log, k) = {}

\* One order at most, and none before the broker is called.
OneOrder ==
    /\ \A k \in Keys : placed[k] <= 1 /\ (placed[k] > 0 => Tried /\ accepted # {})
    /\ \A b \in Brokers, k \in Keys : book[b][k] # NoOrder => placed[k] > 0
    /\ \A p \in Procs : pc[p] = "Submit" => placed[TheKey] = 0

\* Codes are numbered as they are displayed, and shown on one screen.
CodesFresh ==
    /\ IsFiniteSet(codes) /\ IsFiniteSet(accepted)
    /\ \A c \in codes : c[1] \in 1..Cardinality(codes)
    /\ \A p \in Procs : shown[p] \subseteq codes
    /\ \A p, q \in Procs : p # q => shown[p] \cap shown[q] = {}
    /\ \A x \in accepted : x.code \in codes
    /\ \A x, y \in accepted : x.code = y.code => x = y

OperatorInv ==
    /\ Domains /\ Owned /\ OneOrder /\ CodesFresh /\ DrillProof
    /\ \A p \in Procs : Stage(p) /\ Drilling(p)

-----------------------------------------------------------------------------
(* The one intent, and the ways a step touches the store. *)

\* The key of the pinned candidate is one of the store's.
LEMMA TheKeyType == TheKey \in Keys /\ \A t \in Tickets : <<t, 1>> = TheKey
<1>1. PICK t \in Tickets : Tickets = {t}
  BY OperatorAssumption
<1>2. (CHOOSE u \in Tickets : TRUE) = t
  BY <1>1
<1> QED
  BY <1>1, <1>2, OperatorAssumption DEF TheKey, Keys

\* Every invocation mints an intent with that key.
LEMMA TheIntent ==
    ASSUME NEW batch \in TheBatches
    PROVE  /\ batch # <<>> /\ Len(batch) = 1
           /\ LET i == mint_broker_submit_intent(Head(batch).ticket, 1, Head(batch).limit_price)
              IN  i \in Intents /\ KeyOf(i) = TheKey
<1>1. PICK t \in Tickets, mid \in Prices :
          batch = <<[ticket |-> t, limit_price |-> mid, approved |-> TRUE, routable |-> TRUE]>>
  BY DEF TheBatches
<1>2. batch # <<>> /\ Len(batch) = 1 /\ Head(batch).ticket = t /\ Head(batch).limit_price = mid
  BY <1>1
<1>3. <<t, 1>> = TheKey
  BY TheKeyType
<1> QED
  BY <1>2, <1>3, OperatorAssumption DEF mint_broker_submit_intent, Intents, KeyOf

\* A step leaves the attempts and the reports alone, or is a report of the owner's, or is
\* the first attempt.
Quiet ==
    \/ UNCHANGED log
    \/ \E e : /\ log' = Append(log, e)
              /\ e.type \notin {"BROKER_SUBMIT_INTENT", "EXECUTION_REPORT"}

Reporting(p) == Owns(p) /\ \E e : log' = Append(log, e) /\ e.type = "EXECUTION_REPORT"

Trying ==
    /\ ~Tried
    /\ \E e : log' = Append(log, e) /\ e.type = "BROKER_SUBMIT_INTENT" /\ e.key = TheKey

\* What is left of the store's answers.
LEMMA LogSteps ==
    ASSUME IsList(log), NEW p, Quiet \/ Reporting(p) \/ Trying
    PROVE  /\ IsList(log') /\ Len(log) \in Nat /\ Len(log') \in Nat /\ Len(log) <= Len(log')
           /\ DOMAIN log = 1..Len(log) /\ DOMAIN log' = 1..Len(log')
           /\ \A i \in 1..Len(log) : log'[i] = log[i]
           /\ Tried => Tried'
           /\ \A k : k # TheKey => SubmitsOf(log', k) = SubmitsOf(log, k)
           /\ Settled /\ (~Owns(p) \/ Quiet \/ Trying) => Settled'
<1>1. Len(log) \in Nat /\ DOMAIN log = 1..Len(log)
  BY ListShape
<1>2. CASE UNCHANGED log
  BY <1>1, <1>2 DEF Tried, Settled, LatestReport
<1>3. CASE \E e : /\ log' = Append(log, e)
                  /\ e.type = "BROKER_SUBMIT_INTENT" => e.key = TheKey
                  /\ e.type = "EXECUTION_REPORT" => Owns(p)
                  /\ Quiet \/ Trying => e.type # "EXECUTION_REPORT"
  <2>1. PICK e : /\ log' = Append(log, e)
                 /\ e.type = "BROKER_SUBMIT_INTENT" => e.key = TheKey
                 /\ e.type = "EXECUTION_REPORT" => Owns(p)
                 /\ Quiet \/ Trying => e.type # "EXECUTION_REPORT"
    BY <1>3
  <2>2. /\ IsList(log') /\ Len(log') = Len(log) + 1 /\ DOMAIN log' = 1..(Len(log) + 1)
        /\ \A i \in 1..Len(log) : log'[i] = log[i]
    BY <2>1, ListAppend
  <2>3. \A k : /\ SubmitsOf(log', k) = SubmitsOf(log, k) \cup
                     (IF e.type = "BROKER_SUBMIT_INTENT" /\ e.key = k THEN {Len(log) + 1} ELSE {})
               /\ ReportsOf(log', k) = ReportsOf(log, k) \cup
                     (IF e.type = "EXECUTION_REPORT" /\ e.key = k THEN {Len(log) + 1} ELSE {})
    BY <2>1, RowsOfKey
  <2>4. Tried => Tried'
    BY <2>3 DEF Tried
  <2>5. \A k : k # TheKey => SubmitsOf(log', k) = SubmitsOf(log, k)
    BY <2>1, <2>3
  <2>6. ASSUME Settled, ~Owns(p) \/ Quiet \/ Trying PROVE Settled'
    <3>1. ReportsOf(log', TheKey) = ReportsOf(log, TheKey)
      BY <2>1, <2>3, <2>6
    <3>2. ReportsOf(log, TheKey) \subseteq 1..Len(log)
      BY DEF ReportsOf
    <3> QED
      BY <2>2, <2>6, <3>1, <3>2 DEF Settled, LatestReport
  <2> QED
    BY <1>1, <2>2, <2>4, <2>5, <2>6
<1>4. UNCHANGED log \/ \E e : /\ log' = Append(log, e)
                              /\ e.type = "BROKER_SUBMIT_INTENT" => e.key = TheKey
                              /\ e.type = "EXECUTION_REPORT" => Owns(p)
                              /\ Quiet \/ Trying => e.type # "EXECUTION_REPORT"
  <2>1. \A e, f : Append(log, e) = Append(log, f) => e = f
    BY ListAppend
  <2>2. \A e : log # Append(log, e)
    <3> TAKE e
    <3> DEFINE m == Append(log, e)
    <3>1. Len(m) = Len(log) + 1
      BY ListAppend
    <3> HIDE DEF m
    <3>2. Len(m) # Len(log)
      <4>1. Len(log) \in Nat
        BY <1>1
      <4>2. \A n \in Nat : n + 1 # n
        OBVIOUS
      <4> QED
        BY <3>1, <4>1, <4>2
    <3>3. log # m
      BY <3>2
    <3> QED
      BY <3>3 DEF m
  <2>3. CASE Quiet
    BY <2>1, <2>2, <2>3 DEF Quiet, Trying
  <2>4. CASE Reporting(p)
    BY <2>1, <2>2, <2>4 DEF Reporting, Quiet, Trying
  <2>5. CASE Trying
    BY <2>1, <2>2, <2>5 DEF Trying, Quiet
  <2> QED
    BY <2>3, <2>4, <2>5
<1> QED
  BY <1>2, <1>3, <1>4

-----------------------------------------------------------------------------
(* What a step of one terminal leaves of the others. *)

\* The locals of q, and its broker, are what they were.
Untouched(q) ==
    /\ pc'[q] = pc[q] /\ queue'[q] = queue[q] /\ attempt'[q] = attempt[q]
    /\ intent'[q] = intent[q] /\ tally'[q] = tally[q]
    /\ snap'[q] = snap[q] /\ todo'[q] = todo[q] /\ target'[q] = target[q]
    /\ command'[q] = command[q] /\ shown'[q] = shown[q]
    /\ book'[BrokerOf[q]] = book[BrokerOf[q]]

Elsewhere(p) == \A q \in Procs : q # p => Untouched(q)

\* A terminal that does nothing keeps its place, whatever p does.
LEMMA Bystander ==
    ASSUME OperatorInv, NEW p \in Procs, NEW q \in Procs, q # p, Untouched(q),
           Quiet \/ Reporting(p) \/ Trying, accepted \subseteq accepted',
           \A x \in accepted' : x \in accepted \/ x.code \in shown[p]
    PROVE  Stage(q)' /\ Drilling(q)' /\ (Owns(q)' <=> Owns(q))
<1>1. Stage(q) /\ Drilling(q) /\ IsList(log)
  BY DEF OperatorInv, Domains
<1>2. Owns(q)' <=> Owns(q)
  BY DEF Owns, Untouched
<1>3. shown[p] \cap shown[q] = {}
  BY DEF OperatorInv, CodesFresh
<1>4. Stage(q)'
  <2>1. \A x \in accepted' : x \in accepted \/ x.code \notin shown[q]
    BY <1>3
  <2>2. accepted # {} => accepted' # {}
    OBVIOUS
  <2> QED
    BY <1>1, <2>1, <2>2 DEF Stage, Untouched
<1>5. Drilling(q)'
  <2>1. OpenOrders(BrokerOf[q])' = OpenOrders(BrokerOf[q])
    BY DEF OpenOrders, Untouched
  <2>2. command[q] \in {"cancelling", "cancelled"} /\ Settled => Settled'
    <3> SUFFICES ASSUME command[q] \in {"cancelling", "cancelled"}, Settled PROVE Settled'
      OBVIOUS
    <3>1. Owns(q)
      BY <1>1 DEF Drilling, Owns
    <3>2. ~Owns(p)
      BY <3>1 DEF OperatorInv, Owned
    <3> QED
      BY <1>1, <3>2, LogSteps
  <2>3. DrillBroker(q)' = DrillBroker(q)
    BY DEF DrillBroker
  <2> QED
    BY <1>1, <1>2, <2>1, <2>2, <2>3 DEF Drilling, Untouched
<1> QED
  BY <1>2, <1>4, <1>5

\* What is said of the printed results stays true of a longer store.
LEMMA ProofKept ==
    ASSUME OperatorInv, NEW p, Quiet \/ Reporting(p) \/ Trying, UNCHANGED returned
    PROVE  DrillProof'
<1>1. IsList(log) /\ DrillProof
  BY DEF OperatorInv, Domains
<1>2. /\ DOMAIN log = 1..Len(log) /\ DOMAIN log' = 1..Len(log')
      /\ Len(log) \in Nat /\ Len(log') \in Nat /\ Len(log) <= Len(log')
      /\ \A i \in 1..Len(log) : log'[i] = log[i]
  BY <1>1, LogSteps
<1>3. \A i \in DOMAIN log : i \in DOMAIN log' /\ log'[i] = log[i]
  BY <1>2
<1> QED
  BY <1>1, <1>3 DEF DrillProof

\* A step that places no order and neither shows nor accepts a code, and after which p is
\* where it should be.
LEMMA Ordinary ==
    ASSUME OperatorInv, NEW p \in Procs, Elsewhere(p), Domains', Stage(p)', Drilling(p)',
           Quiet \/ Reporting(p), UNCHANGED <<placed, codes, accepted>>, DrillProof',
           \A b \in Brokers, k \in Keys : book'[b][k] # NoOrder => book[b][k] # NoOrder,
           Owns(p)' => Owns(p), pc'[p] # "Submit", shown'[p] \subseteq shown[p]
    PROVE  OperatorInv'
<1>1. IsList(log)
  BY DEF OperatorInv, Domains
<1>2. /\ Tried => Tried'
      /\ \A k : k # TheKey => SubmitsOf(log', k) = SubmitsOf(log, k)
  BY <1>1, LogSteps
<1>3. \A q \in Procs : q # p => Stage(q)' /\ Drilling(q)' /\ (Owns(q)' <=> Owns(q))
  BY Bystander DEF Elsewhere
<1>4. \A q \in Procs : /\ Stage(q)' /\ Drilling(q)' /\ (Owns(q)' => Owns(q))
                       /\ shown'[q] \subseteq shown[q] /\ (pc'[q] = "Submit" => pc[q] = "Submit")
  BY <1>3 DEF Elsewhere, Untouched
<1>5. Owned'
  BY <1>2, <1>4 DEF OperatorInv, Owned
<1>6. OneOrder'
  BY <1>2, <1>4 DEF OperatorInv, OneOrder
<1>7. CodesFresh'
  <2>1. CodesFresh /\ codes' = codes /\ accepted' = accepted
    BY DEF OperatorInv
  <2>2. \A q \in Procs : shown'[q] \subseteq codes
    BY <1>4, <2>1 DEF CodesFresh
  <2>3. \A q, r \in Procs : q # r => shown'[q] \cap shown'[r] = {}
    BY <1>4, <2>1 DEF CodesFresh
  <2> QED
    BY <2>1, <2>2, <2>3 DEF CodesFresh
<1> QED
  BY <1>4, <1>5, <1>6, <1>7 DEF OperatorInv

-----------------------------------------------------------------------------
(* The steps of the cycle and of the invocation around it. *)

\* The rows that are neither an attempt nor a report.
LEMMA QuietRows ==
    ASSUME NEW t, t \notin {"BROKER_SUBMIT_INTENT", "EXECUTION_REPORT"}, NEW d, append(Plain(t, d))
    PROVE  Quiet
BY DEF Quiet, append, Plain

\* An artifact is such a row.
LEMMA QuietArtifact == ASSUME NEW d, append(AuditArtifact(d)) PROVE Quiet
BY QuietRows DEF AuditArtifact

\* The domains after a step that is quiet or reports.
LEMMA StoreKept ==
    ASSUME OperatorInv, NEW p, Quiet \/ Reporting(p)
    PROVE  IsList(log')
BY LogSteps DEF OperatorInv, Domains

\* An invocation ends: its broker and its code are gone.
LEMMA Exits == ASSUME OperatorInv, NEW p \in Procs, Exit(p), DrillProof' PROVE OperatorInv'
<1>1. Domains /\ BrokerOf[p] \in Brokers /\ \A q \in Procs : q # p => BrokerOf[q] # BrokerOf[p]
  BY OperatorAssumption DEF OperatorInv
<1>2. /\ pc'[p] = "Idle" /\ command'[p] = "none" /\ shown'[p] = {} /\ tally'[p] = NoTally
      /\ UNCHANGED <<log, placed, codes, accepted>>
  BY <1>1 DEF Exit, Forget, Domains
<1>3. Elsewhere(p)
  BY <1>1 DEF Exit, Forget, Domains, Elsewhere, Untouched
<1>4. Domains'
  <2>1. NoTally \in [Outcomes -> Nat]
    BY DEF NoTally
  <2>2. tally' \in [Procs -> [Outcomes -> Nat]]
    BY <1>1, <2>1 DEF Exit, Forget, Domains
  <2>3. DOMAIN book' = Brokers /\ \A b \in Brokers : DOMAIN book'[b] = Keys
    BY <1>1 DEF Exit, Domains
  <2> QED
    BY <1>1, <1>2, <2>2, <2>3 DEF Exit, Forget, Domains
<1>5. \A b \in Brokers, k \in Keys : book'[b][k] # NoOrder => book[b][k] # NoOrder
  BY <1>1 DEF Exit, Domains
<1>6. ~Owns(p)'
  <2>1. tally'[p]["submitted"] = 0
    BY <1>2 DEF NoTally, Outcomes
  <2> QED
    BY <1>2, <2>1 DEF Owns
<1>7. Stage(p)'
  BY <1>2 DEF Stage, CyclePCs, Asked, Early
<1>8. Drilling(p)'
  BY <1>2 DEF Drilling
<1>9. Quiet
  BY <1>2 DEF Quiet
<1> QED
  BY <1>2, <1>3, <1>4, <1>5, <1>6, <1>7, <1>8, <1>9, Ordinary

\* The cycle goes on towards its confirmation.
LEMMA Proceeds ==
    ASSUME OperatorInv, NEW p \in Procs, AuditRequest(p) \/ ValidateApproves(p) \/ MintTicket(p),
           UNCHANGED <<commandVars, operatorVars>>
    PROVE  OperatorInv'
<1>1. Domains /\ Stage(p) /\ Drilling(p)
  BY DEF OperatorInv
<1>2. /\ pc[p] \in Early /\ pc'[p] \in {"Validate", "Route", "Confirm"} /\ DOMAIN pc' = Procs
      /\ \A q \in Procs : q # p => pc'[q] = pc[q]
  BY <1>1 DEF AuditRequest, ValidateApproves, MintTicket, GoTo, Early, Domains
<1>3. UNCHANGED <<queue, attempt, intent, token, fill, tally, book, placed, snap, todo, target,
                  command, shown, codes, accepted, returned>>
  BY DEF AuditRequest, ValidateApproves, MintTicket, cycleVars, commandVars, operatorVars
<1>4. Quiet
  BY QuietRows DEF AuditRequest, ValidateApproves, MintTicket
<1>5. Elsewhere(p)
  BY <1>2, <1>3 DEF Elsewhere, Untouched
<1>6. IsList(log') /\ DrillProof'
  BY <1>3, <1>4, StoreKept, ProofKept
<1>7. Domains'
  BY <1>1, <1>2, <1>3, <1>6 DEF Domains
<1>8. tally[p]["submitted"] = 0 /\ command[p] \in {"submit", "cancel-drill"} /\ shown[p] = {}
  BY <1>1, <1>2 DEF Stage, Early, CyclePCs, CancelPCs
<1>9. ~Owns(p)'
  BY <1>2, <1>3, <1>8 DEF Owns
<1>10. Stage(p)'
  BY <1>1, <1>2, <1>3, <1>8 DEF Stage, CyclePCs, Asked, Early
<1>11. Drilling(p)'
  <2>1. DrillBroker(p)' = DrillBroker(p)
    BY DEF DrillBroker
  <2> QED
    BY <1>1, <1>2, <1>3, <1>8, <1>9, <2>1 DEF Drilling
<1> QED
  BY <1>2, <1>3, <1>4, <1>5, <1>7, <1>9, <1>10, <1>11, <1>6, Ordinary

\* The cycle counts its one item.
LEMMA Counted ==
    ASSUME OperatorInv, NEW p \in Procs, UNCHANGED <<commandVars, operatorVars>>,
           ConfirmDeclines(p) \/ PersistDuplicate(p) \/ AuditFailure(p) \/ AppendReport(p)
    PROVE  OperatorInv'
<1>1. Domains /\ Stage(p) /\ Drilling(p)
  BY DEF OperatorInv
<1>2. PICK o \in {"deferred", "duplicate_skipped", "submit_failed", "submitted"} :
          /\ NextItem(p, o) /\ (o = "submitted" <=> AppendReport(p))
          /\ pc[p] \in {"Confirm", "Persist", "Failed", "Report"} /\ (pc[p] = "Report" <=> o = "submitted")
          /\ UNCHANGED <<book, placed>>
  BY DEF ConfirmDeclines, PersistDuplicate, AuditFailure, AppendReport
<1>3. /\ queue[p] \in TheBatches /\ tally[p]["submitted"] = 0
      /\ command[p] \in {"submit", "cancel-drill"}
  BY <1>1, <1>2 DEF Stage, CyclePCs, CancelPCs
<1>4. Len(queue[p]) = 1
  BY <1>3, TheIntent
<1>5. /\ pc'[p] = "Finish" /\ tally' \in [Procs -> [Outcomes -> Nat]]
      /\ tally'[p]["submitted"] = IF o = "submitted" THEN 1 ELSE 0
  BY <1>1, <1>2, <1>3, <1>4 DEF NextItem, Domains, Outcomes
<1>6. UNCHANGED <<book, placed, snap, todo, target, command, shown, codes, accepted, returned>>
  BY <1>2 DEF commandVars, operatorVars
<1>7. Elsewhere(p)
  BY <1>1, <1>2, <1>6 DEF Elsewhere, Untouched, NextItem, Domains
<1>8. Owns(p)' <=> o = "submitted"
  BY <1>5 DEF Owns
<1>9. o = "submitted" => Owns(p)
  BY <1>2 DEF Owns
<1>10. Quiet \/ Reporting(p)
  <2>1. CASE o = "submitted"
    BY <1>2, <1>9, <2>1 DEF Reporting, AppendReport, append, ReportEvent
  <2>2. CASE o # "submitted"
    BY <1>2, <2>2, QuietArtifact DEF ConfirmDeclines, PersistDuplicate, AuditFailure
  <2> QED
    BY <2>1, <2>2
<1>11. IsList(log') /\ DrillProof'
  BY <1>6, <1>10, StoreKept, ProofKept
<1>12. Domains'
  BY <1>1, <1>2, <1>5, <1>6, <1>11 DEF Domains, NextItem
<1>13. Stage(p)'
  BY <1>3, <1>5, <1>6 DEF Stage, CyclePCs, Asked, Early
<1>14. Drilling(p)'
  <2>1. DrillBroker(p)' = DrillBroker(p) /\ OpenOrders(BrokerOf[p])' = OpenOrders(BrokerOf[p])
    BY <1>6 DEF DrillBroker, OpenOrders
  <2>2. Owns(p)' => Owns(p) /\ pc[p] # "Submit"
    BY <1>2, <1>8, <1>9
  <2> QED
    BY <1>1, <1>3, <1>5, <1>6, <2>1, <2>2 DEF Drilling
<1> QED
  BY <1>5, <1>6, <1>7, <1>8, <1>9, <1>10, <1>11, <1>12, <1>13, <1>14, Ordinary

\* The broker's gate refuses the intent.
LEMMA Refusal ==
    ASSUME OperatorInv, NEW p \in Procs, SubmitRefused(p), UNCHANGED <<commandVars, operatorVars>>
    PROVE  OperatorInv'
<1>1. Domains /\ Stage(p) /\ Drilling(p)
  BY DEF OperatorInv
<1>2. /\ pc[p] = "Submit" /\ pc'[p] = "Failed" /\ DOMAIN pc' = Procs
      /\ \A q \in Procs : q # p => pc'[q] = pc[q]
  BY <1>1 DEF SubmitRefused, GoTo, Domains
<1>3. UNCHANGED <<log, queue, attempt, intent, tally, book, placed, snap, todo, target,
                  command, shown, codes, accepted, returned>>
  BY DEF SubmitRefused, cycleVars, commandVars, operatorVars
<1>4. Quiet
  BY <1>3 DEF Quiet
<1>5. DrillProof'
  BY <1>3, <1>4, ProofKept
<1>6. tally[p]["submitted"] = 0 /\ command[p] \in {"submit", "cancel-drill"}
  BY <1>1, <1>2 DEF Stage, CyclePCs, CancelPCs
<1>7. ~Owns(p)'
  BY <1>2, <1>3, <1>6 DEF Owns
<1>8. Elsewhere(p) /\ Domains'
  BY <1>1, <1>2, <1>3 DEF Elsewhere, Untouched, Domains
<1>9. Stage(p)'
  BY <1>1, <1>2, <1>3, <1>6 DEF Stage, CyclePCs, Asked, Early
<1>10. Drilling(p)'
  <2>1. DrillBroker(p)' = DrillBroker(p)
    BY DEF DrillBroker
  <2> QED
    BY <1>1, <1>2, <1>3, <1>6, <1>7, <2>1 DEF Drilling
<1> QED
  BY <1>2, <1>3, <1>4, <1>5, <1>7, <1>8, <1>9, <1>10, Ordinary

\* The cycle returns to the invocation.
LEMMA Returned == ASSUME OperatorInv, NEW p \in Procs, CycleReturns(p) PROVE OperatorInv'
<1>1. Domains /\ Stage(p) /\ Drilling(p)
  BY DEF OperatorInv
<1>2. /\ pc[p] = "Finish" /\ pc'[p] = "Idle" /\ DOMAIN pc' = Procs
      /\ \A q \in Procs : q # p => pc'[q] = pc[q]
  BY <1>1 DEF CycleReturns, FinishCycle, GoTo, Domains
<1>3. /\ command'[p] \in {"done", "drill"} /\ (command'[p] = "drill" => command[p] = "cancel-drill")
      /\ DOMAIN command' = Procs /\ \A q \in Procs : q # p => command'[q] = command[q]
  BY <1>1 DEF CycleReturns, Domains
<1>4. UNCHANGED <<log, queue, attempt, intent, tally, book, placed, snap, todo, target,
                  shown, codes, accepted, returned>>
  BY DEF CycleReturns, FinishCycle, cycleVars, commandVars
<1>5. Quiet
  BY <1>4 DEF Quiet
<1>6. DrillProof'
  BY <1>4, <1>5, ProofKept
<1>7. Owns(p)' => Owns(p)
  BY <1>2, <1>4 DEF Owns
<1>8. Elsewhere(p) /\ Domains'
  BY <1>1, <1>2, <1>3, <1>4 DEF Elsewhere, Untouched, Domains
<1>9. Stage(p)'
  BY <1>2, <1>3 DEF Stage, CyclePCs, Asked, Early
<1>10. Drilling(p)'
  <2>1. OpenOrders(BrokerOf[p])' = OpenOrders(BrokerOf[p])
    BY <1>4 DEF OpenOrders
  <2> QED
    BY <1>1, <1>2, <1>3, <1>4, <1>7, <2>1 DEF Drilling
<1> QED
  BY <1>2, <1>4, <1>5, <1>6, <1>7, <1>8, <1>9, <1>10, Ordinary

\* An invocation starts its cycle.
LEMMA Invoked == ASSUME OperatorInv, NEW p \in Procs, Invoke(p) PROVE OperatorInv'
<1>1. Domains /\ Stage(p) /\ Drilling(p) /\ command[p] = "none"
  BY DEF OperatorInv, Invoke
<1>2. PICK batch \in TheBatches : StartCycle(p, batch, 1)
  BY DEF Invoke
<1>3. batch # <<>>
  BY TheIntent
<1>4. /\ pc'[p] = "Request" /\ queue'[p] = batch /\ attempt'[p] = 1 /\ tally'[p] = NoTally
      /\ DOMAIN pc' = Procs /\ DOMAIN queue' = Procs /\ DOMAIN attempt' = Procs
      /\ \A q \in Procs : q # p => /\ pc'[q] = pc[q] /\ queue'[q] = queue[q]
                                   /\ attempt'[q] = attempt[q] /\ tally'[q] = tally[q]
  BY <1>1, <1>2, <1>3 DEF StartCycle, GoTo, Domains
<1>5. NoTally \in [Outcomes -> Nat] /\ NoTally["submitted"] = 0
  BY DEF NoTally, Outcomes
<1>6. tally' \in [Procs -> [Outcomes -> Nat]]
  BY <1>1, <1>2, <1>5 DEF StartCycle, Domains
<1>7. /\ command'[p] \in {"submit", "cancel-drill"} /\ (command'[p] = "cancel-drill" => DrillBroker(p))
      /\ DOMAIN command' = Procs /\ \A q \in Procs : q # p => command'[q] = command[q]
  BY <1>1 DEF Invoke, Domains
<1>8. UNCHANGED <<intent, book, placed, snap, todo, target, shown, codes, accepted, returned>>
  BY <1>2 DEF Invoke, StartCycle, commandVars
<1>9. Quiet
  BY <1>2, QuietArtifact DEF StartCycle
<1>10. IsList(log') /\ DrillProof'
  BY <1>8, <1>9, StoreKept, ProofKept
<1>11. ~Owns(p)'
  BY <1>4, <1>5 DEF Owns
<1>12. Elsewhere(p) /\ Domains'
  BY <1>1, <1>4, <1>6, <1>7, <1>8, <1>10 DEF Elsewhere, Untouched, Domains
<1>13. shown[p] = {}
  BY <1>1 DEF Stage
<1>14. Stage(p)'
  BY <1>4, <1>5, <1>7, <1>8, <1>13 DEF Stage, CyclePCs, Asked, Early
<1>15. Drilling(p)'
  <2>1. DrillBroker(p)' = DrillBroker(p)
    BY DEF DrillBroker
  <2> QED
    BY <1>4, <1>7, <1>11, <2>1 DEF Drilling
<1> QED
  BY <1>4, <1>8, <1>9, <1>10, <1>11, <1>12, <1>14, <1>15, Ordinary

\* inspect reads.
LEMMA Inspected ==
    ASSUME OperatorInv, NEW p \in Procs, Inspect(p) \/ InspectDecision(p)
    PROVE  OperatorInv'
<1>1. Domains /\ Stage(p) /\ command[p] \in {"none", "inspect"}
  BY DEF OperatorInv, Inspect, InspectDecision
<1>2. /\ command'[p] \in {"none", "inspect"} /\ DOMAIN command' = Procs
      /\ \A q \in Procs : q # p => command'[q] = command[q]
  BY <1>1 DEF Inspect, InspectDecision, Domains
<1>3. pc[p] = "Idle" /\ append(AuditArtifact("READ"))
  BY DEF Inspect, InspectDecision, ReadCommand, FirstAudit
<1>4. UNCHANGED <<pc, queue, attempt, intent, tally, book, placed, snap, todo, target, shown,
                  codes, accepted, returned>>
  BY DEF Inspect, InspectDecision, ReadCommand, cycleVars
<1>5. Quiet
  BY <1>3, QuietArtifact
<1>6. IsList(log') /\ DrillProof'
  BY <1>4, <1>5, StoreKept, ProofKept
<1>7. Owns(p)' => Owns(p)
  BY <1>4 DEF Owns
<1>8. Elsewhere(p) /\ Domains'
  BY <1>1, <1>2, <1>4, <1>6 DEF Elsewhere, Untouched, Domains
<1>9. Stage(p)'
  BY <1>1, <1>2, <1>3, <1>4 DEF Stage, CyclePCs, Asked, Early
<1>10. Drilling(p)'
  BY <1>2, <1>3, <1>4 DEF Drilling
<1> QED
  BY <1>3, <1>4, <1>5, <1>6, <1>7, <1>8, <1>9, <1>10, Ordinary

-----------------------------------------------------------------------------
(* The steps of the drill. *)

\* The drill's order is open, so the command's snapshot has it.
LEMMA DrillStarts == ASSUME OperatorInv, NEW p \in Procs, DrillCancel(p) PROVE OperatorInv'
<1>1. Domains /\ Stage(p) /\ Drilling(p) /\ command[p] = "drill" /\ tally[p]["submitted"] = 1
  BY DEF OperatorInv, DrillCancel, DrillReady
<1>2. /\ pc[p] = "Idle" /\ pc'[p] = "CancelResolve" /\ DOMAIN pc' = Procs
      /\ \A q \in Procs : q # p => pc'[q] = pc[q]
  BY <1>1 DEF DrillCancel, cancel_open_orders, GoTo, Domains
<1>3. /\ snap'[p] = get_open_orders(BrokerOf[p]) /\ DOMAIN snap' = Procs /\ DOMAIN todo' = Procs
      /\ command'[p] = "cancelling" /\ DOMAIN command' = Procs
      /\ \A q \in Procs : q # p => /\ snap'[q] = snap[q] /\ todo'[q] = todo[q]
                                   /\ command'[q] = command[q]
  BY <1>1 DEF DrillCancel, cancel_open_orders, Domains
<1>4. UNCHANGED <<log, queue, attempt, intent, tally, book, placed, target, shown, codes,
                  accepted, returned>>
  BY DEF DrillCancel, cancel_open_orders, cycleVars
<1>5. Quiet
  BY <1>4 DEF Quiet
<1>6. DrillProof'
  BY <1>4, <1>5, ProofKept
<1>7. Owns(p)
  BY <1>1 DEF Owns
<1>8. Elsewhere(p) /\ Domains'
  BY <1>1, <1>2, <1>3, <1>4 DEF Elsewhere, Untouched, Domains
<1>9. Stage(p)'
  BY <1>2, <1>3 DEF Stage, CyclePCs, CancelPCs, Asked, Early
<1>10. \E f \in snap'[p] : f.key = TheKey
  <2>1. TheKey \in OpenOrders(BrokerOf[p])
    BY <1>1, <1>2, <1>7 DEF Drilling
  <2> DEFINE b == BrokerOf[p]
             f == [key |-> TheKey, life |-> book[b][TheKey].life, filled |-> book[b][TheKey].filled]
  <2>2. f \in get_open_orders(b)
    BY <2>1 DEF get_open_orders
  <2>3. f.key = TheKey
    OBVIOUS
  <2> HIDE DEF f
  <2> QED
    BY <1>3, <2>2, <2>3
<1>11. Drilling(p)'
  BY <1>1, <1>2, <1>3, <1>4, <1>10 DEF Drilling
<1> QED
  BY <1>2, <1>4, <1>5, <1>6, <1>7, <1>8, <1>9, <1>11, Ordinary

\* A CANCELLED report closes the key it is about.
LEMMA CancelledRow ==
    ASSUME IsList(log), NEW k, NEW n, append(ReportEvent(k, "CANCELLED", n))
    PROVE  (k = TheKey => Settled') /\ (Settled => Settled')
<1> DEFINE e == ReportEvent(k, "CANCELLED", n)
<1>1. e.type = "EXECUTION_REPORT" /\ e.key = k /\ e.life = "CANCELLED" /\ log' = Append(log, e)
  BY DEF ReportEvent, append
<1> HIDE DEF e
<1>2. /\ Len(log) \in Nat /\ Len(log') = Len(log) + 1
      /\ \A i \in 1..Len(log) : log'[i] = log[i]
      /\ log'[Len(log) + 1] = e
  BY <1>1, ListAppend
<1>3. \A x : ReportsOf(log', x) = ReportsOf(log, x) \cup
                (IF e.type = "EXECUTION_REPORT" /\ e.key = x THEN {Len(log) + 1} ELSE {})
  BY <1>1, RowsOfKey
<1>4. ReportsOf(log, TheKey) \subseteq 1..Len(log)
  BY DEF ReportsOf
<1>5. ASSUME k = TheKey PROVE Settled'
  <2>1. ReportsOf(log', TheKey) = ReportsOf(log, TheKey) \cup {Len(log) + 1}
    BY <1>1, <1>3, <1>5
  <2>2. \A j \in ReportsOf(log', TheKey) : j <= Len(log) + 1
    BY <1>2, <1>4, <2>1
  <2> QED
    BY <1>1, <1>2, <2>1, <2>2 DEF Settled, LatestReport
<1>6. ASSUME k # TheKey, Settled PROVE Settled'
  <2>1. ReportsOf(log', TheKey) = ReportsOf(log, TheKey)
    <3>1. ~(e.type = "EXECUTION_REPORT" /\ e.key = TheKey)
      BY <1>1, <1>6
    <3>2. ReportsOf(log', TheKey) = ReportsOf(log, TheKey) \cup
              (IF e.type = "EXECUTION_REPORT" /\ e.key = TheKey THEN {Len(log) + 1} ELSE {})
      BY <1>3
    <3> QED
      BY <3>1, <3>2
  <2> QED
    BY <1>2, <1>4, <1>6, <2>1 DEF Settled, LatestReport
<1> QED
  BY <1>5, <1>6

\* Every open order is looked up, cancelled and reported, or the command fails.
LEMMA Cancelling == ASSUME OperatorInv, NEW p \in Procs, CancelRuns(p) PROVE OperatorInv'
<1>1. Domains /\ Stage(p) /\ Drilling(p) /\ command[p] = "cancelling"
  BY DEF OperatorInv, CancelRuns
<1>2. tally[p]["submitted"] = 1 /\ Owns(p)
  BY <1>1 DEF Drilling, Owns
<1>3. UNCHANGED <<queue, attempt, intent, tally, placed, command, shown, codes, accepted, returned>>
  BY DEF CancelRuns, CancelResolve, CancelAtBroker, CancelReport, CancelReportRaises,
         AuditRaises, cycleVars, operatorVars
<1>4. /\ pc[p] \in CancelPCs \ {"Unaudited"} /\ pc'[p] \in CancelPCs
      /\ DOMAIN pc' = Procs /\ \A q \in Procs : q # p => pc'[q] = pc[q]
  BY <1>1 DEF CancelRuns, CancelResolve, CancelAtBroker, CancelReport, CancelReportRaises,
              AuditRaises, GoTo, Domains, Stage, CyclePCs, CancelPCs
<1>5. /\ DOMAIN snap' = Procs /\ DOMAIN todo' = Procs /\ DOMAIN target' = Procs
      /\ \A q \in Procs : q # p => /\ snap'[q] = snap[q] /\ todo'[q] = todo[q]
                                   /\ target'[q] = target[q]
  BY <1>1 DEF CancelRuns, CancelResolve, CancelAtBroker, CancelReport, CancelReportRaises,
              AuditRaises, ForgetOrders, Domains
<1>6. BrokerOf[p] \in Brokers /\ \A q \in Procs : q # p => BrokerOf[q] # BrokerOf[p]
  BY OperatorAssumption
<1>7. /\ DOMAIN book' = Brokers /\ \A b \in Brokers : DOMAIN book'[b] = Keys
      /\ \A b \in Brokers : b # BrokerOf[p] => book'[b] = book[b]
      /\ \A b \in Brokers, k \in Keys : book'[b][k] # NoOrder => book[b][k] # NoOrder
  <2>1. CASE UNCHANGED book
    BY <1>1, <2>1 DEF Domains
  <2>2. CASE CancelAtBroker(p)
    <3>1. PICK f \in todo[p] : \E outcome \in CancelOutcomes(BrokerOf[p], f.key) :
              book' = [book EXCEPT ![BrokerOf[p]][f.key] = outcome.order]
      BY <2>2 DEF CancelAtBroker, cancel_order
    <3>2. PICK outcome \in CancelOutcomes(BrokerOf[p], f.key) :
              book' = [book EXCEPT ![BrokerOf[p]][f.key] = outcome.order]
      BY <3>1
    <3>3. outcome.order = book[BrokerOf[p]][f.key] \/ book[BrokerOf[p]][f.key] # NoOrder
      BY DEF CancelOutcomes, OpenOrders
    <3> QED
      BY <1>1, <1>6, <3>2, <3>3 DEF Domains
  <2> QED
    BY <2>1, <2>2 DEF CancelRuns, CancelResolve, CancelReport, CancelReportRaises, AuditRaises
<1>8. Quiet \/ Reporting(p)
  <2>1. CASE UNCHANGED log
    BY <2>1 DEF Quiet
  <2>2. CASE CancelReport(p)
    BY <1>2, <2>2 DEF CancelReport, Reporting, append, ReportEvent
  <2> QED
    BY <2>1, <2>2 DEF CancelRuns, CancelResolve, CancelAtBroker, CancelReportRaises, AuditRaises
<1>9. IsList(log') /\ DrillProof'
  BY <1>3, <1>8, StoreKept, ProofKept
<1>10. Elsewhere(p)
  BY <1>3, <1>4, <1>5, <1>6, <1>7, OperatorAssumption DEF Elsewhere, Untouched
<1>11. Domains'
  BY <1>1, <1>3, <1>4, <1>5, <1>7, <1>9 DEF Domains
<1>12. Stage(p)'
  BY <1>1, <1>3, <1>4 DEF Stage, CyclePCs, CancelPCs, Asked, Early
<1>13. /\ pc'[p] = "CancelNext" => snap'[p] = {}
       /\ pc'[p] = "CancelReport" => snap'[p] = {} /\ target'[p].life = "CANCELLED"
       /\ pc'[p] \notin {"CmdReject", "Unaudited"} =>
             \/ \E f \in snap'[p] \cup todo'[p] : f.key = TheKey
             \/ pc'[p] = "CancelReport" /\ target'[p].key = TheKey
             \/ Settled'
  <2>1. /\ pc[p] = "CancelNext" => snap[p] = {}
        /\ pc[p] = "CancelReport" => snap[p] = {} /\ target[p].life = "CANCELLED"
        /\ pc[p] # "CmdReject" =>
              \/ \E f \in snap[p] \cup todo[p] : f.key = TheKey
              \/ pc[p] = "CancelReport" /\ target[p].key = TheKey
              \/ Settled
    BY <1>1, <1>4 DEF Drilling
  <2>2. UNCHANGED log => (Settled => Settled')
    BY DEF Settled, LatestReport
  <2>3. CASE CancelResolve(p)
    <3>1. /\ pc[p] = "CancelResolve" /\ UNCHANGED <<log, target>>
          /\ \/ pc'[p] = "CancelNext" /\ snap[p] = {} /\ UNCHANGED <<snap, todo>>
             \/ /\ pc'[p] = "CancelResolve"
                /\ snap'[p] \cup todo'[p] = snap[p] \cup todo[p]
             \/ pc'[p] = "CmdReject"
      BY <1>1, <2>3 DEF CancelResolve, GoTo, Domains
    <3> QED
      BY <2>1, <2>2, <3>1
  <2>4. CASE CancelAtBroker(p)
    <3>1. PICK f \in todo[p] :
             /\ pc[p] = "CancelNext" /\ UNCHANGED <<log, snap>>
             /\ \/ /\ pc'[p] = "CancelReport" /\ todo'[p] = todo[p] \ {f}
                   /\ target'[p].key = f.key /\ target'[p].life = "CANCELLED"
                \/ pc'[p] = "CmdReject"
      BY <1>1, <2>4 DEF CancelAtBroker, CancelConfirmed, CancelResponse, GoTo, Domains
    <3> QED
      BY <2>1, <2>2, <3>1
  <2>5. CASE CancelReport(p)
    <3>1. /\ pc[p] = "CancelReport" /\ pc'[p] = "CancelNext" /\ UNCHANGED <<snap, todo>>
          /\ append(ReportEvent(target[p].key, target[p].life, target[p].filled))
      BY <1>1, <2>5 DEF CancelReport, GoTo, Domains
    <3>2. append(ReportEvent(target[p].key, "CANCELLED", target[p].filled))
      BY <2>1, <3>1
    <3>3. (target[p].key = TheKey => Settled') /\ (Settled => Settled')
      BY <1>1, <3>2, CancelledRow DEF Domains
    <3> QED
      BY <2>1, <3>1, <3>3
  <2>6. CASE CancelReportRaises(p)
    BY <1>1, <2>6 DEF CancelReportRaises, GoTo, Domains
  <2>7. CASE AuditRaises(p)
    BY <1>1, <2>7 DEF AuditRaises, GoTo, Domains
  <2> QED
    BY <2>3, <2>4, <2>5, <2>6, <2>7 DEF CancelRuns
<1>14. Drilling(p)'
  BY <1>1, <1>2, <1>3, <1>13 DEF Drilling
<1> QED
  BY <1>2, <1>3, <1>4, <1>7, <1>8, <1>9, <1>10, <1>11, <1>12, <1>14, Ordinary DEF CancelPCs

\* The command is done, and the order with it; or it failed.
LEMMA CommandEnds ==
    ASSUME OperatorInv, NEW p \in Procs, CancelReturns(p) \/ CancelFails(p)
    PROVE  OperatorInv'
<1>1. Domains /\ Stage(p) /\ Drilling(p) /\ command[p] = "cancelling"
  BY DEF OperatorInv, CancelReturns, CancelFails
<1>2. /\ pc'[p] = "Idle" /\ DOMAIN pc' = Procs /\ \A q \in Procs : q # p => pc'[q] = pc[q]
  BY <1>1 DEF CancelReturns, CancelFails, CancelDone, RejectCommand, CommandRaises, GoTo, Domains
<1>3. /\ command'[p] \in {"cancelled", "failed"} /\ DOMAIN command' = Procs
      /\ command'[p] = "cancelled" => pc[p] = "CancelNext" /\ todo[p] = {}
      /\ \A q \in Procs : q # p => command'[q] = command[q]
  BY <1>1 DEF CancelReturns, CancelFails, CancelDone, Domains
<1>4. /\ DOMAIN snap' = Procs /\ DOMAIN todo' = Procs
      /\ \A q \in Procs : q # p => snap'[q] = snap[q] /\ todo'[q] = todo[q]
  BY <1>1 DEF CancelReturns, CancelFails, CancelDone, RejectCommand, ForgetOrders,
              CommandRaises, commandVars, Domains
<1>5. UNCHANGED <<queue, attempt, intent, tally, book, placed, target, shown, codes, accepted,
                  returned>>
  BY DEF CancelReturns, CancelFails, CancelDone, RejectCommand, CommandRaises, cycleVars,
         commandVars
<1>6. Quiet
  BY QuietArtifact DEF CancelReturns, CancelFails, CancelDone, RejectCommand, CommandRaises,
                       OneMoreAudit, Quiet
<1>7. IsList(log') /\ DrillProof'
  BY <1>5, <1>6, StoreKept, ProofKept
<1>8. Owns(p)' => Owns(p)
  BY <1>2, <1>5 DEF Owns
<1>9. Elsewhere(p) /\ Domains'
  BY <1>1, <1>2, <1>3, <1>4, <1>5, <1>7 DEF Elsewhere, Untouched, Domains
<1>10. Stage(p)'
  BY <1>2, <1>3 DEF Stage, CyclePCs, Asked, Early
<1>11. command'[p] = "cancelled" => Settled'
  <2>1. command'[p] = "cancelled" => Settled
    BY <1>1, <1>3 DEF Drilling
  <2> QED
    BY <1>1, <1>6, <2>1, LogSteps DEF Domains
<1>12. Drilling(p)'
  BY <1>1, <1>2, <1>3, <1>5, <1>11 DEF Drilling
<1> QED
  BY <1>2, <1>5, <1>6, <1>7, <1>8, <1>9, <1>10, <1>12, Ordinary

\* The result is printed; a drill's says that nothing is open.
LEMMA Prints == ASSUME OperatorInv, NEW p \in Procs, Return(p) PROVE OperatorInv'
<1>1. Domains /\ Drilling(p) /\ Owned /\ DrillProof /\ Exit(p) /\ UNCHANGED log
  BY DEF OperatorInv, Return, Exit
<1>2. ASSUME Settled
      PROVE  /\ unresolved_open_orders(log) = {}
             /\ \E i \in DOMAIN log : log[i].life = "CANCELLED"
  <2>1. PICK i \in ReportsOf(log, TheKey) :
            LatestReport(log, TheKey, i) /\ log[i].life = "CANCELLED"
    BY <1>2 DEF Settled
  <2>2. HasTerminalReport(log, TheKey)
    BY <2>1 DEF HasTerminalReport, NON_TERMINAL_LIFECYCLE
  <2>3. \A k \in Keys : k # TheKey => SubmitsOf(log, k) = {}
    BY <1>1 DEF Owned
  <2>4. DOMAIN log = 1..Len(log)
    BY <1>1, ListShape DEF Domains
  <2> QED
    BY <2>1, <2>2, <2>3, <2>4 DEF unresolved_open_orders, ReportsOf
<1>3. DrillProof'
  <2>1. CASE command[p] = "cancelled"
    <3>1. Settled
      BY <1>1, <2>1 DEF Drilling
    <3>2. \A r \in returned' : r \in returned \/ r.unresolved = {}
      BY <1>2, <2>1, <3>1 DEF Return
    <3> QED
      BY <1>1, <1>2, <3>1, <3>2 DEF DrillProof
  <2>2. CASE command[p] # "cancelled"
    <3>1. \A r \in returned' : r \in returned \/ r.command # "cancelled"
      BY <2>2 DEF Return
    <3> QED
      BY <1>1, <3>1 DEF DrillProof
  <2> QED
    BY <2>1, <2>2
<1> QED
  BY <1>1, <1>3, Exits

-----------------------------------------------------------------------------
(* The steps that take a code, take the key and place the order. *)

\* A new code: its number is higher than any so far.
LEMMA Displays == ASSUME OperatorInv, NEW p \in Procs, Display(p) PROVE OperatorInv'
<1> DEFINE n == Cardinality(codes)
           code == confirmation_code(n + 1, CurrentIntent(p))
<1>1. /\ Domains /\ Owned /\ OneOrder /\ CodesFresh /\ DrillProof
      /\ \A q \in Procs : Stage(q) /\ Drilling(q)
  BY DEF OperatorInv
<1>2. /\ pc[p] = "Confirm" /\ shown'[p] = {code} /\ codes' = codes \cup {code}
      /\ DOMAIN shown' = Procs /\ \A q \in Procs : q # p => shown'[q] = shown[q]
  BY <1>1 DEF Display, Domains
<1>3. UNCHANGED <<log, book, placed, pc, queue, attempt, intent, tally, snap, todo, target, command,
                  accepted, returned>>
  BY DEF Display, cycleVars, commandVars
<1>4. code[1] = n + 1
  BY DEF confirmation_code
<1>5. n \in Nat /\ IsFiniteSet(codes)
  BY <1>1, FS_CardinalityType DEF CodesFresh
<1> HIDE DEF code, n
<1>6. code \notin codes
  <2>1. \A c \in codes : c[1] \in 1..n
    BY <1>1 DEF CodesFresh, n
  <2> QED
    BY <1>4, <1>5, <2>1
<1>7. IsFiniteSet(codes') /\ Cardinality(codes') = n + 1
  BY <1>2, <1>5, <1>6, FS_AddElement DEF n
<1>8. CodesFresh'
  <2>1. \A c \in codes' : c[1] \in 1..(n + 1)
    <3>1. \A c \in codes : c[1] \in 1..n
      BY <1>1 DEF CodesFresh, n
    <3> QED
      BY <1>2, <1>4, <1>5, <3>1
  <2>2. \A q \in Procs : shown'[q] \subseteq codes'
    BY <1>1, <1>2 DEF CodesFresh
  <2>3. \A q, r \in Procs : q # r => shown'[q] \cap shown'[r] = {}
    <3>1. \A q \in Procs : shown[q] \subseteq codes
      BY <1>1 DEF CodesFresh
    <3>2. \A q, r \in Procs : q # r => shown[q] \cap shown[r] = {}
      BY <1>1 DEF CodesFresh
    <3> QED
      BY <1>2, <1>6, <3>1, <3>2
  <2> QED
    BY <1>1, <1>2, <1>3, <1>7, <2>1, <2>2, <2>3 DEF CodesFresh
<1>9. Quiet /\ Elsewhere(p) /\ Domains'
  BY <1>1, <1>2, <1>3 DEF Quiet, Elsewhere, Untouched, Domains
<1>10. \A q \in Procs : q # p => Stage(q)' /\ Drilling(q)'
  BY <1>3, <1>9, Bystander DEF Elsewhere
<1>11. Stage(p)'
  <2>1. \A x \in accepted : x.code \notin {code}
    BY <1>1, <1>6 DEF CodesFresh
  <2>2. command[p] \in {"submit", "cancel-drill"}
    BY <1>1, <1>2 DEF Stage, CancelPCs
  <2>3. Stage(p)
    BY <1>1
  <2> QED
    BY <1>2, <1>3, <2>1, <2>2, <2>3 DEF Stage, Asked, Early
<1>12. Drilling(p)' /\ Owned' /\ OneOrder'
  <2>1. (Tried' <=> Tried) /\ (Settled' <=> Settled) /\ \A q \in Procs : Owns(q)' <=> Owns(q)
    BY <1>3 DEF Tried, Settled, LatestReport, Owns
  <2>2. OpenOrders(BrokerOf[p])' = OpenOrders(BrokerOf[p]) /\ DrillBroker(p)' = DrillBroker(p)
    BY <1>3 DEF OpenOrders, DrillBroker
  <2>3. Drilling(p)
    BY <1>1
  <2>4. Drilling(p)'
    BY <1>3, <2>1, <2>2, <2>3 DEF Drilling
  <2>5. Owned'
    BY <1>1, <1>3, <2>1 DEF Owned
  <2>6. OneOrder'
    BY <1>1, <1>3, <2>1 DEF OneOrder
  <2> QED
    BY <2>4, <2>5, <2>6
<1>13. DrillProof'
  BY <1>3, <1>9, ProofKept
<1> QED
  BY <1>8, <1>9, <1>10, <1>11, <1>12, <1>13 DEF OperatorInv

\* The code is typed back: nobody has used it, and nobody will.
LEMMA Answers == ASSUME OperatorInv, NEW p \in Procs, AnswerCode(p) PROVE OperatorInv'
<1>1. /\ Domains /\ Owned /\ OneOrder /\ CodesFresh /\ DrillProof /\ Stage(p) /\ Drilling(p)
  BY DEF OperatorInv
<1>2. PICK typed \in codes \cap shown[p] :
          accepted' = accepted \cup {[code |-> typed, by |-> p, nth |-> invocations]}
  BY DEF AnswerCode
<1> DEFINE x == [code |-> typed, by |-> p, nth |-> invocations]
<1>3. x.code = typed /\ accepted' = accepted \cup {x}
  BY <1>2
<1> HIDE DEF x
<1>4. /\ pc[p] = "Confirm" /\ pc'[p] = "Persist" /\ intent'[p] = CurrentIntent(p)
      /\ DOMAIN pc' = Procs /\ DOMAIN intent' = Procs
      /\ \A q \in Procs : q # p => pc'[q] = pc[q] /\ intent'[q] = intent[q]
  BY <1>1 DEF AnswerCode, ConfirmAnswers, GoTo, Domains
<1>5. UNCHANGED <<log, book, placed, queue, attempt, tally, snap, todo, target, command, shown,
                  codes, returned>>
  BY DEF AnswerCode, ConfirmAnswers, commandVars
<1>6. /\ queue[p] \in TheBatches /\ attempt[p] = 1 /\ tally[p]["submitted"] = 0
      /\ command[p] \in {"submit", "cancel-drill"} /\ \A y \in accepted : y.code \notin shown[p]
  BY <1>1, <1>4 DEF Stage, CyclePCs, CancelPCs
<1>7. CurrentIntent(p) \in Intents /\ KeyOf(CurrentIntent(p)) = TheKey
  BY <1>6, TheIntent DEF CurrentIntent, Item
<1>8. Quiet /\ Elsewhere(p) /\ Domains'
  BY <1>1, <1>4, <1>5 DEF Quiet, Elsewhere, Untouched, Domains
<1>9. \A q \in Procs : q # p => Stage(q)' /\ Drilling(q)' /\ (Owns(q)' <=> Owns(q))
  <2>1. accepted \subseteq accepted' /\ \A y \in accepted' : y \in accepted \/ y.code \in shown[p]
    BY <1>2, <1>3
  <2> QED
    BY <1>8, <2>1, Bystander DEF Elsewhere
<1>10. ~Owns(p)'
  BY <1>4, <1>5, <1>6 DEF Owns
<1>11. Stage(p)'
  BY <1>3, <1>4, <1>5, <1>6, <1>7 DEF Stage, CyclePCs, Asked, Early
<1>12. Drilling(p)'
  <2>1. DrillBroker(p)' = DrillBroker(p)
    BY DEF DrillBroker
  <2> QED
    BY <1>1, <1>4, <1>5, <1>6, <1>10, <2>1 DEF Drilling
<1>13. CodesFresh'
  <2>1. IsFiniteSet(accepted')
    BY <1>1, <1>3, FS_AddElement DEF CodesFresh
  <2>2. \A y \in accepted : y.code # x.code
    BY <1>2, <1>3, <1>6
  <2>3. \A y, z \in accepted' : y.code = z.code => y = z
    BY <1>1, <1>3, <2>2 DEF CodesFresh
  <2>4. \A y \in accepted' : y.code \in codes
    BY <1>1, <1>2, <1>3 DEF CodesFresh
  <2> QED
    BY <1>1, <1>5, <2>1, <2>3, <2>4 DEF CodesFresh
<1>14. Tried' <=> Tried
  BY <1>5 DEF Tried
<1>15. Owned'
  BY <1>1, <1>5, <1>9, <1>10, <1>14 DEF Owned
<1>16. OneOrder'
  <2>1. accepted' # {}
    BY <1>3
  <2>2. \A q \in Procs : pc'[q] = "Submit" => pc[q] = "Submit"
    BY <1>4
  <2> QED
    BY <1>1, <1>5, <1>14, <2>1, <2>2 DEF OneOrder
<1>17. DrillProof'
  BY <1>5, <1>8, ProofKept
<1> QED
  BY <1>8, <1>9, <1>11, <1>12, <1>13, <1>15, <1>16, <1>17 DEF OperatorInv

\* The attempt goes on record: the key was nobody's and is p's now.
LEMMA Attempted ==
    ASSUME OperatorInv, NEW p \in Procs, PersistAttempt(p), UNCHANGED <<commandVars, operatorVars>>
    PROVE  OperatorInv'
<1>1. /\ Domains /\ Owned /\ OneOrder /\ CodesFresh /\ Stage(p) /\ Drilling(p)
  BY DEF OperatorInv
<1>2. /\ pc[p] = "Persist" /\ pc'[p] = "Submit" /\ DOMAIN pc' = Procs
      /\ \A q \in Procs : q # p => pc'[q] = pc[q]
  BY <1>1 DEF PersistAttempt, GoTo, Domains
<1>3. UNCHANGED <<queue, attempt, intent, tally, book, placed, snap, todo, target, command, shown,
                  codes, accepted, returned>>
  BY DEF PersistAttempt, cycleVars, commandVars, operatorVars
<1>4. /\ KeyOf(intent[p]) = TheKey /\ intent[p] \in Intents /\ accepted # {}
      /\ queue[p] \in TheBatches /\ attempt[p] = 1 /\ tally[p]["submitted"] = 0
      /\ command[p] \in {"submit", "cancel-drill"}
  BY <1>1, <1>2 DEF Stage, CyclePCs, CancelPCs, Asked
<1> DEFINE e == SubmitEvent(intent[p])
<1>5. /\ ~Tried /\ log' = Append(log, e) /\ e.type = "BROKER_SUBMIT_INTENT" /\ e.key = TheKey
  BY <1>4 DEF PersistAttempt, record_submit_attempt, DuplicateIdempotencyKey, Tried, append,
              SubmitEvent
<1> HIDE DEF e
<1>6. Trying
  BY <1>5 DEF Trying
<1>7. /\ IsList(log') /\ \A k : k # TheKey => SubmitsOf(log', k) = SubmitsOf(log, k)
  BY <1>1, <1>6, LogSteps DEF Domains
<1>8. Tried'
  <2>1. SubmitsOf(log', TheKey) = SubmitsOf(log, TheKey) \cup
            (IF e.type = "BROKER_SUBMIT_INTENT" /\ e.key = TheKey THEN {Len(log) + 1} ELSE {})
    BY <1>1, <1>5, RowsOfKey DEF Domains
  <2> QED
    BY <1>5, <2>1 DEF Tried
<1>9. Elsewhere(p) /\ Domains'
  BY <1>1, <1>2, <1>3, <1>7 DEF Elsewhere, Untouched, Domains
<1>10. \A q \in Procs : q # p => Stage(q)' /\ Drilling(q)' /\ (Owns(q)' <=> Owns(q))
  BY <1>3, <1>6, <1>9, Bystander DEF Elsewhere
<1>11. \A q \in Procs : q # p => ~Owns(q)'
  BY <1>1, <1>5, <1>10 DEF Owned
<1>12. Owned'
  <2>1. \A q \in Procs : Owns(q)' => q = p
    BY <1>11
  <2> QED
    BY <1>1, <1>7, <1>8, <2>1 DEF Owned
<1>13. OneOrder'
  <2>1. placed[TheKey] = 0
    BY <1>1, <1>5, TheKeyType DEF OneOrder, Domains
  <2> QED
    BY <1>1, <1>3, <1>5, <2>1 DEF OneOrder
<1>14. Stage(p)'
  BY <1>2, <1>3, <1>4 DEF Stage, CyclePCs, Asked, Early
<1>15. Drilling(p)'
  <2>1. DrillBroker(p)' = DrillBroker(p)
    BY DEF DrillBroker
  <2> QED
    BY <1>1, <1>2, <1>3, <1>4, <2>1 DEF Drilling
<1>16. CodesFresh' /\ DrillProof'
  <2>1. DrillProof'
    BY <1>3, <1>6, ProofKept
  <2>2. CodesFresh'
    BY <1>1, <1>3 DEF CodesFresh
  <2> QED
    BY <2>1, <2>2
<1> QED
  BY <1>9, <1>10, <1>12, <1>13, <1>14, <1>15, <1>16 DEF OperatorInv

\* The drill's adapter acknowledges only an order it leaves open.
LEMMA LeftOpen ==
    ASSUME NEW b, Profile[b] = "partial", NEW i \in Intents, book[b][KeyOf(i)] = NoOrder,
           NEW o \in SubmitOutcomes(b, i), o.reply = "ack"
    PROVE  o.order # NoOrder /\ o.order.life \in NON_TERMINAL_LIFECYCLE
<1> DEFINE new == simulate("partial", i)
<1>1. o = [reply |-> IF new = NoOrder THEN "error" ELSE "ack", order |-> new]
  BY DEF SubmitOutcomes
<1>2. o.order = new /\ new # NoOrder
  BY <1>1
<1>3. Requested(i) \in Nat
  BY TicketAssumption DEF Requested, Intents
<1>4. \/ new = [intent |-> i, life |-> "WORKING", filled |-> 0]
      \/ new = [intent |-> i, life |-> "PARTIAL_FILL", filled |-> Requested(i) - 1]
  BY <1>3 DEF simulate
<1>5. new.life \in {"WORKING", "PARTIAL_FILL"}
  BY <1>4
<1> HIDE DEF new
<1> QED
  BY <1>2, <1>5 DEF NON_TERMINAL_LIFECYCLE

\* The broker call: the first order for the key, at the broker of the key's owner.
LEMMA Called ==
    ASSUME OperatorInv, NEW p \in Procs, SubmitToBroker(p), UNCHANGED <<commandVars, operatorVars>>
    PROVE  OperatorInv'
<1> DEFINE b == BrokerOf[p]
<1>1. /\ Domains /\ Owned /\ OneOrder /\ CodesFresh /\ Stage(p) /\ Drilling(p)
  BY DEF OperatorInv
<1>2. PICK o \in SubmitOutcomes(b, intent[p]) :
          /\ submit_order(b, intent[p], o)
          /\ GoTo(p, IF o.reply = "ack" THEN "Report" ELSE "Failed")
  BY DEF SubmitToBroker
<1>3. /\ pc[p] = "Submit" /\ pc'[p] = (IF o.reply = "ack" THEN "Report" ELSE "Failed")
      /\ DOMAIN pc' = Procs /\ \A q \in Procs : q # p => pc'[q] = pc[q]
  BY <1>1, <1>2 DEF SubmitToBroker, GoTo, Domains
<1>4. UNCHANGED <<log, queue, attempt, intent, tally, snap, todo, target, command, shown, codes,
                  accepted, returned>>
  BY DEF SubmitToBroker, commandVars, operatorVars
<1>5. /\ KeyOf(intent[p]) = TheKey /\ intent[p] \in Intents /\ accepted # {}
      /\ queue[p] \in TheBatches /\ attempt[p] = 1 /\ tally[p]["submitted"] = 0
      /\ command[p] \in {"submit", "cancel-drill"}
  BY <1>1, <1>3 DEF Stage, CyclePCs, CancelPCs, Asked
<1>6. /\ b \in Brokers /\ \A q \in Procs : BrokerOf[q] \in Brokers /\ (q # p => BrokerOf[q] # b)
  BY OperatorAssumption
<1>7. TheKey \in Keys /\ placed[TheKey] = 0 /\ book[b][TheKey] = NoOrder
  BY <1>1, <1>3, <1>6, TheKeyType DEF OneOrder
<1>8. /\ book' = [book EXCEPT ![b][TheKey] = o.order]
      /\ placed' = [placed EXCEPT ![TheKey] =
             IF book[b][TheKey] = NoOrder /\ o.order # NoOrder THEN @ + 1 ELSE @]
  BY <1>2, <1>5 DEF submit_order
<1> HIDE DEF b
<1>9. /\ DOMAIN book' = Brokers /\ \A c \in Brokers : DOMAIN book'[c] = Keys
      /\ \A c \in Brokers : c # b => book'[c] = book[c]
      /\ book'[b][TheKey] = o.order /\ \A k \in Keys : k # TheKey => book'[b][k] = book[b][k]
  BY <1>1, <1>6, <1>7, <1>8 DEF Domains
<1>10. /\ placed' \in [Keys -> Nat] /\ \A k \in Keys : k # TheKey => placed'[k] = placed[k]
       /\ placed'[TheKey] = IF o.order # NoOrder THEN 1 ELSE 0
  BY <1>1, <1>7, <1>8 DEF Domains
<1>11. Elsewhere(p)
  BY <1>3, <1>4, <1>6, <1>9 DEF Elsewhere, Untouched
<1>12. Domains' /\ Quiet
  BY <1>1, <1>3, <1>4, <1>9, <1>10 DEF Domains, Quiet
<1>13. \A q \in Procs : q # p => Stage(q)' /\ Drilling(q)' /\ (Owns(q)' <=> Owns(q))
  BY <1>4, <1>11, <1>12, Bystander DEF Elsewhere
<1>14. Owns(p) /\ Tried /\ Tried'
  BY <1>1, <1>3, <1>4 DEF Owns, Owned, Tried
<1>15. Owned'
  <2>1. \A q \in Procs : Owns(q)' => Owns(q)
    BY <1>13, <1>14
  <2> QED
    BY <1>1, <1>4, <1>14, <2>1 DEF Owned
<1>16. OneOrder'
  <2>1. \A q \in Procs : pc'[q] # "Submit"
    <3>1. \A q \in Procs : pc[q] = "Submit" => q = p
      BY <1>1, <1>14 DEF Owned, Owns
    <3> QED
      BY <1>3, <3>1
  <2>2. \A k \in Keys : placed'[k] <= 1
    BY <1>1, <1>10 DEF OneOrder
  <2>3. \A c \in Brokers, k \in Keys : book'[c][k] # NoOrder => placed'[k] > 0
    <3> TAKE c \in Brokers, k \in Keys
    <3> HAVE book'[c][k] # NoOrder
    <3>1. CASE k # TheKey
      BY <1>1, <1>9, <1>10, <3>1 DEF OneOrder
    <3>2. CASE k = TheKey /\ c # b
      BY <1>1, <1>7, <1>9, <3>2 DEF OneOrder
    <3>3. CASE k = TheKey /\ c = b
      BY <1>9, <1>10, <3>3
    <3> QED
      BY <3>1, <3>2, <3>3
  <2> QED
    BY <1>4, <1>5, <1>14, <2>1, <2>2, <2>3 DEF OneOrder
<1>17. Stage(p)'
  BY <1>3, <1>4, <1>5 DEF Stage, CyclePCs, Asked, Early
<1>18. Drilling(p)'
  <2>1. DrillBroker(p)' = DrillBroker(p)
    BY DEF DrillBroker
  <2>2. command[p] = "cancel-drill" /\ pc'[p] = "Report" => TheKey \in OpenOrders(BrokerOf[p])'
    <3> SUFFICES ASSUME command[p] = "cancel-drill", pc'[p] = "Report"
                 PROVE  TheKey \in OpenOrders(BrokerOf[p])'
      OBVIOUS
    <3>1. Profile[b] = "partial" /\ o.reply = "ack"
      BY <1>1, <1>3 DEF Drilling, DrillBroker, b
    <3>2. o.order # NoOrder /\ o.order.life \in NON_TERMINAL_LIFECYCLE
      BY <1>5, <1>7, <3>1, LeftOpen
    <3> QED
      BY <1>7, <1>9, <3>2 DEF OpenOrders, b
  <2>3. Owns(p)' => pc'[p] = "Report"
    BY <1>3, <1>4, <1>5 DEF Owns
  <2> QED
    BY <1>1, <1>3, <1>4, <1>5, <2>1, <2>2, <2>3 DEF Drilling
<1>19. CodesFresh' /\ DrillProof'
  <2>1. DrillProof'
    BY <1>4, <1>12, ProofKept
  <2>2. CodesFresh'
    BY <1>1, <1>4 DEF CodesFresh
  <2> QED
    BY <2>1, <2>2
<1> QED
  BY <1>12, <1>13, <1>15, <1>16, <1>17, <1>18, <1>19 DEF OperatorInv

-----------------------------------------------------------------------------
(* The theorems. *)

\* An empty store, and nobody at work.
LEMMA InitOperatorInv == ASSUME Init PROVE OperatorInv
<1>1. /\ log = <<>> /\ book = [b \in Brokers |-> [k \in Keys |-> NoOrder]]
      /\ placed = [k \in Keys |-> 0] /\ pc = [p \in Procs |-> "Idle"]
      /\ queue = [p \in Procs |-> <<>>] /\ DOMAIN attempt = Procs
      /\ intent = [p \in Procs |-> NoIntent] /\ tally = [p \in Procs |-> NoTally]
      /\ snap = [p \in Procs |-> {}] /\ todo = [p \in Procs |-> {}]
      /\ target = [p \in Procs |-> NoTarget]
      /\ command = [p \in Procs |-> "none"] /\ shown = [p \in Procs |-> {}]
      /\ codes = {} /\ accepted = {} /\ returned = {}
  BY DEF Init, CycleInit, ControlInit
<1>2. NoTally \in [Outcomes -> Nat] /\ NoTally["submitted"] = 0
  BY DEF NoTally, Outcomes
<1>3. IsList(log)
  BY <1>1 DEF IsList, Elements
<1>4. Domains
  BY <1>1, <1>2, <1>3 DEF Domains
<1>5. \A p \in Procs : ~Owns(p) /\ Stage(p) /\ Drilling(p)
  <2> TAKE p \in Procs
  <2>1. pc[p] = "Idle" /\ command[p] = "none" /\ shown[p] = {} /\ tally[p]["submitted"] = 0
    BY <1>1, <1>2
  <2> QED
    BY <2>1 DEF Owns, Stage, Drilling, CyclePCs, Asked, Early
<1>6. Owned
  <2>1. \A k : SubmitsOf(log, k) = {}
    BY <1>1 DEF SubmitsOf
  <2> QED
    BY <1>5, <2>1 DEF Owned
<1>7. OneOrder
  <2>1. \A k \in Keys : placed[k] = 0
    BY <1>1
  <2>2. \A b \in Brokers, k \in Keys : book[b][k] = NoOrder
    BY <1>1
  <2>3. \A p \in Procs : pc[p] # "Submit"
    BY <1>1
  <2> QED
    BY <2>1, <2>2, <2>3 DEF OneOrder
<1>8. CodesFresh
  <2>1. IsFiniteSet({})
    BY FS_EmptySet
  <2> QED
    BY <1>1, <2>1 DEF CodesFresh
<1>9. DrillProof
  BY <1>1 DEF DrillProof
<1> QED
  BY <1>4, <1>5, <1>6, <1>7, <1>8, <1>9 DEF OperatorInv

\* An invocation that ends without printing a result.
LEMMA EndsSilently ==
    ASSUME OperatorInv, NEW p \in Procs, AnswerWrong(p) \/ DrillFails(p) \/ DrillDeclined(p) \/ Crash(p)
    PROVE  OperatorInv'
<1>1. Exit(p) /\ UNCHANGED <<log, returned>>
  BY DEF AnswerWrong, DrillFails, DrillDeclined, Crash, Exit
<1>2. DrillProof'
  BY <1>1 DEF OperatorInv, DrillProof
<1> QED
  BY <1>1, <1>2, Exits

\* A step that changes nothing.
LEMMA Unmoved == ASSUME OperatorInv, UNCHANGED vars PROVE OperatorInv'
<1>1. UNCHANGED <<log, book, placed, pc, queue, attempt, intent, tally, snap, todo, target, command,
                  shown, codes, accepted, returned>>
  BY DEF vars, cycleVars, commandVars, operatorVars
<1>2. Domains' /\ CodesFresh' /\ DrillProof'
  <2>1. Domains'
    BY <1>1 DEF OperatorInv, Domains
  <2>2. CodesFresh'
    BY <1>1 DEF OperatorInv, CodesFresh
  <2>3. DrillProof'
    BY <1>1 DEF OperatorInv, DrillProof
  <2> QED
    BY <2>1, <2>2, <2>3
<1>3. (Tried' <=> Tried) /\ (Settled' <=> Settled) /\ \A p \in Procs : Owns(p)' <=> Owns(p)
  BY <1>1 DEF Tried, Settled, LatestReport, Owns
<1>4. Owned' /\ OneOrder'
  <2>1. Owned'
    BY <1>1, <1>3 DEF OperatorInv, Owned
  <2>2. OneOrder'
    BY <1>1, <1>3 DEF OperatorInv, OneOrder
  <2> QED
    BY <2>1, <2>2
<1>5. ASSUME NEW p \in Procs PROVE Stage(p)' /\ Drilling(p)'
  <2>1. OpenOrders(BrokerOf[p])' = OpenOrders(BrokerOf[p]) /\ DrillBroker(p)' = DrillBroker(p)
    BY <1>1 DEF OpenOrders, DrillBroker
  <2>2. Stage(p) /\ Drilling(p)
    BY DEF OperatorInv
  <2>3. Stage(p)'
    BY <1>1, <2>2 DEF Stage
  <2>4. Drilling(p)'
    BY <1>1, <1>3, <2>1, <2>2 DEF Drilling
  <2> QED
    BY <2>3, <2>4
<1> QED
  BY <1>2, <1>4, <1>5 DEF OperatorInv

\* Every step keeps the invariant.
LEMMA NextOperatorInv == ASSUME OperatorInv, [Next]_vars PROVE OperatorInv'
<1>1. ASSUME NEW p \in Procs, Invoke(p) \/ Inspect(p) \/ Runs(p) \/ Types(p) \/ Crash(p)
      PROVE  OperatorInv'
  <2>1. CASE Invoke(p)
    BY <2>1, Invoked
  <2>2. CASE Inspect(p) \/ InspectDecision(p)
    BY <2>2, Inspected
  <2>3. CASE Display(p)
    BY <2>3, Displays
  <2>4. CASE CycleRuns(p)
    <3>1. UNCHANGED <<commandVars, operatorVars>>
      BY <2>4 DEF CycleRuns
    <3>2. CASE AuditRequest(p) \/ ValidateApproves(p) \/ MintTicket(p)
      BY <3>1, <3>2, Proceeds
    <3>3. CASE PersistAttempt(p)
      BY <3>1, <3>3, Attempted
    <3>4. CASE PersistDuplicate(p) \/ AuditFailure(p) \/ AppendReport(p)
      BY <3>1, <3>4, Counted
    <3>5. CASE SubmitRefused(p)
      BY <3>1, <3>5, Refusal
    <3>6. CASE SubmitToBroker(p)
      BY <3>1, <3>6, Called
    <3> QED
      BY <2>4, <3>2, <3>3, <3>4, <3>5, <3>6 DEF CycleRuns
  <2>5. CASE CycleReturns(p)
    BY <2>5, Returned
  <2>6. CASE AnswerWrong(p) \/ DrillFails(p) \/ DrillDeclined(p) \/ Crash(p)
    BY <2>6, EndsSilently
  <2>7. CASE CancelRuns(p)
    BY <2>7, Cancelling
  <2>8. CASE CancelReturns(p) \/ CancelFails(p)
    BY <2>8, CommandEnds
  <2>9. CASE Return(p)
    BY <2>9, Prints
  <2>10. CASE AnswerEmpty(p)
    BY <2>10, Counted DEF AnswerEmpty
  <2>11. CASE AnswerCode(p)
    BY <2>11, Answers
  <2>12. CASE DrillCancel(p)
    BY <2>12, DrillStarts
  <2> QED
    BY <1>1, <2>1, <2>2, <2>3, <2>4, <2>5, <2>6, <2>7, <2>8, <2>9, <2>10, <2>11, <2>12 DEF Runs, Types
<1>2. CASE Rest \/ UNCHANGED vars
  BY <1>2, Unmoved DEF Rest
<1> QED
  BY <1>1, <1>2 DEF Next

\* The inductive invariant of the terminals: who has the key, whose code is whose, and how
\* far a drill is (paper_operator.py:479-539,584-690).
THEOREM OperatorInductive == Spec => []OperatorInv
<1>1. Init => OperatorInv
  BY InitOperatorInv
<1>2. OperatorInv /\ [Next]_vars => OperatorInv'
  BY NextOperatorInv
<1> QED
  BY <1>1, <1>2, PTL DEF Spec

\* A captured or replayed confirmation fails closed (paper_operator.py:491-495): a code
\* authorises one invocation, and no more orders are ever placed than codes were typed.
THEOREM ConfirmationsFreshHolds == Spec => []ConfirmationsFresh
<1>1. OperatorInv => ConfirmationsFresh
  <2> SUFFICES ASSUME OperatorInv PROVE ConfirmationsFresh
    OBVIOUS
  <2>1. CodesFresh /\ OneOrder /\ Domains
    BY DEF OperatorInv
  <2>2. Cardinality(accepted) \in Nat /\ (Cardinality(accepted) = 0 <=> accepted = {})
    BY <2>1, FS_CardinalityType, FS_EmptySet DEF CodesFresh
  <2>3. \A k \in Keys : placed[k] <= Cardinality(accepted)
    BY <2>1, <2>2 DEF OneOrder, Domains
  <2> QED
    BY <2>1, <2>3 DEF ConfirmationsFresh, CodesFresh
<1> QED
  BY <1>1, OperatorInductive, PTL

\* A drill that returns proves what it says (paper_operator.py:645-648): its order was
\* cancelled on record and nothing on the store was unresolved when it printed.
THEOREM DrillProofHolds == Spec => []DrillProof
<1>1. OperatorInv => DrillProof
  BY DEF OperatorInv
<1> QED
  BY <1>1, OperatorInductive, PTL

-----------------------------------------------------------------------------
(* The order ledger.  The attempt on record is Attempt, the broker call is Place, the
   report Acknowledge, the report of a cancel Close, and everything else, the end of an
   invocation with its broker included, at most retires exposure. *)

\* The last report of the order says that it is open.
OpenOnRecord == ReportsOf(log, TheKey) # {} /\ ~HasTerminalReport(log, TheKey)

\* What p holds in its hands between the broker's answer, or the snapshot of a cancel, and
\* the report of it.
InFlight(p) ==
    /\ pc[p] = "Report" =>
          /\ ReportsOf(log, TheKey) = {} /\ placed[TheKey] = 1
          /\ fill[p].life \notin NON_TERMINAL_LIFECYCLE => TheKey \notin Exposed
    /\ command[p] = "cancelling" =>
          /\ \A f, g \in snap[p] \cup todo[p] : f = g
          /\ \A f \in snap[p] \cup todo[p] : f.key = TheKey
          /\ todo[p] # {} => OpenOnRecord
    /\ pc[p] = "CancelReport" =>
          target[p].key = TheKey /\ todo[p] = {} /\ OpenOnRecord /\ TheKey \notin Exposed

\* One broker at most has the order, and what is reported was placed.
LedgerInv ==
    /\ DOMAIN fill = Procs
    /\ \A b \in Brokers, k \in Keys : book[b][k] # NoOrder => k = TheKey
    /\ \A b, c \in Brokers : book[b][TheKey] # NoOrder /\ book[c][TheKey] # NoOrder => b = c
    /\ \A k \in Keys : ReportsOf(log, k) # {} => k = TheKey /\ placed[k] = 1
    /\ \A p \in Procs : InFlight(p)

\* The same reports in a longer store say the same.
LEMMA SameReports ==
    ASSUME NEW l, NEW m, NEW k, ReportsOf(m, k) = ReportsOf(l, k), \A i \in 1..Len(l) : m[i] = l[i]
    PROVE  HasTerminalReport(m, k) <=> HasTerminalReport(l, k)
<1>1. \A i \in ReportsOf(l, k) : i \in 1..Len(l)
  BY DEF ReportsOf
<1>2. \A i \in ReportsOf(l, k) : m[i] = l[i]
  BY <1>1
<1>3. \A i : LatestReport(m, k, i) <=> LatestReport(l, k, i)
  BY DEF LatestReport
<1> QED
  BY <1>2, <1>3 DEF HasTerminalReport

\* A row that is neither an attempt nor a report changes no answer of the store.
LEMMA QuietAnswers ==
    ASSUME IsList(log), Quiet
    PROVE  \A k : /\ SubmitsOf(log', k) = SubmitsOf(log, k) /\ ReportsOf(log', k) = ReportsOf(log, k)
                  /\ HasTerminalReport(log', k) <=> HasTerminalReport(log, k)
<1>1. CASE UNCHANGED log
  BY <1>1
<1>2. CASE ~UNCHANGED log
  <2>1. PICK e : /\ log' = Append(log, e)
                 /\ e.type \notin {"BROKER_SUBMIT_INTENT", "EXECUTION_REPORT"}
    BY <1>2 DEF Quiet
  <2>2. \A k : SubmitsOf(log', k) = SubmitsOf(log, k) /\ ReportsOf(log', k) = ReportsOf(log, k)
    <3>1. \A k : /\ SubmitsOf(log', k) = SubmitsOf(log, k) \cup
                         (IF e.type = "BROKER_SUBMIT_INTENT" /\ e.key = k THEN {Len(log) + 1} ELSE {})
                   /\ ReportsOf(log', k) = ReportsOf(log, k) \cup
                         (IF e.type = "EXECUTION_REPORT" /\ e.key = k THEN {Len(log) + 1} ELSE {})
      BY <2>1, RowsOfKey
    <3> QED
      BY <2>1, <3>1
  <2>3. \A i \in 1..Len(log) : log'[i] = log[i]
    BY <2>1, ListAppend
  <2> QED
    BY <2>2, <2>3, SameReports
<1> QED
  BY <1>1, <1>2

\* A report is the last word on its key.
LEMMA ReportAnswers ==
    ASSUME IsList(log), NEW key, NEW life, NEW n, append(ReportEvent(key, life, n))
    PROVE  \A k : /\ SubmitsOf(log', k) = SubmitsOf(log, k)
                  /\ k # key => /\ ReportsOf(log', k) = ReportsOf(log, k)
                                /\ HasTerminalReport(log', k) <=> HasTerminalReport(log, k)
                  /\ k = key => /\ ReportsOf(log', k) # {}
                                /\ HasTerminalReport(log', k) <=> life \notin NON_TERMINAL_LIFECYCLE
<1> DEFINE e == ReportEvent(key, life, n)
<1>1. e.type = "EXECUTION_REPORT" /\ e.key = key /\ e.life = life /\ log' = Append(log, e)
  BY DEF ReportEvent, append
<1> HIDE DEF e
<1>2. /\ Len(log) \in Nat /\ Len(log') = Len(log) + 1
      /\ \A i \in 1..Len(log) : log'[i] = log[i]
      /\ log'[Len(log) + 1] = e
  BY <1>1, ListAppend
<1>3. \A k : /\ SubmitsOf(log', k) = SubmitsOf(log, k)
             /\ k # key => ReportsOf(log', k) = ReportsOf(log, k)
             /\ k = key => ReportsOf(log', k) = ReportsOf(log, k) \cup {Len(log) + 1}
  <2>1. \A k : /\ SubmitsOf(log', k) = SubmitsOf(log, k) \cup
                       (IF e.type = "BROKER_SUBMIT_INTENT" /\ e.key = k THEN {Len(log) + 1} ELSE {})
                 /\ ReportsOf(log', k) = ReportsOf(log, k) \cup
                       (IF e.type = "EXECUTION_REPORT" /\ e.key = k THEN {Len(log) + 1} ELSE {})
    BY <1>1, RowsOfKey
  <2> QED
    BY <1>1, <2>1
<1>4. \A k : ReportsOf(log, k) \subseteq 1..Len(log)
  BY DEF ReportsOf
<1>5. \A k : k # key => (HasTerminalReport(log', k) <=> HasTerminalReport(log, k))
  BY <1>2, <1>3, SameReports
<1>6. HasTerminalReport(log', key) <=> life \notin NON_TERMINAL_LIFECYCLE
  <2>1. ReportsOf(log', key) = ReportsOf(log, key) \cup {Len(log) + 1}
    BY <1>3
  <2>2. \A i \in ReportsOf(log, key) : i \in Nat /\ i < Len(log) + 1
    BY <1>2, <1>4
  <2>3. \A i : LatestReport(log', key, i) <=> i = Len(log) + 1
    BY <1>2, <2>1, <2>2 DEF LatestReport
  <2> QED
    BY <1>1, <1>2, <2>1, <2>3 DEF HasTerminalReport
<1> QED
  BY <1>3, <1>5, <1>6

\* What p leaves alone: the hands and the brokers of the others.
Aside(p) ==
    /\ DOMAIN fill' = Procs
    /\ \A q \in Procs : q # p =>
          /\ pc'[q] = pc[q] /\ fill'[q] = fill[q] /\ command'[q] = command[q]
          /\ snap'[q] = snap[q] /\ todo'[q] = todo[q] /\ target'[q] = target[q]
          /\ book'[BrokerOf[q]] = book[BrokerOf[q]]

\* Only the owner of the key has something in its hands, and only the owner reports.
LEMMA OthersInFlight ==
    ASSUME OperatorInv, LedgerInv, NEW p \in Procs, NEW q \in Procs, q # p, Aside(p),
           Quiet \/ Reporting(p) \/ Trying,
           Owns(p) \/ (Exposed' \subseteq Exposed /\ UNCHANGED placed)
    PROVE  InFlight(q)'
<1>1. InFlight(q) /\ Stage(q) /\ Drilling(q) /\ Owned /\ IsList(log)
  BY DEF OperatorInv, LedgerInv, Domains
<1>2. CASE ~Owns(q)
  <2>1. pc[q] # "Report" /\ command[q] # "cancelling"
    BY <1>1, <1>2 DEF Owns, Drilling
  <2>2. pc[q] # "CancelReport"
    BY <1>1, <2>1 DEF Stage, CyclePCs
  <2> QED
    BY <2>1, <2>2 DEF InFlight, Aside
<1>3. CASE Owns(q)
  <2>1. ~Owns(p) /\ Tried
    BY <1>1, <1>3 DEF Owned
  <2>2. Quiet
    BY <2>1 DEF Reporting, Trying
  <2>3. /\ ReportsOf(log', TheKey) = ReportsOf(log, TheKey)
        /\ HasTerminalReport(log', TheKey) <=> HasTerminalReport(log, TheKey)
    BY <1>1, <2>2, QuietAnswers
  <2>4. OpenOnRecord' <=> OpenOnRecord
    BY <2>3 DEF OpenOnRecord
  <2>5. Exposed' \subseteq Exposed /\ UNCHANGED placed
    BY <2>1
  <2> QED
    BY <1>1, <2>3, <2>4, <2>5 DEF InFlight, Aside
<1> QED
  BY <1>2, <1>3

\* A step that places and reports nothing is at most a Retire.
LEMMA Retires ==
    ASSUME OperatorInv, LedgerInv, NEW p \in Procs, Aside(p), InFlight(p)', Quiet, UNCHANGED placed,
           \A b \in Brokers, k \in Keys : book'[b][k] # NoOrder => book[b][k] # NoOrder,
           \A b \in Brokers : OpenOrders(b)' \subseteq OpenOrders(b)
    PROVE  LedgerInv' /\ Ledger!Retire
<1>1. IsList(log)
  BY DEF OperatorInv, Domains
<1>2. \A k : /\ SubmitsOf(log', k) = SubmitsOf(log, k) /\ ReportsOf(log', k) = ReportsOf(log, k)
             /\ HasTerminalReport(log', k) <=> HasTerminalReport(log, k)
  BY <1>1, QuietAnswers
<1>3. Exposed' \subseteq Exposed
  BY DEF Exposed
<1>4. \A q \in Procs : InFlight(q)'
  BY <1>3, OthersInFlight
<1>5. TheKey \in Keys
  BY TheKeyType
<1>6. LedgerInv'
  BY <1>2, <1>4, <1>5 DEF LedgerInv, Aside
<1>7. \A k \in Keys : StandingOf(k)' = StandingOf(k)
  BY <1>2 DEF StandingOf
<1> QED
  BY <1>6, <1>7, <1>3 DEF Ledger!Retire

\* A step with nothing in hand, before it or after, that leaves the brokers alone.
LEMMA Passes ==
    ASSUME OperatorInv, LedgerInv, NEW p \in Procs, Aside(p), Quiet, UNCHANGED <<book, placed>>,
           pc'[p] \notin {"Report", "CancelReport"}, command'[p] # "cancelling"
    PROVE  LedgerInv' /\ Ledger!Retire
<1>1. InFlight(p)'
  BY DEF InFlight
<1>2. \A b \in Brokers : OpenOrders(b)' = OpenOrders(b)
  BY DEF OpenOrders
<1> QED
  BY <1>1, <1>2, Retires

\* The steps of a cycle and of the invocation around it that reach neither the broker nor
\* the reports.
LEMMA CyclePasses ==
    ASSUME OperatorInv, LedgerInv, NEW p \in Procs,
           \/ Invoke(p) \/ Inspect(p) \/ InspectDecision(p) \/ Display(p) \/ CycleReturns(p)
           \/ AnswerEmpty(p) \/ AnswerCode(p) \/ CancelReturns(p) \/ CancelFails(p)
           \/ /\ command[p] \in {"submit", "cancel-drill"}
              /\ UNCHANGED <<commandVars, operatorVars>>
              /\ \/ AuditRequest(p) \/ ValidateApproves(p) \/ MintTicket(p)
                 \/ PersistDuplicate(p) \/ SubmitRefused(p) \/ AuditFailure(p)
    PROVE  LedgerInv' /\ Ledger!Retire
<1>1. Domains /\ Stage(p) /\ DOMAIN fill = Procs
  BY DEF OperatorInv, LedgerInv
<1> USE <1>1 DEF Domains, Aside
<1>2. CASE Invoke(p)
  <2>1. PICK batch \in TheBatches : StartCycle(p, batch, 1)
    BY <1>2 DEF Invoke
  <2>2. Quiet
    BY <2>1, QuietArtifact DEF StartCycle
  <2>3. Aside(p) /\ UNCHANGED <<book, placed>>
    BY <1>2, <2>1 DEF Invoke, StartCycle, GoTo, commandVars
  <2>4. pc'[p] \in {"Request", "Finish"} /\ command'[p] \in {"submit", "cancel-drill"}
    BY <1>2, <2>1 DEF Invoke, StartCycle, GoTo
  <2> QED
    BY <2>2, <2>3, <2>4, Passes
<1>3. CASE Inspect(p) \/ InspectDecision(p)
  <2>1. append(AuditArtifact("READ")) /\ pc[p] = "Idle" /\ UNCHANGED <<pc, fill, snap, todo, target, book, placed>>
    BY <1>3 DEF Inspect, InspectDecision, ReadCommand, FirstAudit, cycleVars
  <2>2. Quiet
    BY <2>1, QuietArtifact
  <2>3. Aside(p) /\ command'[p] \in {"none", "inspect"}
    BY <1>3, <2>1 DEF Inspect, InspectDecision
  <2> QED
    BY <2>1, <2>2, <2>3, Passes
<1>4. CASE Display(p)
  <2>1. /\ pc[p] = "Confirm"
        /\ UNCHANGED <<log, pc, fill, snap, todo, target, command, book, placed>>
    BY <1>4 DEF Display, cycleVars, commandVars
  <2>2. Quiet /\ command[p] # "cancelling"
    BY <2>1 DEF Quiet, Stage, CancelPCs
  <2> QED
    BY <2>1, <2>2, Passes
<1>5. CASE CycleReturns(p)
  <2>1. UNCHANGED <<log, fill, snap, todo, target, book, placed>>
    BY <1>5 DEF CycleReturns, FinishCycle, cycleVars, commandVars
  <2>2. Aside(p) /\ pc'[p] = "Idle" /\ command'[p] \in {"done", "drill"}
    BY <1>5, <2>1 DEF CycleReturns, FinishCycle, GoTo
  <2> QED
    BY <2>1, <2>2, Passes DEF Quiet
<1>6. CASE AnswerEmpty(p)
  <2>1. /\ pc[p] = "Confirm" /\ NextItem(p, "deferred") /\ append(AuditArtifact("PAPER_SUBMIT_DEFERRED"))
        /\ UNCHANGED <<snap, todo, target, command, book, placed>>
    BY <1>6 DEF AnswerEmpty, ConfirmDeclines, commandVars, operatorVars
  <2>2. Quiet /\ command[p] # "cancelling"
    BY <2>1, QuietArtifact DEF Stage, CancelPCs
  <2>3. Aside(p) /\ pc'[p] \in {"Finish", "Request"}
    BY <2>1 DEF NextItem
  <2> QED
    BY <2>1, <2>2, <2>3, Passes
<1>7. CASE AnswerCode(p)
  <2>1. /\ pc[p] = "Confirm" /\ GoTo(p, "Persist")
        /\ UNCHANGED <<log, fill, snap, todo, target, command, book, placed>>
    BY <1>7 DEF AnswerCode, ConfirmAnswers, commandVars
  <2>2. Quiet /\ command[p] # "cancelling"
    BY <2>1 DEF Quiet, Stage, CancelPCs
  <2>3. Aside(p) /\ pc'[p] = "Persist"
    BY <2>1 DEF GoTo
  <2> QED
    BY <2>1, <2>2, <2>3, Passes
<1>8. CASE CancelReturns(p) \/ CancelFails(p)
  <2>1. Quiet
    BY <1>8, QuietArtifact DEF CancelReturns, CancelFails, CancelDone, RejectCommand,
       CommandRaises, OneMoreAudit, Quiet
  <2>2. Aside(p) /\ UNCHANGED <<book, placed>> /\ pc'[p] = "Idle" /\ command'[p] \in {"cancelled", "failed"}
    BY <1>8 DEF CancelReturns, CancelFails, CancelDone, RejectCommand, CommandRaises,
                ForgetOrders, GoTo, cycleVars, commandVars
  <2> QED
    BY <2>1, <2>2, Passes
<1>9. CASE /\ command[p] \in {"submit", "cancel-drill"} /\ UNCHANGED <<commandVars, operatorVars>>
           /\ AuditRequest(p) \/ ValidateApproves(p) \/ MintTicket(p) \/ SubmitRefused(p)
  <2>1. /\ UNCHANGED <<fill, snap, todo, target, command, book, placed>>
        /\ \E l \in {"Validate", "Route", "Confirm", "Failed"} : GoTo(p, l)
    BY <1>9 DEF AuditRequest, ValidateApproves, MintTicket, SubmitRefused, cycleVars, commandVars,
                operatorVars
  <2>2. Aside(p) /\ pc'[p] \in {"Validate", "Route", "Confirm", "Failed"}
    BY <2>1 DEF GoTo
  <2>3. Quiet
    <3>1. CASE UNCHANGED log
      BY <3>1 DEF Quiet
    <3> QED
      BY <1>9, <3>1, QuietRows DEF AuditRequest, ValidateApproves, MintTicket, SubmitRefused
  <2> QED
    BY <1>9, <2>1, <2>2, <2>3, Passes
<1>10. CASE /\ command[p] \in {"submit", "cancel-drill"} /\ UNCHANGED <<commandVars, operatorVars>>
            /\ PersistDuplicate(p) \/ AuditFailure(p)
  <2>1. /\ UNCHANGED <<snap, todo, target, command, book, placed>>
        /\ \E o : NextItem(p, o)
    BY <1>10 DEF PersistDuplicate, AuditFailure, commandVars, operatorVars
  <2>2. Aside(p) /\ pc'[p] \in {"Finish", "Request"}
    BY <2>1 DEF NextItem
  <2>3. Quiet
    BY <1>10, QuietArtifact DEF PersistDuplicate, AuditFailure
  <2> QED
    BY <1>10, <2>1, <2>2, <2>3, Passes
<1> QED
  BY <1>2, <1>3, <1>4, <1>5, <1>6, <1>7, <1>8, <1>9, <1>10

\* An invocation that ends takes its broker along.
LEMMA ExitRetires ==
    ASSUME OperatorInv, LedgerInv, NEW p \in Procs, Exit(p) PROVE LedgerInv' /\ Ledger!Retire
<1>1. Domains /\ DOMAIN fill = Procs /\ BrokerOf[p] \in Brokers
  BY OperatorAssumption DEF OperatorInv, LedgerInv
<1>2. \A b \in Brokers, k \in Keys :
          book'[b][k] = IF b = BrokerOf[p] THEN NoOrder ELSE book[b][k]
  BY <1>1 DEF Exit, Domains
<1>3. Aside(p)
  BY <1>1, OperatorAssumption DEF Exit, Forget, Domains, Aside
<1>4. UNCHANGED <<log, placed>> /\ pc'[p] = "Idle" /\ command'[p] = "none"
  BY <1>1 DEF Exit, Forget, Domains
<1>5. Quiet /\ InFlight(p)'
  BY <1>4 DEF Quiet, InFlight
<1>6. \A b \in Brokers : OpenOrders(b)' \subseteq OpenOrders(b)
  BY <1>2 DEF OpenOrders
<1>7. \A b \in Brokers, k \in Keys : book'[b][k] # NoOrder => book[b][k] # NoOrder
  BY <1>2
<1> QED
  BY <1>3, <1>4, <1>5, <1>6, <1>7, Retires

\* The snapshot of a cancel has the one order, if any.
LEMMA DrillRetires ==
    ASSUME OperatorInv, LedgerInv, NEW p \in Procs, DrillCancel(p)
    PROVE  LedgerInv' /\ Ledger!Retire
<1>1. Domains /\ DOMAIN fill = Procs /\ BrokerOf[p] \in Brokers
  BY OperatorAssumption DEF OperatorInv, LedgerInv
<1>2. /\ UNCHANGED <<log, book, placed, fill, target>> /\ pc'[p] = "CancelResolve"
      /\ snap'[p] = get_open_orders(BrokerOf[p]) /\ todo'[p] = {}
  BY <1>1 DEF DrillCancel, cancel_open_orders, GoTo, cycleVars, Domains
<1>3. Aside(p)
  BY <1>1 DEF DrillCancel, cancel_open_orders, GoTo, cycleVars, Domains, Aside
<1>4. \A k \in OpenOrders(BrokerOf[p]) : k = TheKey
  BY <1>1 DEF OpenOrders, LedgerInv
<1>5. \A f \in snap'[p] :
          f = [key |-> TheKey, life |-> book[BrokerOf[p]][TheKey].life,
               filled |-> book[BrokerOf[p]][TheKey].filled]
  BY <1>2, <1>4 DEF get_open_orders
<1>6. InFlight(p)'
  BY <1>2, <1>5 DEF InFlight
<1>7. Quiet /\ \A b \in Brokers : OpenOrders(b)' = OpenOrders(b)
  BY <1>2 DEF Quiet, OpenOrders
<1> QED
  BY <1>2, <1>3, <1>6, <1>7, Retires

\* A cancel before its report: the order is authenticated against its open report, then
\* cancelled at the broker.
LEMMA CancelRetires ==
    ASSUME OperatorInv, LedgerInv, NEW p \in Procs, command[p] = "cancelling", UNCHANGED operatorVars,
           CancelResolve(p) \/ CancelAtBroker(p) \/ CancelReportRaises(p) \/ AuditRaises(p)
    PROVE  LedgerInv' /\ Ledger!Retire
<1> DEFINE b == BrokerOf[p]
<1>1. /\ Domains /\ DOMAIN fill = Procs /\ b \in Brokers /\ IsList(log) /\ TheKey \in Keys
      /\ InFlight(p) /\ Drilling(p)
  BY OperatorAssumption, TheKeyType DEF OperatorInv, LedgerInv, Domains
<1>2. \A f, g \in snap[p] \cup todo[p] : f = g
  BY <1>1 DEF InFlight
<1>3. \A f \in snap[p] \cup todo[p] : f.key = TheKey
  BY <1>1 DEF InFlight
<1>4. todo[p] # {} => OpenOnRecord
  BY <1>1 DEF InFlight
<1>5. UNCHANGED <<log, placed, fill, command>>
  BY DEF CancelResolve, CancelAtBroker, CancelReportRaises, AuditRaises, cycleVars,
         operatorVars
<1>6. Quiet /\ (OpenOnRecord' <=> OpenOnRecord)
  BY <1>5 DEF Quiet, OpenOnRecord
<1>7. CASE CancelResolve(p)
  <2>1. pc[p] = "CancelResolve" /\ UNCHANGED <<book, target>>
    BY <1>7 DEF CancelResolve
  <2>2. Aside(p)
    BY <1>1, <1>5, <1>7, <2>1 DEF CancelResolve, GoTo, Aside, Domains
  <2>3. /\ pc'[p] # "CancelReport" /\ pc'[p] # "Report"
        /\ snap'[p] \cup todo'[p] = snap[p] \cup todo[p]
        /\ todo'[p] = todo[p] \/ \E f \in snap[p] : resolve_cancel_identity(f)
    BY <1>1, <1>7, <2>1 DEF CancelResolve, GoTo, Domains
  <2>4. ASSUME NEW f \in snap[p], resolve_cancel_identity(f) PROVE OpenOnRecord
    <3>1. PICK i \in ReportsOf(log, TheKey) :
              LatestReport(log, TheKey, i) /\ log[i].life \in NON_TERMINAL_LIFECYCLE
      BY <1>3, <2>4 DEF resolve_cancel_identity
    <3>2. \A j \in ReportsOf(log, TheKey) : i \in Nat /\ j \in Nat
      BY DEF ReportsOf
    <3>3. \A j : LatestReport(log, TheKey, j) => j = i
      BY <3>1, <3>2 DEF LatestReport
    <3> QED
      BY <3>1, <3>3 DEF OpenOnRecord, HasTerminalReport
  <2>5. InFlight(p)'
    BY <1>2, <1>3, <1>4, <1>6, <2>3, <2>4 DEF InFlight
  <2>6. \A c \in Brokers : OpenOrders(c)' = OpenOrders(c)
    BY <2>1 DEF OpenOrders
  <2> QED
    BY <1>5, <1>6, <2>1, <2>2, <2>5, <2>6, Retires
<1>8. CASE CancelReportRaises(p) \/ AuditRaises(p)
  <2>1. /\ pc'[p] \in {"CmdReject", "Unaudited"} /\ UNCHANGED book
        /\ snap'[p] \subseteq snap[p] /\ todo'[p] \subseteq todo[p]
    BY <1>1, <1>8 DEF CancelReportRaises, AuditRaises, ForgetOrders, GoTo, Domains
  <2>2. Aside(p)
    BY <1>1, <1>5, <1>8, <2>1
       DEF CancelReportRaises, AuditRaises, ForgetOrders, GoTo, Aside, Domains
  <2>3. InFlight(p)'
    BY <1>2, <1>3, <1>4, <1>6, <2>1 DEF InFlight
  <2>4. \A c \in Brokers : OpenOrders(c)' = OpenOrders(c)
    BY <2>1 DEF OpenOrders
  <2> QED
    BY <1>5, <1>6, <2>1, <2>2, <2>3, <2>4, Retires
<1>9. CASE CancelAtBroker(p)
  <2> PICK f \in todo[p] : \E o \in CancelOutcomes(b, f.key) :
            /\ cancel_order(b, f.key, o)
            /\ IF CancelConfirmed(f, o)
               THEN /\ GoTo(p, "CancelReport")
                    /\ target' = [target EXCEPT ![p] = CancelResponse(f, o)]
                    /\ todo' = [todo EXCEPT ![p] = @ \ {f}]
               ELSE GoTo(p, "CmdReject") /\ UNCHANGED <<target, todo>>
    BY <1>9 DEF CancelAtBroker
  <2>1. PICK o \in CancelOutcomes(b, f.key) :
            /\ cancel_order(b, f.key, o)
            /\ IF CancelConfirmed(f, o)
               THEN /\ GoTo(p, "CancelReport")
                    /\ target' = [target EXCEPT ![p] = CancelResponse(f, o)]
                    /\ todo' = [todo EXCEPT ![p] = @ \ {f}]
               ELSE GoTo(p, "CmdReject") /\ UNCHANGED <<target, todo>>
    OBVIOUS
  <2>2. f.key = TheKey /\ OpenOnRecord /\ snap[p] = {} /\ UNCHANGED snap
    BY <1>1, <1>3, <1>4, <1>9 DEF CancelAtBroker, Drilling
  <2>3. book' = [book EXCEPT ![b][TheKey] = o.order]
    BY <2>1, <2>2 DEF cancel_order
  <2>4. \A c \in Brokers, k \in Keys :
            book'[c][k] = IF c = b /\ k = TheKey THEN o.order ELSE book[c][k]
    BY <1>1, <2>3 DEF Domains
  <2>5. /\ TheKey \notin OpenOrders(b) => o.order = book[b][TheKey] /\ o.reply = "error"
        /\ TheKey \in OpenOrders(b) => book[b][TheKey] # NoOrder
    BY <2>2 DEF CancelOutcomes, OpenOrders
  <2>6. \A c \in Brokers, k \in Keys : book'[c][k] # NoOrder => book[c][k] # NoOrder
    BY <2>4, <2>5
  <2>7. \A c \in Brokers : OpenOrders(c)' \subseteq OpenOrders(c)
    <3> TAKE c \in Brokers
    <3>1. ASSUME NEW k \in Keys, k \in OpenOrders(c)' PROVE k \in OpenOrders(c)
      <4>1. CASE c = b /\ k = TheKey
        <5>1. CASE TheKey \in OpenOrders(b)
          BY <4>1, <5>1
        <5>2. CASE TheKey \notin OpenOrders(b)
          <6>1. book'[b][TheKey] = book[b][TheKey]
            BY <1>1, <2>4, <2>5, <5>2
          <6> QED
            BY <3>1, <4>1, <6>1 DEF OpenOrders
        <5> QED
          BY <5>1, <5>2
      <4>2. CASE ~(c = b /\ k = TheKey)
        BY <2>4, <3>1, <4>2 DEF OpenOrders
      <4> QED
        BY <4>1, <4>2
    <3> QED
      BY <3>1 DEF OpenOrders
  <2>8. Aside(p)
    <3>1. \A q \in Procs : q # p => book'[BrokerOf[q]] = book[BrokerOf[q]]
      BY <1>1, <2>3, OperatorAssumption DEF Domains
    <3> QED
      BY <1>1, <1>5, <2>1, <2>2, <3>1 DEF GoTo, Aside, Domains
  <2>9. InFlight(p)'
    <3>1. CASE CancelConfirmed(f, o)
      <4>1. pc'[p] = "CancelReport" /\ todo'[p] = todo[p] \ {f} /\ target'[p] = CancelResponse(f, o)
        BY <1>1, <2>1, <3>1 DEF GoTo, Domains
      <4>2. todo'[p] = {} /\ snap'[p] = {} /\ target'[p].key = TheKey
        BY <1>2, <2>2, <4>1 DEF CancelResponse
      <4>3. /\ o.reply = "ack" /\ o.order.life = "CANCELLED"
            /\ \A c \in Brokers : c # b => book[c][TheKey] = NoOrder
        BY <1>1, <2>5, <3>1 DEF CancelConfirmed, LedgerInv
      <4>4. "CANCELLED" \notin NON_TERMINAL_LIFECYCLE
        BY DEF NON_TERMINAL_LIFECYCLE
      <4>5. book'[b][TheKey] = o.order
        BY <1>1, <2>4
      <4>6. \A c \in Brokers : TheKey \notin OpenOrders(c)'
        BY <1>1, <2>4, <4>3, <4>4, <4>5 DEF OpenOrders
      <4> QED
        BY <1>6, <2>2, <4>1, <4>2, <4>6 DEF InFlight, Exposed
    <3>2. CASE ~CancelConfirmed(f, o)
      <4>1. pc'[p] = "CmdReject" /\ UNCHANGED <<snap, todo>>
        BY <1>1, <2>1, <2>2, <3>2 DEF GoTo, Domains
      <4> QED
        BY <1>2, <1>3, <1>4, <1>6, <4>1 DEF InFlight
    <3> QED
      BY <3>1, <3>2
  <2> QED
    BY <1>5, <1>6, <2>6, <2>7, <2>8, <2>9, Retires
<1> QED
  BY <1>7, <1>8, <1>9

\* The attempt on record.
LEMMA LedgerAttempts ==
    ASSUME OperatorInv, LedgerInv, NEW p \in Procs, PersistAttempt(p),
           UNCHANGED <<commandVars, operatorVars>>
    PROVE  LedgerInv' /\ Ledger!Attempt(TheKey)
<1>1. /\ Domains /\ OneOrder /\ Stage(p) /\ DOMAIN fill = Procs /\ IsList(log) /\ TheKey \in Keys
  BY TheKeyType DEF OperatorInv, LedgerInv, Domains
<1>2. /\ pc[p] = "Persist" /\ pc'[p] = "Submit"
      /\ UNCHANGED <<book, placed, fill, snap, todo, target, command>>
  BY <1>1 DEF PersistAttempt, GoTo, Domains, cycleVars, commandVars, operatorVars
<1>3. KeyOf(intent[p]) = TheKey /\ command[p] # "cancelling"
  BY <1>1, <1>2 DEF Stage, Asked, CancelPCs
<1> DEFINE e == SubmitEvent(intent[p])
<1>4. /\ ~Tried /\ log' = Append(log, e) /\ e.type = "BROKER_SUBMIT_INTENT" /\ e.key = TheKey
  BY <1>3 DEF PersistAttempt, record_submit_attempt, DuplicateIdempotencyKey, Tried, append,
              SubmitEvent
<1> HIDE DEF e
<1>5. \A k : /\ SubmitsOf(log', k) = SubmitsOf(log, k) \cup
                   (IF e.type = "BROKER_SUBMIT_INTENT" /\ e.key = k THEN {Len(log) + 1} ELSE {})
             /\ ReportsOf(log', k) = ReportsOf(log, k) \cup
                   (IF e.type = "EXECUTION_REPORT" /\ e.key = k THEN {Len(log) + 1} ELSE {})
  BY <1>1, <1>4, RowsOfKey
<1>6. \A k : /\ k # TheKey => SubmitsOf(log', k) = SubmitsOf(log, k)
             /\ ReportsOf(log', k) = ReportsOf(log, k)
  BY <1>4, <1>5
<1>7. SubmitsOf(log', TheKey) # {} /\ SubmitsOf(log, TheKey) = {}
  BY <1>4, <1>5 DEF Tried
<1>8. \A k : HasTerminalReport(log', k) <=> HasTerminalReport(log, k)
  <2>1. \A i \in 1..Len(log) : log'[i] = log[i]
    BY <1>1, <1>4, ListAppend
  <2> QED
    BY <1>6, <2>1, SameReports
<1>9. ReportsOf(log, TheKey) = {}
  BY <1>1, <1>4 DEF OneOrder, LedgerInv
<1>10. Exposed' = Exposed
  BY <1>2 DEF Exposed, OpenOrders
<1>11. Aside(p)
  BY <1>1, <1>2 DEF Aside, PersistAttempt, GoTo, Domains
<1>12. Trying
  BY <1>4 DEF Trying
<1>13. InFlight(p)'
  BY <1>2, <1>3 DEF InFlight
<1>14. \A q \in Procs : InFlight(q)'
  BY <1>2, <1>10, <1>11, <1>12, <1>13, OthersInFlight
<1>15. LedgerInv'
  BY <1>1, <1>2, <1>6, <1>14 DEF LedgerInv
<1>16. StandingOf(TheKey) = "none" /\ StandingOf(TheKey)' = "attempted"
  BY <1>6, <1>7, <1>9 DEF StandingOf
<1>17. \A k \in Keys : k # TheKey => StandingOf(k)' = StandingOf(k)
  BY <1>6, <1>8 DEF StandingOf
<1> QED
  BY <1>1, <1>2, <1>10, <1>15, <1>16, <1>17 DEF Ledger!Attempt

\* An acknowledgement carries the order.
LEMMA Acked ==
    ASSUME NEW b \in Brokers, NEW i \in Intents, book[b][KeyOf(i)] = NoOrder,
           NEW o \in SubmitOutcomes(b, i), o.reply = "ack"
    PROVE  o.order # NoOrder
<1>1. CASE Profile[b] = "remote"
  <2>1. Requested(i) \in Nat
    BY TicketAssumption DEF Requested, Intents
  <2>2. o.order \in {[intent |-> i, life |-> "WORKING", filled |-> 0],
                     [intent |-> i, life |-> "REJECTED", filled |-> 0],
                     [intent |-> i, life |-> "FILLED", filled |-> Requested(i)]}
    BY <1>1 DEF SubmitOutcomes, RemoteSubmit
  <2>3. o.order \in Order
    BY <2>1, <2>2 DEF Order, OrderLifecycleState, NON_TERMINAL_LIFECYCLE
  <2> QED
    BY <2>3, CycleNoneAssumption
<1>2. CASE Profile[b] # "remote"
  <2> DEFINE new == simulate(Profile[b], i)
  <2> HIDE DEF new
  <2>1. o = [reply |-> IF new = NoOrder THEN "error" ELSE "ack", order |-> new]
    BY <1>2 DEF SubmitOutcomes, new
  <2> QED
    BY <2>1
<1> QED
  BY <1>1, <1>2

\* The broker call places the one order, or places nothing.
LEMMA LedgerPlaces ==
    ASSUME OperatorInv, LedgerInv, NEW p \in Procs, SubmitToBroker(p),
           UNCHANGED <<commandVars, operatorVars>>
    PROVE  LedgerInv' /\ (Ledger!Place(TheKey) \/ Ledger!Retire)
<1> DEFINE b == BrokerOf[p]
<1>1. /\ Domains /\ Owned /\ OneOrder /\ Stage(p) /\ DOMAIN fill = Procs /\ TheKey \in Keys
      /\ b \in Brokers /\ \A q \in Procs : q # p => BrokerOf[q] # b
  BY TheKeyType, OperatorAssumption DEF OperatorInv, LedgerInv
<1>2. PICK o \in SubmitOutcomes(b, intent[p]) :
          /\ submit_order(b, intent[p], o)
          /\ fill' = [fill EXCEPT ![p] = IF o.reply = "ack" THEN o.order ELSE NoFill]
          /\ GoTo(p, IF o.reply = "ack" THEN "Report" ELSE "Failed")
  BY DEF SubmitToBroker
<1>3. /\ pc[p] = "Submit" /\ UNCHANGED <<log, snap, todo, target, command>>
      /\ pc'[p] = (IF o.reply = "ack" THEN "Report" ELSE "Failed")
      /\ fill'[p] = (IF o.reply = "ack" THEN o.order ELSE NoFill)
  BY <1>1, <1>2 DEF SubmitToBroker, GoTo, Domains, commandVars, operatorVars
<1>4. /\ KeyOf(intent[p]) = TheKey /\ intent[p] \in Intents
      /\ command[p] \in {"submit", "cancel-drill"} /\ Owns(p) /\ Tried
  BY <1>1, <1>3 DEF Stage, CyclePCs, CancelPCs, Asked, Owns, Owned
<1>5. placed[TheKey] = 0 /\ \A c \in Brokers : book[c][TheKey] = NoOrder
  BY <1>1, <1>3 DEF OneOrder
<1>6. \A c \in Brokers, k \in Keys : book[c][k] = NoOrder
  BY <1>5 DEF LedgerInv
<1>7. o.reply = "ack" => o.order # NoOrder
  BY <1>1, <1>4, <1>5, Acked
<1>8. /\ book' = [book EXCEPT ![b][TheKey] = o.order]
      /\ placed' = [placed EXCEPT ![TheKey] =
             IF book[b][TheKey] = NoOrder /\ o.order # NoOrder THEN @ + 1 ELSE @]
  BY <1>2, <1>4 DEF submit_order
<1> HIDE DEF b
<1>9. \A c \in Brokers, k \in Keys :
          book'[c][k] = IF c = b /\ k = TheKey THEN o.order ELSE NoOrder
  BY <1>1, <1>6, <1>8 DEF Domains
<1>10. /\ o.order # NoOrder => placed' = [placed EXCEPT ![TheKey] = 1] /\ placed'[TheKey] = 1
       /\ o.order = NoOrder => placed' = placed
  <2>1. placed' = [placed EXCEPT ![TheKey] =
            IF o.order # NoOrder THEN placed[TheKey] + 1 ELSE placed[TheKey]]
    BY <1>1, <1>5, <1>8
  <2>2. placed \in [Keys -> Nat] /\ placed[TheKey] = 0
    BY <1>1, <1>5 DEF Domains
  <2>3. CASE o.order # NoOrder
    <3>1. placed' = [placed EXCEPT ![TheKey] = placed[TheKey] + 1]
      BY <2>1, <2>3
    <3>2. placed[TheKey] + 1 = 1
      BY <2>2
    <3>3. placed' = [placed EXCEPT ![TheKey] = 1]
      BY <3>1, <3>2
    <3> QED
      BY <1>1, <2>2, <2>3, <3>3
  <2>4. CASE o.order = NoOrder
    <3>1. placed' = [placed EXCEPT ![TheKey] = placed[TheKey]]
      BY <2>1, <2>4
    <3> QED
      BY <1>1, <2>2, <2>4, <3>1
  <2> QED
    BY <2>3, <2>4
<1>11. Exposed = {}
  BY <1>6 DEF Exposed, OpenOrders
<1>12. Exposed' = IF o.order # NoOrder /\ o.order.life \in NON_TERMINAL_LIFECYCLE THEN {TheKey} ELSE {}
  BY <1>1, <1>9 DEF Exposed, OpenOrders
<1>13. ReportsOf(log, TheKey) = {}
  BY <1>1, <1>5 DEF LedgerInv
<1>14. Aside(p)
  <2>1. \A q \in Procs : q # p => book'[BrokerOf[q]] = book[BrokerOf[q]]
    BY <1>1, <1>8 DEF Domains
  <2>2. DOMAIN fill' = Procs /\ \A q \in Procs : q # p => pc'[q] = pc[q] /\ fill'[q] = fill[q]
    BY <1>1, <1>2 DEF GoTo, Domains
  <2> QED
    BY <1>3, <2>1, <2>2 DEF Aside
<1>15. InFlight(p)'
  BY <1>3, <1>4, <1>7, <1>10, <1>12, <1>13 DEF InFlight
<1>16. \A q \in Procs : InFlight(q)'
  BY <1>3, <1>4, <1>14, <1>15, OthersInFlight DEF Quiet
<1>17. LedgerInv'
  <2>1. \A k \in Keys : ReportsOf(log, k) = {}
    BY <1>13 DEF LedgerInv
  <2> QED
    BY <1>1, <1>3, <1>9, <1>14, <1>16, <2>1 DEF LedgerInv, Aside
<1>18. \A k \in Keys : StandingOf(k)' = StandingOf(k)
  BY <1>3 DEF StandingOf
<1>19. StandingOf(TheKey) = "attempted"
  BY <1>4, <1>13 DEF StandingOf, Tried
<1>20. CASE o.order # NoOrder
  <2>1. Exposed' \in {Exposed, Exposed \cup {TheKey}}
    BY <1>11, <1>12
  <2> QED
    BY <1>1, <1>5, <1>10, <1>17, <1>18, <1>19, <1>20, <2>1 DEF Ledger!Place
<1>21. CASE o.order = NoOrder
  <2>1. Exposed' \in SUBSET Exposed
    BY <1>11, <1>12, <1>21
  <2> QED
    BY <1>10, <1>17, <1>18, <1>21, <2>1 DEF Ledger!Retire
<1> QED
  BY <1>20, <1>21

\* A report of the order: what the ledger says of it from then on.
LEMMA Reported ==
    ASSUME OperatorInv, LedgerInv, NEW p \in Procs, Aside(p), InFlight(p)', Owns(p),
           placed[TheKey] = 1, UNCHANGED <<book, placed>>,
           NEW life, NEW n, append(ReportEvent(TheKey, life, n))
    PROVE  /\ LedgerInv' /\ UNCHANGED Exposed
           /\ \A k \in Keys : k # TheKey => StandingOf(k)' = StandingOf(k)
           /\ StandingOf(TheKey)' = IF life \in NON_TERMINAL_LIFECYCLE THEN "open" ELSE "closed"
<1>1. IsList(log) /\ Tried
  BY DEF OperatorInv, Domains, Owned
<1>2. \A k : /\ SubmitsOf(log', k) = SubmitsOf(log, k)
             /\ k # TheKey => /\ ReportsOf(log', k) = ReportsOf(log, k)
                              /\ HasTerminalReport(log', k) <=> HasTerminalReport(log, k)
             /\ k = TheKey => /\ ReportsOf(log', k) # {}
                              /\ HasTerminalReport(log', k) <=> life \notin NON_TERMINAL_LIFECYCLE
  BY <1>1, ReportAnswers
<1>3. Reporting(p)
  BY DEF Reporting, append, ReportEvent
<1>4. \A q \in Procs : InFlight(q)'
  BY <1>3, OthersInFlight
<1>5. LedgerInv'
  BY <1>2, <1>4 DEF LedgerInv, Aside
<1>6. UNCHANGED Exposed
  BY DEF Exposed, OpenOrders
<1>7. \A k \in Keys : k # TheKey => StandingOf(k)' = StandingOf(k)
  BY <1>2 DEF StandingOf
<1>8. StandingOf(TheKey)' = IF life \in NON_TERMINAL_LIFECYCLE THEN "open" ELSE "closed"
  BY <1>1, <1>2 DEF StandingOf, Tried
<1> QED
  BY <1>5, <1>6, <1>7, <1>8

\* The broker's answer is recorded.
LEMMA LedgerAcknowledges ==
    ASSUME OperatorInv, LedgerInv, NEW p \in Procs, AppendReport(p),
           UNCHANGED <<commandVars, operatorVars>>
    PROVE  LedgerInv' /\ Ledger!Acknowledge(TheKey)
<1>1. /\ Domains /\ Owned /\ Stage(p) /\ InFlight(p) /\ DOMAIN fill = Procs /\ TheKey \in Keys
  BY TheKeyType DEF OperatorInv, LedgerInv
<1>2. /\ pc[p] = "Report" /\ NextItem(p, "submitted")
      /\ append(ReportEvent(KeyOf(intent[p]), fill[p].life, fill[p].filled))
      /\ UNCHANGED <<book, placed, snap, todo, target, command>>
  BY DEF AppendReport, commandVars, operatorVars
<1>3. KeyOf(intent[p]) = TheKey /\ command[p] # "cancelling" /\ Owns(p) /\ Tried
  BY <1>1, <1>2 DEF Stage, CyclePCs, CancelPCs, Asked, Owns, Owned
<1>4. /\ ReportsOf(log, TheKey) = {} /\ placed[TheKey] = 1
      /\ fill[p].life \notin NON_TERMINAL_LIFECYCLE => TheKey \notin Exposed
  BY <1>1, <1>2 DEF InFlight
<1>5. Aside(p) /\ pc'[p] \in {"Finish", "Request"}
  BY <1>1, <1>2 DEF NextItem, Aside, Domains
<1>6. InFlight(p)'
  BY <1>2, <1>3, <1>5 DEF InFlight
<1>7. /\ LedgerInv' /\ UNCHANGED Exposed
      /\ \A k \in Keys : k # TheKey => StandingOf(k)' = StandingOf(k)
      /\ StandingOf(TheKey)' = IF fill[p].life \in NON_TERMINAL_LIFECYCLE THEN "open" ELSE "closed"
  BY <1>2, <1>3, <1>4, <1>5, <1>6, Reported
<1>8. StandingOf(TheKey) = "attempted"
  BY <1>3, <1>4 DEF StandingOf, Tried
<1> QED
  BY <1>1, <1>2, <1>4, <1>7, <1>8 DEF Ledger!Acknowledge

\* The report of a cancel closes the record of the open order.
LEMMA LedgerCloses ==
    ASSUME OperatorInv, LedgerInv, NEW p \in Procs, command[p] = "cancelling", CancelReport(p),
           UNCHANGED operatorVars
    PROVE  LedgerInv' /\ Ledger!Close(TheKey)
<1>1. /\ Domains /\ Owned /\ Drilling(p) /\ InFlight(p) /\ DOMAIN fill = Procs /\ TheKey \in Keys
  BY TheKeyType DEF OperatorInv, LedgerInv
<1>2. /\ pc[p] = "CancelReport" /\ pc'[p] = "CancelNext"
      /\ append(ReportEvent(target[p].key, target[p].life, target[p].filled))
      /\ UNCHANGED <<book, placed, fill, snap, todo, command>>
  BY <1>1 DEF CancelReport, GoTo, cycleVars, operatorVars, Domains
<1>3. /\ target[p].key = TheKey /\ todo[p] = {} /\ OpenOnRecord /\ TheKey \notin Exposed
      /\ target[p].life = "CANCELLED" /\ snap[p] = {}
  BY <1>1, <1>2 DEF InFlight, Drilling
<1>4. Owns(p) /\ Tried
  BY <1>1 DEF Drilling, Owns, Owned
<1>5. placed[TheKey] = 1
  BY <1>1, <1>3 DEF LedgerInv, OpenOnRecord
<1>6. Aside(p)
  BY <1>1, <1>2 DEF CancelReport, GoTo, Aside, Domains
<1>7. InFlight(p)'
  BY <1>2, <1>3 DEF InFlight
<1>8. /\ LedgerInv' /\ UNCHANGED Exposed
      /\ \A k \in Keys : k # TheKey => StandingOf(k)' = StandingOf(k)
      /\ StandingOf(TheKey)' = "closed"
  BY <1>2, <1>3, <1>4, <1>5, <1>6, <1>7, Reported DEF NON_TERMINAL_LIFECYCLE
<1>9. StandingOf(TheKey) = "open"
  BY <1>3, <1>4 DEF StandingOf, Tried, OpenOnRecord
<1> QED
  BY <1>1, <1>2, <1>3, <1>8, <1>9 DEF Ledger!Close

\* An empty store is an empty ledger.
LEMMA LedgerStarts == ASSUME Init PROVE LedgerInv /\ Ledger!LedgerInit
<1>1. /\ log = <<>> /\ book = [b \in Brokers |-> [k \in Keys |-> NoOrder]]
      /\ placed = [k \in Keys |-> 0] /\ pc = [p \in Procs |-> "Idle"] /\ DOMAIN fill = Procs
      /\ command = [p \in Procs |-> "none"]
  BY DEF Init, CycleInit, ControlInit
<1>2. \A k : SubmitsOf(log, k) = {} /\ ReportsOf(log, k) = {}
  BY <1>1 DEF SubmitsOf, ReportsOf
<1>3. \A b \in Brokers, k \in Keys : book[b][k] = NoOrder
  BY <1>1
<1>4. \A p \in Procs : InFlight(p)
  BY <1>1 DEF InFlight
<1>5. LedgerInv
  BY <1>1, <1>2, <1>3, <1>4, TheKeyType DEF LedgerInv
<1>6. Exposed = {}
  BY <1>3 DEF Exposed, OpenOrders
<1>7. \A k \in Keys : StandingOf(k) = "none"
  BY <1>2 DEF StandingOf
<1> QED
  BY <1>1, <1>5, <1>6, <1>7 DEF Ledger!LedgerInit

\* A step that changes nothing here changes nothing there.
LEMMA LedgerRests == ASSUME LedgerInv, UNCHANGED vars PROVE LedgerInv' /\ UNCHANGED Ledger!ledgerVars
<1>1. UNCHANGED <<log, book, placed, pc, fill, snap, todo, target, command>>
  BY DEF vars, cycleVars, commandVars, operatorVars
<1>2. /\ \A k \in Keys : StandingOf(k)' = StandingOf(k) /\ ReportsOf(log', k) = ReportsOf(log, k)
      /\ UNCHANGED Exposed /\ (OpenOnRecord' <=> OpenOnRecord)
  BY <1>1 DEF StandingOf, Exposed, OpenOrders, OpenOnRecord
<1>3. \A p \in Procs : InFlight(p)'
  <2>1. \A p \in Procs : InFlight(p)
    BY DEF LedgerInv
  <2> QED
    BY <1>1, <1>2, <2>1 DEF InFlight
<1>4. LedgerInv'
  BY <1>1, <1>2, <1>3 DEF LedgerInv
<1>5. UNCHANGED [k \in Keys |-> StandingOf(k)]
  BY <1>2
<1> QED
  BY <1>1, <1>2, <1>4, <1>5 DEF Ledger!ledgerVars

\* Every step is one of the order ledger's.
LEMMA LedgerNexts ==
    ASSUME OperatorInv, LedgerInv, [Next]_vars
    PROVE  LedgerInv' /\ [Ledger!LedgerNext]_Ledger!ledgerVars
<1>1. TheKey \in Keys
  BY TheKeyType
<1>2. ASSUME NEW p \in Procs, Invoke(p) \/ Inspect(p) \/ Runs(p) \/ Types(p) \/ Crash(p)
      PROVE  LedgerInv' /\ Ledger!LedgerNext
  <2> USE DEF Ledger!LedgerNext
  <2>1. CASE \/ Invoke(p) \/ Inspect(p) \/ InspectDecision(p) \/ Display(p) \/ CycleReturns(p)
             \/ AnswerEmpty(p) \/ AnswerCode(p) \/ CancelReturns(p) \/ CancelFails(p)
    BY <2>1, CyclePasses
  <2>2. CASE CycleRuns(p)
    <3>1. UNCHANGED <<commandVars, operatorVars>> /\ command[p] \in {"submit", "cancel-drill"}
      BY <2>2 DEF CycleRuns
    <3>2. CASE \/ AuditRequest(p) \/ ValidateApproves(p) \/ MintTicket(p)
               \/ PersistDuplicate(p) \/ SubmitRefused(p) \/ AuditFailure(p)
      BY <3>1, <3>2, CyclePasses
    <3>3. CASE PersistAttempt(p)
      BY <1>1, <3>1, <3>3, LedgerAttempts
    <3>4. CASE SubmitToBroker(p)
      BY <1>1, <3>1, <3>4, LedgerPlaces
    <3>5. CASE AppendReport(p)
      BY <1>1, <3>1, <3>5, LedgerAcknowledges
    <3> QED
      BY <2>2, <3>2, <3>3, <3>4, <3>5 DEF CycleRuns
  <2>3. CASE AnswerWrong(p) \/ DrillFails(p) \/ DrillDeclined(p) \/ Return(p) \/ Crash(p)
    <3>1. Exit(p)
      BY <2>3 DEF AnswerWrong, DrillFails, DrillDeclined, Return, Crash
    <3> QED
      BY <3>1, ExitRetires
  <2>4. CASE DrillCancel(p)
    BY <2>4, DrillRetires
  <2>5. CASE CancelRuns(p)
    <3>1. command[p] = "cancelling" /\ UNCHANGED operatorVars
      BY <2>5 DEF CancelRuns
    <3>2. CASE CancelResolve(p) \/ CancelAtBroker(p) \/ CancelReportRaises(p) \/ AuditRaises(p)
      BY <3>1, <3>2, CancelRetires
    <3>3. CASE CancelReport(p)
      BY <1>1, <3>1, <3>3, LedgerCloses
    <3> QED
      BY <2>5, <3>2, <3>3 DEF CancelRuns
  <2> QED
    BY <1>2, <2>1, <2>2, <2>3, <2>4, <2>5 DEF Runs, Types
<1>3. CASE Rest \/ UNCHANGED vars
  BY <1>3, LedgerRests DEF Rest
<1> QED
  BY <1>2, <1>3 DEF Next

\* The local operator implements the order ledger (paper_cycle.py:311-358,
\* paper_operator.py:479-539,584-690): whatever the terminals, the human, the cancel drills
\* and the crashes do, an attempt is on record before an order is placed, an order is placed
\* once, and a record is closed only when no broker of an invocation can still execute it.
THEOREM OperatorRefinement == Spec => ImplementsLedger
<1>1. Init => LedgerInv /\ Ledger!LedgerInit
  BY LedgerStarts
<1>2. OperatorInv /\ LedgerInv /\ [Next]_vars => LedgerInv' /\ [Ledger!LedgerNext]_Ledger!ledgerVars
  BY LedgerNexts
<1> QED
  BY <1>1, <1>2, OperatorInductive, PTL DEF Spec, ImplementsLedger, Ledger!LedgerSpec
=============================================================================
