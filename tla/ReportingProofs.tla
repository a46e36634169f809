--------------------------- MODULE ReportingProofs ---------------------------
(***************************************************************************)
(* Machine-checked proofs about what is read back from the audit store,    *)
(* for every set of operators, windows and payloads and for every bound.   *)
(***************************************************************************)
EXTENDS Reporting, SequenceTheorems, FiniteSetTheorems, TLAPS

-----------------------------------------------------------------------------
(* Numbers and lists. *)

\* A set of seqs has a last one: the naturals are well-founded.
LEMMA LastExists ==
    ASSUME NEW n \in Nat, NEW S \in SUBSET (1..n), S # {}
    PROVE  \E i \in S : \A j \in S : j <= i
<1> DEFINE T == {n - i : i \in S}
<1>1. T \subseteq Nat /\ T # {}
  <2>1. \A i \in S : n - i \in Nat
    OBVIOUS
  <2>2. PICK i : i \in S
    OBVIOUS
  <2>3. n - i \in T
    BY <2>2
  <2> QED
    BY <2>1, <2>3
<1>2. PICK x \in T : \A y \in T : ~(<<y, x>> \in OpToRel(<, Nat))
  BY <1>1, NatLessThanWellFounded, WFMin
<1>3. \A y \in T : ~(y < x)
  BY <1>1, <1>2 DEF OpToRel
<1>4. PICK i \in S : x = n - i
  OBVIOUS
<1>5. \A j \in S : ~(n - j < n - i)
  BY <1>3, <1>4
<1> QED
  BY <1>4, <1>5

\* The rows of a list, and what makes a value a list of rows.
Rows(l) == {l[i] : i \in DOMAIN l}

IsLog(l) == l \in Seq(Rows(l))

\* The shape of a list.
LEMMA LogShape ==
    ASSUME NEW l, IsLog(l) PROVE Len(l) \in Nat /\ DOMAIN l = 1..Len(l) /\ Seqs(l) = 1..Len(l)
BY LenProperties DEF IsLog, Seqs

\* One more row, the others as they were.
LEMMA LogAppend ==
    ASSUME NEW l, IsLog(l), NEW row
    PROVE  /\ IsLog(Append(l, row)) /\ Len(l) \in Nat /\ Len(Append(l, row)) = Len(l) + 1
           /\ DOMAIN l = 1..Len(l) /\ DOMAIN Append(l, row) = 1..(Len(l) + 1)
           /\ \A i \in 1..Len(l) : Append(l, row)[i] = l[i]
           /\ Append(l, row)[Len(l) + 1] = row
<1> DEFINE m == Append(l, row)
           S == Rows(l) \cup {row}
<1>1. l \in Seq(S)
  BY SeqMonotonic DEF IsLog
<1>2. row \in S
  OBVIOUS
<1> HIDE DEF S
<1>3. /\ Len(l) \in Nat /\ DOMAIN l = 1..Len(l)
  BY <1>1, LenProperties
<1>4. /\ m \in Seq(S) /\ Len(m) = Len(l) + 1
      /\ \A i \in 1..Len(l) : m[i] = l[i]
      /\ m[Len(l) + 1] = row
  BY <1>1, <1>2, AppendProperties
<1> HIDE DEF m
<1>5. DOMAIN m = 1..(Len(l) + 1)
  BY <1>4, LenProperties
<1>6. S = Rows(m)
  BY <1>3, <1>4, <1>5 DEF S, Rows
<1> QED
  BY <1>3, <1>4, <1>5, <1>6 DEF IsLog, m

\* A prefix of the store is the same after an append.
LEMMA PrefixKept ==
    ASSUME NEW l, IsLog(l), NEW row, NEW n \in 0..Len(l)
    PROVE  SubSeq(Append(l, row), 1, n) = SubSeq(l, 1, n)
<1> DEFINE m == Append(l, row)
<1>1. /\ Len(l) \in Nat /\ DOMAIN l = 1..Len(l) /\ \A i \in 1..Len(l) : m[i] = l[i]
  BY LogAppend
<1> HIDE DEF m
<1>2. /\ \A i \in 1..n : l[i] \in Rows(l) /\ m[i] = l[i]
      /\ n \in Nat
  BY <1>1 DEF Rows
<1>3. /\ SubSeq(l, 1, n) \in Seq(Rows(l)) /\ Len(SubSeq(l, 1, n)) = n
      /\ \A i \in 1..n : SubSeq(l, 1, n)[i] = l[i]
  BY <1>2, SubSeqProperties
<1>4. /\ SubSeq(m, 1, n) \in Seq(Rows(l)) /\ Len(SubSeq(m, 1, n)) = n
      /\ \A i \in 1..n : SubSeq(m, 1, n)[i] = m[i]
  BY <1>2, SubSeqProperties
<1> QED
  BY <1>2, <1>3, <1>4, SeqEqual DEF m

\* The prefix of a list, row by row, and the whole list as a prefix of itself.
LEMMA PrefixShape ==
    ASSUME NEW l, IsLog(l), NEW n \in 0..Len(l)
    PROVE  /\ Seqs(SubSeq(l, 1, n)) = 1..n /\ Len(SubSeq(l, 1, n)) = n
           /\ \A i \in 1..n : SubSeq(l, 1, n)[i] = l[i]
           /\ n = Len(l) => SubSeq(l, 1, n) = l
<1>1. /\ Len(l) \in Nat /\ l \in Seq(Rows(l)) /\ DOMAIN l = 1..Len(l)
  BY LogShape DEF IsLog
<1>2. /\ n \in Nat /\ \A i \in 1..n : l[i] \in Rows(l)
  BY <1>1 DEF Rows
<1>3. /\ SubSeq(l, 1, n) \in Seq(Rows(l)) /\ Len(SubSeq(l, 1, n)) = n
      /\ \A i \in 1..n : SubSeq(l, 1, n)[i] = l[i]
  BY <1>2, SubSeqProperties
<1>4. n = Len(l) => SubSeq(l, 1, n) = l
  BY <1>1, <1>3, SeqEqual
<1> QED
  BY <1>3, <1>4 DEF Seqs

-----------------------------------------------------------------------------
(* The types. *)

Jobs ==
    [command : AllCommands \cup {"none"}, authorized : BOOLEAN, now : Nat,
     id : (AllCommands \cup {"none"}) \X Nat \X Nat]

Views ==
    [next : {"latest", "total", "types", "switch", "done"}, last : Nat, total : Nat,
     types : [RecordType -> Nat], switch : Nat, served : Nat]

\* The shapes TypeInvariant leaves to the actions, next to TypeInvariant itself.
Typed ==
    /\ setting \in Settings /\ now \in Nat
    /\ IsLog(log) /\ job \in [Procs -> Jobs] /\ view \in Views
    /\ report # <<>> => report[1].generated_at \in 0..now
    /\ TypeInvariant

\* A row anyone may append now; a daily report is the one that was built.
Appendable(row) ==
    /\ row.type \in RecordType /\ row.created_at \in 0..now
    /\ row.type = "DAILY_REPORT" => report # <<>> /\ row.report = report

\* What a step does to the store: nothing, or one more row with a clock reading that is past.
LEMMA LogStep ==
    ASSUME Typed, [Next]_vars
    PROVE  /\ UNCHANGED setting
           /\ UNCHANGED log \/ \E row : log' = Append(log, row) /\ Appendable(row) /\ UNCHANGED now
<1>1. CASE \E p \in Procs : Audit(p) \/ Switch(p)
  <2>1. PICK p \in Procs : Audit(p) \/ Switch(p)
    BY <1>1
  <2>2. job[p].now \in 0..now
    BY DEF Typed, TypeInvariant
  <2>3. \A value, id : Appendable(Row("AUDIT_ARTIFACT", job[p].now, value, id, <<>>))
                       /\ Appendable(Row("KILL_SWITCH_STATE", job[p].now, value, id, <<>>))
    BY <2>2 DEF Appendable, Row, RecordType
  <2> QED
    BY <2>1, <2>3 DEF Audit, Switch, append
<1>2. CASE \E r \in setting.payloads, at \in 0..setting.maxTime : Record(r, at)
  <2>1. PICK r \in setting.payloads, at \in 0..setting.maxTime : Record(r, at)
    BY <1>2
  <2>2. r[1] \in RecordType /\ r[1] # "DAILY_REPORT" /\ at \in 0..now
    BY <2>1, SettingsAssumption DEF Typed, Record
  <2>3. Appendable(Row(r[1], at, r[2], NoId, <<>>))
    BY <2>2 DEF Appendable, Row
  <2> QED
    BY <2>1, <2>3 DEF Record, append
<1>3. CASE persist_report
  <2>1. Appendable(Row("DAILY_REPORT", report[1].generated_at, "none", NoId, report))
    BY <1>3 DEF Appendable, Row, RecordType, Typed, persist_report
  <2> QED
    BY <1>3, <2>1 DEF persist_report, append
<1>4. CASE \E p \in Procs : NewId(p) \/ Crash(p)
  BY <1>4 DEF NewId, Crash
<1>5. CASE \E p \in setting.procs, j \in setting.jobs : Begin(p, j[1], j[2])
  BY <1>5 DEF Begin
<1>6. CASE \E w \in setting.windows : Build(w)
  BY <1>6 DEF Build
<1>7. CASE Tick \/ build_status_view \/ Respond
  BY <1>7 DEF Tick, build_status_view, Respond
<1>8. CASE UNCHANGED vars
  BY <1>8 DEF vars
<1> QED
  BY <1>1, <1>2, <1>3, <1>4, <1>5, <1>6, <1>7, <1>8 DEF Next

\* What holds of every row, and of a seq or a count, outlives any step.
LEMMA StoreGrows ==
    ASSUME Typed, [Next]_vars
    PROVE  /\ IsLog(log') /\ Len(log) \in Nat /\ Len(log') \in Nat /\ Len(log) <= Len(log')
           /\ Len(log') <= Len(log) + 1
           /\ \A i \in 1..Len(log) : log'[i] = log[i]
           /\ \A n \in 0..Len(log) : SubSeq(log', 1, n) = SubSeq(log, 1, n)
           /\ \A i \in Seqs(log') : log'[i].type \in RecordType /\ log'[i].created_at \in 0..now
<1>1. IsLog(log) /\ Len(log) \in Nat /\ Seqs(log) = 1..Len(log)
  BY LogShape DEF Typed
<1>2. \A i \in 1..Len(log) : log[i].type \in RecordType /\ log[i].created_at \in 0..now
  BY <1>1 DEF Typed, TypeInvariant
<1>3. CASE log' = log
  BY <1>1, <1>2, <1>3
<1>4. CASE \E row : log' = Append(log, row) /\ Appendable(row)
  <2>1. PICK row : log' = Append(log, row) /\ Appendable(row)
    BY <1>4
  <2>2. /\ IsLog(log') /\ Len(log') = Len(log) + 1
        /\ \A i \in 1..Len(log) : log'[i] = log[i]
        /\ log'[Len(log) + 1] = row
    <3>1. log' = Append(log, row)
      BY <2>1
    <3>2. IsLog(log)
      BY <1>1
    <3> QED
      BY <3>1, <3>2, LogAppend
  <2>3. \A n \in 0..Len(log) : SubSeq(log', 1, n) = SubSeq(log, 1, n)
    BY <1>1, <2>1, PrefixKept
  <2>4. \A i \in Seqs(log') : log'[i].type \in RecordType /\ log'[i].created_at \in 0..now
    <3> SUFFICES ASSUME NEW i \in Seqs(log')
                 PROVE  log'[i].type \in RecordType /\ log'[i].created_at \in 0..now
      OBVIOUS
    <3>1. i \in 1..Len(log) \/ i = Len(log) + 1
      BY <1>1, <2>2 DEF Seqs
    <3>2. CASE i = Len(log) + 1
      BY <2>1, <2>2, <3>2 DEF Appendable
    <3>3. CASE i \in 1..Len(log)
      BY <1>2, <2>2, <3>3
    <3> QED
      BY <3>1, <3>2, <3>3
  <2> QED
    BY <1>1, <2>2, <2>3, <2>4
<1> QED
  BY <1>3, <1>4, LogStep

\* latest_payload_of_type is the last row of its type, 0 when there is none.
LEMMA LatestPayload ==
    ASSUME NEW l, Seqs(l) = 1..Len(l), Len(l) \in Nat, NEW type
    PROVE  /\ latest_payload_of_type(l, type) \in 0..Len(l)
           /\ of_type(l, Seqs(l), type) # {} =>
                 latest_payload_of_type(l, type) \in of_type(l, Seqs(l), type)
           /\ \A j \in of_type(l, Seqs(l), type) : j <= latest_payload_of_type(l, type)
<1> DEFINE S == of_type(l, Seqs(l), type)
<1>1. S \in SUBSET (1..Len(l))
  BY DEF of_type
<1>2. latest_payload_of_type(l, type) =
          IF S = {} THEN 0 ELSE CHOOSE i \in S : \A j \in S : j <= i
  BY DEF latest_payload_of_type
<1> HIDE DEF S
<1>3. S # {} => \E i \in S : \A j \in S : j <= i
  BY <1>1, LastExists
<1>4. S # {} => /\ latest_payload_of_type(l, type) \in S
                /\ \A j \in S : j <= latest_payload_of_type(l, type)
  BY <1>2, <1>3
<1>5. latest_payload_of_type(l, type) \in 0..Len(l)
  <2>1. S = {} => latest_payload_of_type(l, type) = 0
    BY <1>2
  <2>2. S # {} => latest_payload_of_type(l, type) \in 1..Len(l)
    BY <1>1, <1>4
  <2> QED
    BY <2>1, <2>2
<1>6. \A j \in S : j <= latest_payload_of_type(l, type)
  BY <1>4
<1> QED
  BY <1>4, <1>5, <1>6 DEF S

\* Counts of rows are numbers.
LEMMA CountType ==
    ASSUME NEW l, NEW n \in Nat, NEW type
    PROVE  /\ IsFiniteSet(of_type(l, 1..n, type))
           /\ Cardinality(of_type(l, 1..n, type)) \in Nat
<1>1. IsFiniteSet(1..n)
  BY FS_Interval
<1>2. of_type(l, 1..n, type) \subseteq 1..n
  BY DEF of_type
<1>3. IsFiniteSet(of_type(l, 1..n, type))
  BY <1>1, <1>2, FS_Subset
<1> QED
  BY <1>3, FS_CardinalityType

\* The commands: what each process and its job may become.
LEMMA JobsTyped ==
    ASSUME Typed, [Next]_vars
    PROVE  /\ pc' \in [Procs -> {"Idle", "NewId", "Audit", "Switch"}]
           /\ job' \in [Procs -> Jobs]
           /\ \A p \in Procs : job'[p].now \in 0..now /\ job'[p].id[2] \in 0..Len(log)
<1>1. /\ pc \in [Procs -> {"Idle", "NewId", "Audit", "Switch"}] /\ job \in [Procs -> Jobs]
      /\ \A p \in Procs : job[p].now \in 0..now /\ job[p].id[2] \in 0..Len(log)
      /\ now \in Nat /\ Len(log) \in Nat
  BY LogShape DEF Typed, TypeInvariant
<1>2. NoJob \in Jobs /\ NoJob.now = 0 /\ NoJob.id[2] = 0
  BY DEF NoJob, NoId, Jobs
<1>3. ASSUME NEW q \in setting.procs, NEW j \in setting.jobs, Begin(q, j[1], j[2])
      PROVE  /\ pc' \in [Procs -> {"Idle", "NewId", "Audit", "Switch"}]
             /\ job' \in [Procs -> Jobs]
             /\ \A p \in Procs : job'[p].now \in 0..now /\ job'[p].id[2] \in 0..Len(log)
  <2> DEFINE new == [command |-> j[1], authorized |-> j[2], now |-> now, id |-> NoId]
  <2>1. j[1] \in AllCommands /\ j[2] \in BOOLEAN /\ q \in Procs
    BY SettingsAssumption DEF Typed
  <2>2. new \in Jobs /\ new.now = now /\ new.id[2] = 0
    BY <1>1, <2>1 DEF Jobs, NoId
  <2>3. job' = [job EXCEPT ![q] = new] /\ pc' = [pc EXCEPT ![q] = "NewId"]
    BY <1>3 DEF Begin
  <2> HIDE DEF new
  <2> QED
    BY <1>1, <2>1, <2>2, <2>3
<1>4. ASSUME NEW q \in Procs, NewId(q)
      PROVE  /\ pc' \in [Procs -> {"Idle", "NewId", "Audit", "Switch"}]
             /\ job' \in [Procs -> Jobs]
             /\ \A p \in Procs : job'[p].now \in 0..now /\ job'[p].id[2] \in 0..Len(log)
  <2> DEFINE id == new_artifact_id(job[q].command, Len(log), job[q].now)
             new == [job[q] EXCEPT !.id = id]
  <2>1. job[q] \in Jobs
    BY <1>1
  <2>2. id \in (AllCommands \cup {"none"}) \X Nat \X Nat /\ id[2] = Len(log)
    BY <1>1, <2>1 DEF new_artifact_id, Jobs
  <2>3. job' = [job EXCEPT ![q] = new] /\ pc' = [pc EXCEPT ![q] = "Audit"]
    BY <1>4 DEF NewId
  <2> HIDE DEF id
  <2>4. new \in Jobs /\ new.now = job[q].now /\ new.id = id
    BY <2>1, <2>2 DEF Jobs
  <2> HIDE DEF new
  <2> QED
    BY <1>1, <2>2, <2>3, <2>4
<1>5. ASSUME NEW q \in Procs, Return(q)
      PROVE  /\ pc' \in [Procs -> {"Idle", "NewId", "Audit", "Switch"}]
             /\ job' \in [Procs -> Jobs]
             /\ \A p \in Procs : job'[p].now \in 0..now /\ job'[p].id[2] \in 0..Len(log)
  <2> HIDE DEF NoJob, Jobs
  <2> QED
    BY <1>1, <1>2, <1>5 DEF Return
<1>6. ASSUME NEW q \in Procs, pc' = [pc EXCEPT ![q] = "Switch"], UNCHANGED job
      PROVE  /\ pc' \in [Procs -> {"Idle", "NewId", "Audit", "Switch"}]
             /\ job' \in [Procs -> Jobs]
             /\ \A p \in Procs : job'[p].now \in 0..now /\ job'[p].id[2] \in 0..Len(log)
  BY <1>1, <1>6
<1>7. ASSUME UNCHANGED <<pc, job>>
      PROVE  /\ pc' \in [Procs -> {"Idle", "NewId", "Audit", "Switch"}]
             /\ job' \in [Procs -> Jobs]
             /\ \A p \in Procs : job'[p].now \in 0..now /\ job'[p].id[2] \in 0..Len(log)
  BY <1>1, <1>7
<1>8. \/ \E q \in setting.procs, j \in setting.jobs : Begin(q, j[1], j[2])
      \/ \E q \in Procs : NewId(q)
      \/ \E q \in Procs : Return(q)
      \/ \E q \in Procs : pc' = [pc EXCEPT ![q] = "Switch"] /\ UNCHANGED job
      \/ UNCHANGED <<pc, job>>
  BY DEF Next, Audit, Switch, Crash, Record, Tick, Build, persist_report, build_status_view,
         Respond, vars
<1> QED
  BY <1>3, <1>4, <1>5, <1>6, <1>7, <1>8

\* One read of the relay's four, and what it leaves alone.
LEMMA OneRead ==
    ASSUME Typed, build_status_view
    PROVE  /\ view' \in Views
           /\ \/ /\ view.next = "latest" /\ view'.next = "total" /\ view'.last = Len(log)
                 /\ view'.total = view.total /\ view'.switch = view.switch
              \/ /\ view.next = "total" /\ view'.next = "types" /\ view'.total = Len(log)
                 /\ view'.last = view.last /\ view'.switch = view.switch
              \/ /\ view.next = "types" /\ view'.next = "switch"
                 /\ view'.last = view.last /\ view'.total = view.total
                 /\ view'.switch = view.switch
                 /\ \A t \in RecordType :
                       view'.types[t] = Cardinality(of_type(log, Seqs(log), t))
              \/ /\ view.next = "switch" /\ view'.next = "done"
                 /\ view'.switch = latest_payload_of_type(log, "KILL_SWITCH_STATE")
                 /\ view'.last = view.last /\ view'.total = view.total
                 /\ view'.types = view.types
<1> DEFINE counts == [t \in RecordType |-> Cardinality(of_type(log, Seqs(log), t))]
           n == Len(log)
           k == latest_payload_of_type(log, "KILL_SWITCH_STATE")
<1>1. /\ n \in Nat /\ Seqs(log) = 1..n /\ view \in Views
      /\ view.next \in {"latest", "total", "types", "switch"}
  BY LogShape DEF Typed, build_status_view, Views
<1>2. counts \in [RecordType -> Nat]
  BY <1>1, CountType
<1>3. k \in Nat
  BY <1>1, LatestPayload
<1>4. /\ view.next = "latest" =>
             view' = [[view EXCEPT !.last = n] EXCEPT !.next = "total"]
      /\ view.next = "total" =>
             view' = [[view EXCEPT !.total = n] EXCEPT !.next = "types"]
      /\ view.next = "types" =>
             view' = [[view EXCEPT !.types = counts] EXCEPT !.next = "switch"]
      /\ view.next = "switch" =>
             view' = [[view EXCEPT !.switch = k] EXCEPT !.next = "done"]
  BY <1>1 DEF build_status_view, NextRead
<1>5. \A t \in RecordType : counts[t] = Cardinality(of_type(log, Seqs(log), t))
  OBVIOUS
<1> HIDE DEF counts, n, k
<1>6. CASE view.next = "latest"
  BY <1>1, <1>4, <1>6 DEF Views, n
<1>7. CASE view.next = "total"
  BY <1>1, <1>4, <1>7 DEF Views, n
<1>8. CASE view.next = "types"
  <2>1. view' = [[view EXCEPT !.types = counts] EXCEPT !.next = "switch"]
    BY <1>4, <1>8
  <2>2. /\ view' \in Views /\ view'.next = "switch" /\ view'.types = counts
        /\ view'.last = view.last /\ view'.total = view.total /\ view'.switch = view.switch
    BY <1>1, <1>2, <2>1 DEF Views
  <2> QED
    BY <1>5, <1>8, <2>2
<1>9. CASE view.next = "switch"
  BY <1>1, <1>3, <1>4, <1>9 DEF Views, k
<1> QED
  BY <1>1, <1>6, <1>7, <1>8, <1>9

\* What the relay holds stays a seq or a count of the store.
LEMMA ViewTyped ==
    ASSUME Typed, [Next]_vars
    PROVE  /\ view' \in Views
           /\ view'.last \in 0..Len(log) /\ view'.total \in 0..Len(log)
           /\ view'.switch \in 0..Len(log)
<1>1. /\ Len(log) \in Nat /\ Seqs(log) = 1..Len(log) /\ view \in Views
      /\ view.last \in 0..Len(log) /\ view.total \in 0..Len(log) /\ view.switch \in 0..Len(log)
  BY LogShape DEF Typed, TypeInvariant
<1>2. CASE build_status_view
  <2>1. latest_payload_of_type(log, "KILL_SWITCH_STATE") \in 0..Len(log)
    BY <1>1, LatestPayload
  <2>2. /\ view' \in Views /\ view'.last \in {view.last, Len(log)}
        /\ view'.total \in {view.total, Len(log)}
        /\ view'.switch \in {view.switch, latest_payload_of_type(log, "KILL_SWITCH_STATE")}
    BY <1>2, OneRead
  <2> QED
    BY <1>1, <2>1, <2>2
<1>3. CASE Respond
  <2>1. view' = [NoView EXCEPT !.served = view.served + 1] /\ view.served \in Nat
    BY <1>1, <1>3 DEF Respond, Views
  <2>2. NoView \in Views /\ NoView.last = 0 /\ NoView.total = 0 /\ NoView.switch = 0
    BY DEF NoView, Views
  <2>3. /\ view' \in Views /\ view'.last = 0 /\ view'.total = 0 /\ view'.switch = 0
    BY <2>1, <2>2 DEF Views
  <2> QED
    BY <1>1, <2>3
<1>4. CASE UNCHANGED view
  BY <1>1, <1>4
<1>5. build_status_view \/ Respond \/ UNCHANGED view
  BY DEF Next, Begin, NewId, Audit, Switch, Crash, Record, Tick, Build, persist_report, vars
<1> QED
  BY <1>2, <1>3, <1>4, <1>5

\* Every step keeps the types.
LEMMA TypedStep == ASSUME Typed, [Next]_vars PROVE Typed'
<1>1. /\ IsLog(log') /\ Len(log) \in Nat /\ Len(log') \in Nat /\ Len(log) <= Len(log')
      /\ \A i \in Seqs(log') : log'[i].type \in RecordType /\ log'[i].created_at \in 0..now
  BY StoreGrows
<1>2. UNCHANGED setting
  BY LogStep
<1>3. now' \in 0..setting.maxTime /\ now \in Nat /\ now' \in Nat /\ now <= now'
  <2>1. setting.maxTime \in Nat /\ now \in 0..setting.maxTime
    BY SettingsAssumption DEF Typed, TypeInvariant
  <2>2. UNCHANGED now \/ (now < setting.maxTime /\ now' = now + 1)
    BY DEF Next, Begin, NewId, Audit, Switch, Crash, Record, Tick, Build, persist_report,
           build_status_view, Respond, vars
  <2> QED
    BY <2>1, <2>2
<1>4. /\ pc' \in [Procs -> {"Idle", "NewId", "Audit", "Switch"}] /\ job' \in [Procs -> Jobs]
      /\ \A p \in Procs : job'[p].now \in 0..now' /\ job'[p].id[2] \in 0..Len(log')
  <2>1. /\ pc' \in [Procs -> {"Idle", "NewId", "Audit", "Switch"}] /\ job' \in [Procs -> Jobs]
        /\ \A p \in Procs : job'[p].now \in 0..now /\ job'[p].id[2] \in 0..Len(log)
    BY JobsTyped
  <2> QED
    BY <1>1, <1>3, <2>1
<1>5. /\ view' \in Views
      /\ view'.last \in 0..Len(log') /\ view'.total \in 0..Len(log')
      /\ view'.switch \in 0..Len(log')
  BY <1>1, ViewTyped
<1>6. report' # <<>> => report'[1].generated_at \in 0..now'
  <2>1. CASE \E w \in setting.windows : Build(w)
    <3>1. report'[1].generated_at = now
      BY <2>1 DEF Build, build_daily_report
    <3> QED
      BY <1>3, <3>1
  <2>2. CASE report' = report \/ report' = <<>>
    BY <1>3, <2>2 DEF Typed
  <2>3. \/ \E w \in setting.windows : Build(w)
        \/ report' = report \/ report' = <<>>
    BY DEF Next, Begin, NewId, Audit, Switch, Crash, Record, Tick, persist_report,
           build_status_view, Respond, vars
  <2> QED
    BY <2>1, <2>2, <2>3
<1>7. \A i \in Seqs(log') : log'[i].type \in RecordType /\ log'[i].created_at \in 0..now'
  BY <1>1, <1>3
<1> QED
  BY <1>1, <1>2, <1>3, <1>4, <1>5, <1>6, <1>7 DEF Typed, TypeInvariant, Seqs

\* Every part of the state has its type, for any number of operators, rows and requests.
THEOREM TypesHold == Spec => [](Typed /\ TypeInvariant)
<1>1. Init => Typed
  <2> SUFFICES ASSUME Init PROVE Typed
    OBVIOUS
  <2>1. NoView \in Views /\ NoView.last = 0 /\ NoView.total = 0 /\ NoView.switch = 0
    BY DEF NoView, Views
  <2>2. NoJob \in Jobs /\ NoJob.now = 0 /\ NoJob.id[2] = 0
    BY DEF NoJob, NoId, Jobs
  <2>3. IsLog(log) /\ Len(log) = 0 /\ Seqs(log) = {}
    BY DEF Init, IsLog, Rows, Seqs
  <2>4. setting \in Settings /\ setting.maxTime \in Nat
    BY SettingsAssumption DEF Init
  <2>5. /\ pc \in [Procs -> {"Idle", "NewId", "Audit", "Switch"}]
        /\ job \in [Procs -> Jobs] /\ \A p \in Procs : job[p] = NoJob
    BY <2>2 DEF Init
  <2> HIDE DEF NoJob, NoView
  <2> QED
    BY <2>1, <2>2, <2>3, <2>4, <2>5 DEF Init, Typed, TypeInvariant
<1>2. Typed /\ [Next]_vars => Typed'
  BY TypedStep
<1>3. Typed => TypeInvariant
  BY DEF Typed
<1> QED
  BY <1>1, <1>2, <1>3, PTL DEF Spec

-----------------------------------------------------------------------------
(* Reports. *)

\* A report is what build_daily_report gives for the first total_audit_events rows.
Reproduced(l, r, n) ==
    /\ r.total_audit_events \in 0..n
    /\ r = build_daily_report(SubSeq(l, 1, r.total_audit_events), r.window, r.generated_at)

\* So is a report that waits to be persisted, not only one that was.
ReportSound ==
    /\ report # <<>> => Reproduced(log, report[1], Len(log))
    /\ \A i \in of_type(log, Seqs(log), "DAILY_REPORT") : Reproduced(log, log[i].report[1], i - 1)

\* A report that was built from the store as it is reproduces itself.
LEMMA BuiltReproduced ==
    ASSUME NEW l, IsLog(l), NEW w, NEW at
    PROVE  Reproduced(l, build_daily_report(l, w, at), Len(l))
<1> DEFINE r == build_daily_report(l, w, at)
<1>1. /\ r.total_audit_events = Len(l) /\ r.window = w /\ r.generated_at = at
  BY DEF build_daily_report, total_audit_events
<1>2. Len(l) \in Nat /\ SubSeq(l, 1, Len(l)) = l
  BY LogShape, PrefixShape
<1> HIDE DEF r
<1>3. r = build_daily_report(SubSeq(l, 1, r.total_audit_events), r.window, r.generated_at)
  BY <1>1, <1>2 DEF r
<1> QED
  BY <1>1, <1>2, <1>3 DEF Reproduced, r

\* Every step keeps the reports reproducible: an append never changes a prefix.
LEMMA ReportStep == ASSUME Typed, ReportSound, [Next]_vars PROVE ReportSound'
<1>1. /\ IsLog(log) /\ Seqs(log) = 1..Len(log) /\ Seqs(log') = 1..Len(log')
      /\ Len(log) \in Nat /\ Len(log') \in Nat /\ Len(log) <= Len(log')
      /\ \A i \in 1..Len(log) : log'[i] = log[i]
      /\ \A n \in 0..Len(log) : SubSeq(log', 1, n) = SubSeq(log, 1, n)
  BY StoreGrows DEF Typed, Seqs
<1>2. \A r : \A n \in 0..Len(log) : Reproduced(log, r, n) => Reproduced(log', r, n)
  <2> SUFFICES ASSUME NEW r, NEW n \in 0..Len(log), Reproduced(log, r, n)
               PROVE  Reproduced(log', r, n)
    OBVIOUS
  <2>1. r.total_audit_events \in 0..n /\ r.total_audit_events \in 0..Len(log)
    BY <1>1 DEF Reproduced
  <2>2. SubSeq(log', 1, r.total_audit_events) = SubSeq(log, 1, r.total_audit_events)
    BY <1>1, <2>1
  <2> QED
    BY <2>1, <2>2 DEF Reproduced
<1>3. ASSUME NEW i \in of_type(log', Seqs(log'), "DAILY_REPORT")
      PROVE  Reproduced(log', log'[i].report[1], i - 1)
  <2>1. CASE i \in 1..Len(log)
    <3>1. i \in of_type(log, Seqs(log), "DAILY_REPORT") /\ log'[i] = log[i]
      BY <1>1, <1>3, <2>1 DEF of_type
    <3>2. Reproduced(log, log[i].report[1], i - 1) /\ i - 1 \in 0..Len(log)
      BY <1>1, <2>1, <3>1 DEF ReportSound
    <3> QED
      BY <1>2, <3>1, <3>2
  <2>2. CASE i \notin 1..Len(log)
    <3>1. PICK row : log' = Append(log, row) /\ Appendable(row)
      BY <1>1, <1>3, <2>2, LogStep DEF of_type
    <3>2. Len(log') = Len(log) + 1 /\ log'[Len(log) + 1] = row
      BY <1>1, <3>1, LogAppend
    <3>3. i = Len(log) + 1 /\ log'[i].type = "DAILY_REPORT"
      BY <1>1, <1>3, <2>2, <3>2 DEF of_type
    <3>4. report # <<>> /\ log'[i].report = report
      BY <3>1, <3>2, <3>3 DEF Appendable
    <3>5. Reproduced(log', report[1], Len(log))
      BY <1>1, <1>2, <3>4 DEF ReportSound
    <3> QED
      BY <1>1, <3>3, <3>4, <3>5
  <2> QED
    BY <2>1, <2>2
<1>4. report' # <<>> => Reproduced(log', report'[1], Len(log'))
  <2>1. CASE \E w \in setting.windows : Build(w)
    <3>1. PICK w : report' = <<build_daily_report(log, w, now)>> /\ log' = log
      BY <2>1 DEF Build
    <3>2. Reproduced(log, report'[1], Len(log))
      BY <1>1, <3>1, BuiltReproduced
    <3> QED
      BY <3>1, <3>2
  <2>2. CASE report' = report
    <3>1. report # <<>> => Reproduced(log', report[1], Len(log))
      BY <1>1, <1>2 DEF ReportSound
    <3> QED
      BY <1>1, <2>2, <3>1 DEF Reproduced
  <2>3. \/ \E w \in setting.windows : Build(w)
        \/ report' = report \/ report' = <<>>
    BY DEF Next, Begin, NewId, Audit, Switch, Crash, Record, Tick, persist_report,
           build_status_view, Respond, vars
  <2> QED
    BY <2>1, <2>2, <2>3
<1> QED
  BY <1>3, <1>4 DEF ReportSound

\* A persisted report can be checked against the archive, whatever came between its load
\* and its append and after it.
THEOREM ReportReproducibleHolds == Spec => []ReportReproducible
<1>1. Init => ReportSound
  BY DEF Init, ReportSound, of_type, Seqs
<1>2. Typed /\ ReportSound /\ [Next]_vars => ReportSound'
  BY ReportStep
<1>3. Typed /\ ReportSound => ReportReproducible
  <2> SUFFICES ASSUME Typed, ReportSound, NEW i \in of_type(log, Seqs(log), "DAILY_REPORT")
               PROVE  /\ log[i].report[1].total_audit_events < i
                      /\ log[i].report[1] =
                            build_daily_report(SubSeq(log, 1, log[i].report[1].total_audit_events),
                                               log[i].report[1].window,
                                               log[i].report[1].generated_at)
    BY DEF ReportReproducible
  <2>1. Reproduced(log, log[i].report[1], i - 1) /\ i \in Nat
    BY LogShape DEF ReportSound, Typed, of_type
  <2> QED
    BY <2>1 DEF Reproduced
<1> QED
  BY <1>1, <1>2, <1>3, TypesHold, PTL DEF Spec

-----------------------------------------------------------------------------
(* The relay. *)

\* What the reads so far have in common, although the store grew between them.
ViewSound ==
    /\ view.next \in {"types", "switch", "done"} => view.last <= view.total
    /\ view.next \in {"switch", "done"} =>
          /\ \A t \in RecordType : Cardinality(of_type(log, 1..view.total, t)) <= view.types[t]
          /\ view.types["KILL_SWITCH_STATE"] > 0 =>
                of_type(log, Seqs(log), "KILL_SWITCH_STATE") # {}
    /\ view.next = "done" =>
          /\ view.types["KILL_SWITCH_STATE"] > 0 => view.switch > 0
          /\ \A i \in of_type(log, 1..view.total, "KILL_SWITCH_STATE") : i <= view.switch

\* A read is of the store as it is, which only grew since the reads before it.
LEMMA ReadKeepsView == ASSUME Typed, ViewSound, build_status_view PROVE ViewSound'
<1> DEFINE KS == "KILL_SWITCH_STATE"
<1>1. /\ Len(log) \in Nat /\ Seqs(log) = 1..Len(log) /\ log' = log
      /\ view.last \in 0..Len(log) /\ view.total \in 0..Len(log) /\ view \in Views
  BY LogShape DEF Typed, TypeInvariant, build_status_view
<1>2. KS \in RecordType
  BY DEF RecordType
<1>3. CASE view.next = "latest"
  BY <1>3, OneRead DEF ViewSound
<1>4. CASE view.next = "total"
  BY <1>1, <1>4, OneRead DEF ViewSound
<1>5. CASE view.next = "types"
  <2>1. /\ view'.next = "switch" /\ view'.last = view.last /\ view'.total = view.total
        /\ \A t \in RecordType : view'.types[t] = Cardinality(of_type(log, 1..Len(log), t))
    BY <1>1, <1>5, OneRead
  <2>2. view.last <= view.total
    BY <1>5 DEF ViewSound
  <2>3. \A t \in RecordType :
            Cardinality(of_type(log, 1..view.total, t)) <= Cardinality(of_type(log, 1..Len(log), t))
    <3> TAKE t \in RecordType
    <3>1. of_type(log, 1..view.total, t) \subseteq of_type(log, 1..Len(log), t)
      BY <1>1 DEF of_type
    <3>2. IsFiniteSet(of_type(log, 1..Len(log), t))
      BY <1>1, CountType
    <3> QED
      BY <3>1, <3>2, FS_Subset
  <2>4. view'.types[KS] > 0 => of_type(log, Seqs(log), KS) # {}
    <3>1. view'.types[KS] = Cardinality(of_type(log, 1..Len(log), KS))
      BY <1>2, <2>1
    <3>2. Cardinality({}) = 0
      BY FS_EmptySet
    <3>3. of_type(log, 1..Len(log), KS) = {} => view'.types[KS] = 0
      BY <3>1, <3>2
    <3> QED
      BY <1>1, <3>3
  <2>5. \A t \in RecordType : Cardinality(of_type(log', 1..view'.total, t)) <= view'.types[t]
    BY <1>1, <2>1, <2>3
  <2>6. of_type(log', Seqs(log'), KS) = of_type(log, Seqs(log), KS)
    BY <1>1
  <2> QED
    BY <2>1, <2>2, <2>4, <2>5, <2>6 DEF ViewSound
<1>6. CASE view.next = "switch"
  <2>1. /\ view'.next = "done" /\ view'.last = view.last /\ view'.total = view.total
        /\ view'.types = view.types /\ view'.switch = latest_payload_of_type(log, KS)
    BY <1>6, OneRead
  <2>2. /\ view.last <= view.total
        /\ \A t \in RecordType : Cardinality(of_type(log, 1..view.total, t)) <= view.types[t]
        /\ view.types[KS] > 0 => of_type(log, Seqs(log), KS) # {}
    BY <1>6 DEF ViewSound
  <2>3. /\ of_type(log, Seqs(log), KS) # {} =>
               latest_payload_of_type(log, KS) \in of_type(log, Seqs(log), KS)
        /\ \A j \in of_type(log, Seqs(log), KS) : j <= latest_payload_of_type(log, KS)
    BY <1>1, LatestPayload
  <2>4. of_type(log, 1..view.total, KS) \subseteq of_type(log, Seqs(log), KS)
    BY <1>1 DEF of_type
  <2>5. \A j \in of_type(log, Seqs(log), KS) : j > 0
    BY <1>1 DEF of_type
  <2>6. view.types[KS] > 0 => view'.switch > 0
    BY <2>1, <2>2, <2>3, <2>5
  <2>7. \A i \in of_type(log, 1..view.total, KS) : i <= view'.switch
    BY <2>1, <2>3, <2>4
  <2>8. of_type(log', Seqs(log'), KS) = of_type(log, Seqs(log), KS)
    BY <1>1
  <2> QED
    BY <1>1, <2>1, <2>2, <2>6, <2>7, <2>8 DEF ViewSound
<1>7. view.next \in {"latest", "total", "types", "switch"}
  BY <1>1 DEF build_status_view, Views
<1> QED
  BY <1>3, <1>4, <1>5, <1>6, <1>7

\* An append between two reads disturbs nothing already read.
LEMMA ViewStep == ASSUME Typed, ViewSound, [Next]_vars PROVE ViewSound'
<1>1. CASE build_status_view
  BY <1>1, ReadKeepsView
<1>2. CASE Respond
  BY <1>2 DEF Respond, NoView, ViewSound
<1>3. CASE UNCHANGED view
  <2>1. /\ Seqs(log) = 1..Len(log) /\ Seqs(log') = 1..Len(log')
        /\ Len(log) \in Nat /\ Len(log') \in Nat /\ Len(log) <= Len(log')
        /\ \A i \in 1..Len(log) : log'[i] = log[i]
    BY StoreGrows DEF Seqs
  <2>2. view.total \in 0..Len(log)
    BY DEF Typed, TypeInvariant
  <2>3. \A t : of_type(log', 1..view.total, t) = of_type(log, 1..view.total, t)
    BY <2>1, <2>2 DEF of_type
  <2>4. \A t : of_type(log, Seqs(log), t) \subseteq of_type(log', Seqs(log'), t)
    BY <2>1 DEF of_type
  <2> QED
    BY <1>3, <2>3, <2>4 DEF ViewSound
<1>4. build_status_view \/ Respond \/ UNCHANGED view
  BY DEF Next, Begin, NewId, Audit, Switch, Crash, Record, Tick, Build, persist_report, vars
<1> QED
  BY <1>1, <1>2, <1>3, <1>4

\* GET /status hangs together although its four reads are not one transaction.
THEOREM RelayCoherentHolds == Spec => []RelayCoherent
<1>1. Init => ViewSound
  BY DEF Init, NoView, ViewSound
<1>2. Typed /\ ViewSound /\ [Next]_vars => ViewSound'
  BY ViewStep
<1>3. Typed /\ ViewSound => RelayCoherent
  <2> SUFFICES ASSUME Typed, ViewSound, view.next = "done"
               PROVE  /\ view.last <= view.total
                      /\ \A t \in RecordType :
                            Cardinality(of_type(log, 1..view.total, t)) <= view.types[t]
                      /\ view.types["KILL_SWITCH_STATE"] > 0 => view.switch > 0
                      /\ latest_payload_of_type(SubSeq(log, 1, view.total), "KILL_SWITCH_STATE")
                            <= view.switch
    BY DEF RelayCoherent
  <2> DEFINE l == SubSeq(log, 1, view.total)
             k == latest_payload_of_type(l, "KILL_SWITCH_STATE")
  <2>1. /\ view.total \in 0..Len(log) /\ IsLog(log) /\ Len(log) \in Nat
        /\ view.switch \in 0..Len(log)
    BY LogShape DEF Typed, TypeInvariant
  <2>2. Seqs(l) = 1..view.total /\ \A i \in 1..view.total : l[i] = log[i]
    BY <2>1, PrefixShape
  <2>3. Len(l) = view.total
    BY <2>1, PrefixShape
  <2>4. /\ k \in 0..Len(l)
        /\ of_type(l, Seqs(l), "KILL_SWITCH_STATE") # {} =>
              k \in of_type(l, Seqs(l), "KILL_SWITCH_STATE")
    <3>1. Seqs(l) = 1..Len(l) /\ Len(l) \in Nat
      BY <2>1, <2>2, <2>3
    <3> HIDE DEF l
    <3> QED
      BY <3>1, LatestPayload
  <2>5. of_type(l, Seqs(l), "KILL_SWITCH_STATE") = of_type(log, 1..view.total, "KILL_SWITCH_STATE")
    BY <2>2 DEF of_type
  <2>6. of_type(l, Seqs(l), "KILL_SWITCH_STATE") = {} => k = 0
    BY DEF latest_payload_of_type
  <2> HIDE DEF k, l
  <2>7. k <= view.switch
    BY <2>1, <2>4, <2>5, <2>6 DEF ViewSound
  <2> QED
    BY <2>7 DEF ViewSound, k, l
<1> QED
  BY <1>1, <1>2, <1>3, TypesHold, PTL DEF Spec

-----------------------------------------------------------------------------
(* Switch rows and the artifacts they name. *)

\* What ties a switch row to its artifact: id, decision and clock, of a row or of a job.
RowMark(row) == <<row.id, row.value, row.created_at>>

JobMark(j) == <<j.id, DecisionOf(j), j.now>>

Like(l, n, type, x) == {i \in of_type(l, 1..n, type) : RowMark(l[i]) = x}

\* The commands whose artifact is written and whose switch row is not.
Owing(x) == {p \in Procs : pc[p] = "Switch" /\ JobMark(job[p]) = x}

\* Artifacts pay for the switch rows there are and for the ones still owed.
SwitchSound ==
    /\ \A x : /\ IsFiniteSet(Owing(x))
              /\ Cardinality(Like(log, Len(log), "KILL_SWITCH_STATE", x)) + Cardinality(Owing(x))
                     <= Cardinality(Like(log, Len(log), "AUDIT_ARTIFACT", x))
    /\ \A n \in of_type(log, Seqs(log), "KILL_SWITCH_STATE") :
          Cardinality(Like(log, n, "KILL_SWITCH_STATE", RowMark(log[n])))
              <= Cardinality(Like(log, n - 1, "AUDIT_ARTIFACT", RowMark(log[n])))

\* Marked rows are finitely many.
LEMMA LikeType ==
    ASSUME NEW l, NEW n \in Nat, NEW type, NEW x
    PROVE  /\ IsFiniteSet(Like(l, n, type, x)) /\ Cardinality(Like(l, n, type, x)) \in Nat
           /\ Like(l, n, type, x) \subseteq 1..n
<1>1. IsFiniteSet(1..n) /\ Like(l, n, type, x) \subseteq 1..n
  BY FS_Interval DEF Like, of_type
<1>2. IsFiniteSet(Like(l, n, type, x))
  BY <1>1, FS_Subset
<1> QED
  BY <1>1, <1>2, FS_CardinalityType

\* An append adds at most its own row, and nothing to a prefix.
LEMMA LikeAppend ==
    ASSUME NEW l, IsLog(l), NEW row, NEW type, NEW x
    PROVE  /\ \A n \in 0..Len(l) : Like(Append(l, row), n, type, x) = Like(l, n, type, x)
           /\ row.type = type /\ RowMark(row) = x =>
                 Cardinality(Like(Append(l, row), Len(Append(l, row)), type, x)) =
                     Cardinality(Like(l, Len(l), type, x)) + 1
           /\ ~(row.type = type /\ RowMark(row) = x) =>
                 Like(Append(l, row), Len(Append(l, row)), type, x) = Like(l, Len(l), type, x)
<1> DEFINE m == Append(l, row)
           k == Len(l) + 1
<1>1. /\ Len(l) \in Nat /\ Len(m) = k
      /\ \A i \in 1..Len(l) : m[i] = l[i]
      /\ m[k] = row
  BY LogAppend
<1> HIDE DEF m
<1>2. \A n \in 0..Len(l) : Like(m, n, type, x) = Like(l, n, type, x)
  BY <1>1 DEF Like, of_type
<1>3. \A i \in 1..k : i \in 1..Len(l) \/ i = k
  BY <1>1
<1>4. CASE row.type = type /\ RowMark(row) = x
  <2>1. Like(m, k, type, x) = Like(l, Len(l), type, x) \cup {k} /\ k \notin Like(l, Len(l), type, x)
    BY <1>1, <1>3, <1>4 DEF Like, of_type
  <2>2. IsFiniteSet(Like(l, Len(l), type, x))
    BY <1>1, LikeType
  <2>3. Cardinality(Like(m, k, type, x)) = Cardinality(Like(l, Len(l), type, x)) + 1
    BY <2>1, <2>2, FS_AddElement
  <2> QED
    BY <1>1, <1>2, <1>4, <2>3 DEF m
<1>5. CASE ~(row.type = type /\ RowMark(row) = x)
  <2>1. Like(m, k, type, x) = Like(l, Len(l), type, x)
    BY <1>1, <1>3, <1>5 DEF Like, of_type
  <2> QED
    BY <1>1, <1>2, <1>5, <2>1 DEF m
<1> QED
  BY <1>4, <1>5

\* An append adds nothing to any prefix.
LEMMA LikePrefix ==
    ASSUME NEW l, IsLog(l), NEW row
    PROVE  \A type, x : \A k \in 0..Len(l) : Like(Append(l, row), k, type, x) = Like(l, k, type, x)
<1> DEFINE m == Append(l, row)
<1>1. Len(l) \in Nat /\ \A i \in 1..Len(l) : m[i] = l[i]
  BY LogAppend
<1> HIDE DEF m
<1>2. \A type, x : \A k \in 0..Len(l) : Like(m, k, type, x) = Like(l, k, type, x)
  BY <1>1 DEF Like, of_type
<1> QED
  BY <1>2 DEF m

\* A step that appends no switch row and owes no more of them.
LEMMA NoSwitchRow ==
    ASSUME Typed, SwitchSound, \A x : Owing(x)' \subseteq Owing(x),
           \/ UNCHANGED log
           \/ \E row : log' = Append(log, row) /\ row.type # "KILL_SWITCH_STATE"
    PROVE  SwitchSound'
<1> DEFINE KS == "KILL_SWITCH_STATE"
           AA == "AUDIT_ARTIFACT"
<1>1. IsLog(log) /\ Len(log) \in Nat /\ Seqs(log) = 1..Len(log)
  BY LogShape DEF Typed
<1>2. ASSUME NEW x
      PROVE  /\ IsFiniteSet(Owing(x)') /\ Cardinality(Owing(x)') <= Cardinality(Owing(x))
             /\ Cardinality(Owing(x)') \in Nat /\ Cardinality(Owing(x)) \in Nat
  <2>1. IsFiniteSet(Owing(x)) /\ Owing(x)' \subseteq Owing(x)
    BY DEF SwitchSound
  <2>2. IsFiniteSet(Owing(x)') /\ Cardinality(Owing(x)') <= Cardinality(Owing(x))
    BY <2>1, FS_Subset
  <2> QED
    BY <2>1, <2>2, FS_CardinalityType
<1>3. CASE UNCHANGED log
  <2>1. \A x : /\ IsFiniteSet(Owing(x)')
               /\ Cardinality(Like(log, Len(log), KS, x)) + Cardinality(Owing(x)')
                     <= Cardinality(Like(log, Len(log), AA, x))
    <3> TAKE x
    <3>1. /\ Cardinality(Like(log, Len(log), KS, x)) \in Nat
          /\ Cardinality(Like(log, Len(log), AA, x)) \in Nat
      BY <1>1, LikeType
    <3>2. Cardinality(Like(log, Len(log), KS, x)) + Cardinality(Owing(x))
              <= Cardinality(Like(log, Len(log), AA, x))
      BY DEF SwitchSound
    <3> QED
      BY <1>2, <3>1, <3>2
  <2> QED
    BY <1>3, <2>1 DEF SwitchSound
<1>4. CASE \E row : log' = Append(log, row) /\ row.type # KS
  <2>1. PICK row : log' = Append(log, row) /\ row.type # KS
    BY <1>4
  <2>2. /\ Len(log') = Len(log) + 1 /\ \A i \in 1..Len(log) : log'[i] = log[i]
        /\ log'[Len(log) + 1] = row
    BY <1>1, <2>1, LogAppend
  <2>3. \A x : /\ IsFiniteSet(Owing(x)')
               /\ Cardinality(Like(log', Len(log'), KS, x)) + Cardinality(Owing(x)')
                     <= Cardinality(Like(log', Len(log'), AA, x))
    <3> TAKE x
    <3>1. /\ Cardinality(Like(log, Len(log), KS, x)) \in Nat
          /\ Cardinality(Like(log, Len(log), AA, x)) \in Nat
      BY <1>1, LikeType
    <3>2. Cardinality(Like(log, Len(log), KS, x)) + Cardinality(Owing(x))
              <= Cardinality(Like(log, Len(log), AA, x))
      BY DEF SwitchSound
    <3>3. Like(log', Len(log'), KS, x) = Like(log, Len(log), KS, x)
      BY <1>1, <2>1, LikeAppend
    <3>4. \/ Cardinality(Like(log', Len(log'), AA, x)) = Cardinality(Like(log, Len(log), AA, x)) + 1
          \/ Cardinality(Like(log', Len(log'), AA, x)) = Cardinality(Like(log, Len(log), AA, x))
      BY <1>1, <2>1, LikeAppend
    <3> QED
      BY <1>2, <3>1, <3>2, <3>3, <3>4
  <2>4. ASSUME NEW n \in of_type(log', Seqs(log'), KS)
        PROVE  Cardinality(Like(log', n, KS, RowMark(log'[n])))
                   <= Cardinality(Like(log', n - 1, AA, RowMark(log'[n])))
    <3>1. n \in of_type(log, Seqs(log), KS) /\ n \in 1..Len(log) /\ log'[n] = log[n]
      BY <1>1, <2>1, <2>2, <2>4 DEF of_type, Seqs
    <3>2. \A x : /\ Like(log', n, KS, x) = Like(log, n, KS, x)
                 /\ Like(log', n - 1, AA, x) = Like(log, n - 1, AA, x)
      <4>1. n \in 0..Len(log) /\ n - 1 \in 0..Len(log)
        BY <1>1, <3>1
      <4>2. \A type, x : \A k \in 0..Len(log) : Like(log', k, type, x) = Like(log, k, type, x)
        BY <1>1, <2>1, LikePrefix
      <4> QED
        BY <4>1, <4>2
    <3> QED
      BY <3>1, <3>2 DEF SwitchSound
  <2> QED
    BY <2>3, <2>4 DEF SwitchSound
<1> QED
  BY <1>3, <1>4

\* The artifact of a switch command pays for the row the command now owes.
LEMMA ArtifactPays ==
    ASSUME Typed, SwitchSound, NEW p \in Procs, pc[p] = "Audit",
           pc' = [pc EXCEPT ![p] = "Switch"], UNCHANGED job,
           log' = Append(log, Row("AUDIT_ARTIFACT", job[p].now, DecisionOf(job[p]), job[p].id, <<>>))
    PROVE  SwitchSound'
<1> DEFINE KS == "KILL_SWITCH_STATE"
           AA == "AUDIT_ARTIFACT"
           row == Row(AA, job[p].now, DecisionOf(job[p]), job[p].id, <<>>)
<1>1. IsLog(log) /\ Len(log) \in Nat /\ Seqs(log) = 1..Len(log)
      /\ pc \in [Procs -> {"Idle", "NewId", "Audit", "Switch"}]
  BY LogShape DEF Typed, TypeInvariant
<1>2. row.type = AA /\ RowMark(row) = JobMark(job[p])
  BY DEF Row, RowMark, JobMark
<1>3. log' = Append(log, row)
  OBVIOUS
<1> HIDE DEF row
<1>4. ASSUME NEW x
      PROVE  /\ IsFiniteSet(Owing(x)')
             /\ Cardinality(Like(log', Len(log'), KS, x)) + Cardinality(Owing(x)')
                   <= Cardinality(Like(log', Len(log'), AA, x))
  <2>1. /\ IsFiniteSet(Owing(x)) /\ Cardinality(Owing(x)) \in Nat
        /\ Cardinality(Like(log, Len(log), KS, x)) + Cardinality(Owing(x))
               <= Cardinality(Like(log, Len(log), AA, x))
    BY FS_CardinalityType DEF SwitchSound
  <2>2. /\ Cardinality(Like(log, Len(log), KS, x)) \in Nat
        /\ Cardinality(Like(log, Len(log), AA, x)) \in Nat
    BY <1>1, LikeType
  <2>3. Like(log', Len(log'), KS, x) = Like(log, Len(log), KS, x)
    BY <1>1, <1>2, <1>3, LikeAppend
  <2>4. CASE JobMark(job[p]) = x
    <3>1. Owing(x)' = Owing(x) \cup {p} /\ p \notin Owing(x)
      BY <1>1, <2>4 DEF Owing
    <3>2. IsFiniteSet(Owing(x)') /\ Cardinality(Owing(x)') = Cardinality(Owing(x)) + 1
      BY <2>1, <3>1, FS_AddElement
    <3>3. Cardinality(Like(log', Len(log'), AA, x)) = Cardinality(Like(log, Len(log), AA, x)) + 1
      BY <1>1, <1>2, <1>3, <2>4, LikeAppend
    <3> QED
      BY <2>1, <2>2, <2>3, <3>2, <3>3
  <2>5. CASE JobMark(job[p]) # x
    <3>1. Owing(x)' = Owing(x)
      BY <1>1, <2>5 DEF Owing
    <3>2. Like(log', Len(log'), AA, x) = Like(log, Len(log), AA, x)
      BY <1>1, <1>2, <1>3, <2>5, LikeAppend
    <3> QED
      BY <2>1, <2>3, <3>1, <3>2
  <2> QED
    BY <2>4, <2>5
<1>5. ASSUME NEW n \in of_type(log', Seqs(log'), KS)
      PROVE  Cardinality(Like(log', n, KS, RowMark(log'[n])))
                 <= Cardinality(Like(log', n - 1, AA, RowMark(log'[n])))
  <2>1. /\ Len(log') = Len(log) + 1 /\ \A i \in 1..Len(log) : log'[i] = log[i]
        /\ log'[Len(log) + 1] = row
    BY <1>1, <1>3, LogAppend
  <2>2. n \in of_type(log, Seqs(log), KS) /\ n \in 1..Len(log) /\ log'[n] = log[n]
    BY <1>1, <1>2, <1>5, <2>1 DEF of_type, Seqs
  <2>3. \A type, x : \A k \in 0..Len(log) : Like(log', k, type, x) = Like(log, k, type, x)
    BY <1>1, <1>3, LikePrefix
  <2>4. n \in 0..Len(log) /\ n - 1 \in 0..Len(log)
    BY <1>1, <2>2
  <2> QED
    BY <2>2, <2>3, <2>4 DEF SwitchSound
<1> QED
  BY <1>4, <1>5 DEF SwitchSound

\* The switch row is the one its command owed.
LEMMA SwitchPaid ==
    ASSUME Typed, SwitchSound, NEW p \in Procs, Switch(p) PROVE SwitchSound'
<1> DEFINE KS == "KILL_SWITCH_STATE"
           AA == "AUDIT_ARTIFACT"
           row == Row(KS, job[p].now, DecisionOf(job[p]), job[p].id, <<>>)
           mark == JobMark(job[p])
<1>1. IsLog(log) /\ Len(log) \in Nat /\ Seqs(log) = 1..Len(log)
      /\ pc \in [Procs -> {"Idle", "NewId", "Audit", "Switch"}] /\ job \in [Procs -> Jobs]
  BY LogShape DEF Typed, TypeInvariant
<1>2. row.type = KS /\ RowMark(row) = mark
  BY DEF Row, RowMark, JobMark
<1>3. /\ log' = Append(log, row) /\ pc[p] = "Switch"
      /\ pc' = [pc EXCEPT ![p] = "Idle"] /\ job' = [job EXCEPT ![p] = NoJob]
  BY DEF Switch, append, Return, CommandId
<1> HIDE DEF row
<1>4. \A x : Owing(x)' = Owing(x) \ {p}
  BY <1>1, <1>3 DEF Owing
<1>5. p \in Owing(mark) /\ \A x : x # mark => p \notin Owing(x)
  BY <1>3 DEF Owing
<1> HIDE DEF mark
<1>6. \A x : /\ IsFiniteSet(Owing(x)) /\ Cardinality(Owing(x)) \in Nat
             /\ Cardinality(Like(log, Len(log), KS, x)) \in Nat
             /\ Cardinality(Like(log, Len(log), AA, x)) \in Nat
             /\ Cardinality(Like(log, Len(log), KS, x)) + Cardinality(Owing(x))
                   <= Cardinality(Like(log, Len(log), AA, x))
  <2>1. \A x : /\ IsFiniteSet(Owing(x)) /\ Cardinality(Owing(x)) \in Nat
               /\ Cardinality(Like(log, Len(log), KS, x)) + Cardinality(Owing(x))
                     <= Cardinality(Like(log, Len(log), AA, x))
    BY FS_CardinalityType DEF SwitchSound
  <2> QED
    BY <1>1, <2>1, LikeType
<1>7. /\ Cardinality(Like(log', Len(log'), KS, mark)) = Cardinality(Like(log, Len(log), KS, mark)) + 1
      /\ \A x : x # mark => Like(log', Len(log'), KS, x) = Like(log, Len(log), KS, x)
      /\ \A x : Like(log', Len(log'), AA, x) = Like(log, Len(log), AA, x)
  BY <1>1, <1>2, <1>3, LikeAppend
<1>8. /\ IsFiniteSet(Owing(mark) \ {p})
      /\ Cardinality(Owing(mark) \ {p}) = Cardinality(Owing(mark)) - 1
  BY <1>5, <1>6, FS_RemoveElement
<1>9. ASSUME NEW x
      PROVE  /\ IsFiniteSet(Owing(x)')
             /\ Cardinality(Like(log', Len(log'), KS, x)) + Cardinality(Owing(x)')
                   <= Cardinality(Like(log', Len(log'), AA, x))
  <2>1. CASE x = mark
    <3>1. IsFiniteSet(Owing(x)') /\ Cardinality(Owing(x)') = Cardinality(Owing(x)) - 1
      <4>1. Owing(x)' = Owing(x) \ {p} /\ p \in Owing(x) /\ IsFiniteSet(Owing(x))
        BY <1>4, <1>5, <1>6, <2>1
      <4> QED
        BY <4>1, FS_RemoveElement
    <3> QED
      BY <1>6, <1>7, <2>1, <3>1
  <2>2. CASE x # mark
    <3>1. Owing(x)' = Owing(x)
      BY <1>4, <1>5, <2>2
    <3> QED
      BY <1>6, <1>7, <2>2, <3>1
  <2> QED
    BY <2>1, <2>2
<1>10. ASSUME NEW n \in of_type(log', Seqs(log'), KS)
       PROVE  Cardinality(Like(log', n, KS, RowMark(log'[n])))
                  <= Cardinality(Like(log', n - 1, AA, RowMark(log'[n])))
  <2>1. /\ Len(log') = Len(log) + 1 /\ \A i \in 1..Len(log) : log'[i] = log[i]
        /\ log'[Len(log) + 1] = row
    BY <1>1, <1>3, LogAppend
  <2>2. \A type, x : \A k \in 0..Len(log) : Like(log', k, type, x) = Like(log, k, type, x)
    BY <1>1, <1>3, LikePrefix
  <2>3. CASE n \in 1..Len(log)
    <3>1. n \in of_type(log, Seqs(log), KS) /\ log'[n] = log[n]
      BY <1>1, <1>10, <2>1, <2>3 DEF of_type
    <3>2. n \in 0..Len(log) /\ n - 1 \in 0..Len(log)
      BY <1>1, <2>3
    <3> QED
      BY <2>2, <3>1, <3>2 DEF SwitchSound
  <2>4. CASE n = Len(log')
    <3>1. /\ n - 1 = Len(log) /\ RowMark(log'[n]) = mark
      BY <1>1, <1>2, <2>1, <2>4
    <3>2. Like(log', n - 1, AA, mark) = Like(log, Len(log), AA, mark)
      BY <1>1, <2>2, <3>1
    <3>3. Cardinality(Owing(mark)) >= 1
      <4>1. Cardinality(Owing(mark) \ {p}) \in Nat
        BY <1>8, FS_CardinalityType
      <4> QED
        BY <1>6, <1>8, <4>1
    <3> QED
      BY <1>6, <1>7, <2>4, <3>1, <3>2, <3>3
  <2> QED
    BY <1>1, <1>10, <2>1, <2>3, <2>4 DEF of_type, Seqs
<1> QED
  BY <1>9, <1>10 DEF SwitchSound

\* Every step keeps every switch row paid for.
LEMMA SwitchStep == ASSUME Typed, SwitchSound, [Next]_vars PROVE SwitchSound'
<1>1. pc \in [Procs -> {"Idle", "NewId", "Audit", "Switch"}] /\ job \in [Procs -> Jobs]
  BY DEF Typed, TypeInvariant
<1>2. CASE \E p \in Procs : Switch(p)
  BY <1>2, SwitchPaid
<1>3. CASE \E p \in Procs : Audit(p)
  <2>1. PICK p \in Procs : Audit(p)
    BY <1>3
  <2> DEFINE row == Row("AUDIT_ARTIFACT", job[p].now, DecisionOf(job[p]), job[p].id, <<>>)
  <2>2. log' = Append(log, row) /\ pc[p] = "Audit"
    BY <2>1 DEF Audit, append
  <2>3. CASE pc' = [pc EXCEPT ![p] = "Switch"] /\ UNCHANGED job
    BY <2>2, <2>3, ArtifactPays
  <2>4. CASE Return(p)
    <3>1. \A x : Owing(x)' \subseteq Owing(x)
      BY <1>1, <2>4 DEF Owing, Return
    <3>2. row.type # "KILL_SWITCH_STATE"
      BY DEF Row
    <3> HIDE DEF row
    <3> QED
      BY <2>2, <3>1, <3>2, NoSwitchRow
  <2> QED
    BY <2>1, <2>3, <2>4 DEF Audit
<1>4. CASE \E r \in setting.payloads, at \in 0..setting.maxTime : Record(r, at)
  <2>1. PICK r \in setting.payloads, at \in 0..setting.maxTime : Record(r, at)
    BY <1>4
  <2>2. r[1] # "KILL_SWITCH_STATE"
    BY SettingsAssumption DEF Typed
  <2>3. \E row : log' = Append(log, row) /\ row.type # "KILL_SWITCH_STATE"
    <3>1. Row(r[1], at, r[2], NoId, <<>>).type # "KILL_SWITCH_STATE"
      BY <2>2 DEF Row
    <3> QED
      BY <2>1, <3>1 DEF Record, append
  <2>4. \A x : Owing(x)' = Owing(x)
    BY <2>1 DEF Record, Owing
  <2> QED
    BY <2>3, <2>4, NoSwitchRow
<1>5. CASE persist_report
  <2>1. \E row : log' = Append(log, row) /\ row.type # "KILL_SWITCH_STATE"
    <3>1. Row("DAILY_REPORT", report[1].generated_at, "none", NoId, report).type # "KILL_SWITCH_STATE"
      BY DEF Row
    <3> QED
      BY <1>5, <3>1 DEF persist_report, append
  <2>2. \A x : Owing(x)' = Owing(x)
    BY <1>5 DEF persist_report, Owing
  <2> QED
    BY <2>1, <2>2, NoSwitchRow
<1>6. CASE \E p \in setting.procs, j \in setting.jobs : Begin(p, j[1], j[2])
  <2>1. UNCHANGED log
    BY <1>6 DEF Begin
  <2>2. \A x : Owing(x)' \subseteq Owing(x)
    BY <1>1, <1>6 DEF Begin, Owing
  <2> QED
    BY <2>1, <2>2, NoSwitchRow
<1>7. CASE \E p \in Procs : NewId(p) \/ Crash(p)
  <2>1. UNCHANGED log
    BY <1>7 DEF NewId, Crash
  <2>2. \A x : Owing(x)' \subseteq Owing(x)
    BY <1>1, <1>7 DEF NewId, Crash, Return, Owing
  <2> QED
    BY <2>1, <2>2, NoSwitchRow
<1>8. CASE UNCHANGED <<log, pc, job>>
  <2>1. \A x : Owing(x)' = Owing(x)
    BY <1>8 DEF Owing
  <2> QED
    BY <1>8, <2>1, NoSwitchRow
<1>9. (\E w \in setting.windows : Build(w)) \/ Tick \/ build_status_view \/ Respond \/ UNCHANGED vars
          => UNCHANGED <<log, pc, job>>
  BY DEF Build, Tick, build_status_view, Respond, vars
<1> QED
  BY <1>2, <1>3, <1>4, <1>5, <1>6, <1>7, <1>8, <1>9 DEF Next

\* However the commands of several processes interleave, or die between their two appends,
\* every switch row of the store has a command artifact of its own before it.
THEOREM SwitchTraceableHolds == Spec => []SwitchTraceable
<1>1. Init => SwitchSound
  <2> SUFFICES ASSUME Init PROVE SwitchSound
    OBVIOUS
  <2>1. Len(log) = 0 /\ Seqs(log) = {} /\ 1..Len(log) = {}
    BY DEF Init, Seqs
  <2>2. \A x : Owing(x) = {}
    BY DEF Init, Owing
  <2>3. \A type, x : Like(log, Len(log), type, x) = {}
    BY <2>1 DEF Like, of_type
  <2>4. IsFiniteSet({}) /\ Cardinality({}) = 0
    BY FS_EmptySet
  <2>5. \A x : /\ IsFiniteSet(Owing(x))
               /\ Cardinality(Like(log, Len(log), "KILL_SWITCH_STATE", x)) + Cardinality(Owing(x))
                     <= Cardinality(Like(log, Len(log), "AUDIT_ARTIFACT", x))
    <3> TAKE x
    <3>1. /\ Owing(x) = {} /\ Like(log, Len(log), "KILL_SWITCH_STATE", x) = {}
          /\ Like(log, Len(log), "AUDIT_ARTIFACT", x) = {}
      BY <2>2, <2>3
    <3>2. Cardinality({}) + Cardinality({}) <= Cardinality({})
      BY <2>4
    <3>3. IsFiniteSet(Owing(x))
      BY <2>4, <3>1
    <3> QED
      BY <3>1, <3>2, <3>3
  <2>6. of_type(log, Seqs(log), "KILL_SWITCH_STATE") = {}
    BY <2>1 DEF of_type
  <2> QED
    BY <2>5, <2>6 DEF SwitchSound
<1>2. SwitchSound /\ Typed /\ [Next]_vars => SwitchSound'
  BY SwitchStep
<1>3. SwitchSound /\ Typed => SwitchTraceable
  <2> SUFFICES ASSUME SwitchSound, Typed PROVE SwitchTraceable
    OBVIOUS
  <2> DEFINE like(type, row) ==
               {i \in of_type(log, Seqs(log), type) :
                   /\ log[i].id = row.id /\ log[i].value = row.value
                   /\ log[i].created_at = row.created_at}
  <2>1. Len(log) \in Nat /\ Seqs(log) = 1..Len(log)
    BY LogShape DEF Typed
  <2>2. ASSUME NEW n \in of_type(log, Seqs(log), "KILL_SWITCH_STATE")
        PROVE  /\ {i \in like("KILL_SWITCH_STATE", log[n]) : i <= n} =
                      Like(log, n, "KILL_SWITCH_STATE", RowMark(log[n]))
               /\ {i \in like("AUDIT_ARTIFACT", log[n]) : i < n} =
                      Like(log, n - 1, "AUDIT_ARTIFACT", RowMark(log[n]))
    <3>1. n \in 1..Len(log)
      BY <2>1, <2>2 DEF of_type
    <3>2. \A i : RowMark(log[i]) = RowMark(log[n]) <=>
                    /\ log[i].id = log[n].id /\ log[i].value = log[n].value
                    /\ log[i].created_at = log[n].created_at
      BY DEF RowMark
    <3> QED
      BY <2>1, <3>1, <3>2 DEF Like, of_type
  <2> HIDE DEF like
  <2>3. \A n \in of_type(log, Seqs(log), "KILL_SWITCH_STATE") :
            Cardinality({i \in like("KILL_SWITCH_STATE", log[n]) : i <= n})
                <= Cardinality({i \in like("AUDIT_ARTIFACT", log[n]) : i < n})
    BY <2>2 DEF SwitchSound
  <2> QED
    BY <2>3 DEF SwitchTraceable, like
<1> QED
  BY <1>1, <1>2, <1>3, TypesHold, PTL DEF Spec

-----------------------------------------------------------------------------
(* A row that comes late. *)

\* Some rows have a newest one: the last seq of the latest time.
LEMMA NewestExists ==
    ASSUME NEW l, NEW n \in Nat, NEW b \in Nat, \A i \in 1..n : l[i].created_at \in 0..b,
           NEW S \in SUBSET (1..n), S # {}
    PROVE  \E i \in S : \A j \in S \ {i} : Later(l, i, j)
<1> DEFINE D == {l[i].created_at + 1 : i \in S}
<1>1. D \in SUBSET (1..(b + 1)) /\ b + 1 \in Nat /\ D # {}
  <2>1. \A i \in S : l[i].created_at + 1 \in 1..(b + 1)
    <3> TAKE i \in S
    <3>1. l[i].created_at \in 0..b
      OBVIOUS
    <3> QED
      BY <3>1
  <2>2. \E i : i \in S
    OBVIOUS
  <2>3. D # {}
    BY <2>2
  <2>4. \A e \in D : e \in 1..(b + 1)
    BY <2>1
  <2> HIDE DEF D
  <2> QED
    BY <2>3, <2>4
<1>2. PICK d \in D : \A e \in D : e <= d
  <2> HIDE DEF D
  <2> QED
    BY <1>1, LastExists
<1>3. \A j \in S : l[j].created_at + 1 <= d
  <2> TAKE j \in S
  <2>1. l[j].created_at + 1 \in D
    OBVIOUS
  <2> HIDE DEF D
  <2> QED
    BY <1>2, <2>1
<1> DEFINE U == {i \in S : l[i].created_at + 1 = d}
<1>4. U \in SUBSET (1..n) /\ U # {}
  BY <1>2
<1>5. PICK i \in U : \A j \in U : j <= i
  <2> HIDE DEF U
  <2> QED
    BY <1>4, LastExists
<1>6. ASSUME NEW j \in S \ {i} PROVE Later(l, i, j)
  <2>1. /\ l[i].created_at \in Int /\ l[j].created_at \in Int /\ i \in Int /\ j \in Int
        /\ l[i].created_at + 1 = d /\ l[j].created_at + 1 <= d
    <3>1. i \in S /\ j \in S /\ l[i].created_at + 1 = d
      BY <1>5, <1>6
    <3>2. i \in 1..n /\ j \in 1..n
      BY <3>1
    <3>3. l[i].created_at \in 0..b /\ l[j].created_at \in 0..b
      BY <3>2
    <3> QED
      BY <1>3, <3>1, <3>2, <3>3
  <2>2. l[j].created_at = l[i].created_at => j <= i
    BY <1>5, <1>6, <2>1
  <2> QED
    BY <1>6, <2>1, <2>2 DEF Later
<1> QED
  BY <1>5, <1>6

\* Appending a row older than one of its type the window already had changes no latest row.
LEMMA LateRowNotLatest ==
    ASSUME NEW l, IsLog(l), NEW row, NEW end \in Int, NEW type, NEW b \in Nat,
           \A i \in 1..Len(l) : l[i].created_at \in 0..b, row.created_at \in 0..b,
           NEW w \in of_type(l, Seqs(l), row.type),
           row.created_at < l[w].created_at, l[w].created_at <= end
    PROVE  /\ latest_upto(Append(l, row), type, end) = latest_upto(l, type, end)
           /\ latest_upto(l, type, end) # 0 => latest_upto(l, type, end) \in 1..Len(l)
<1> DEFINE m == Append(l, row)
           k == Len(l) + 1
           S == Upto(l, type, end)
           T == Upto(m, type, end)
<1>1. /\ Len(l) \in Nat /\ Len(m) = k /\ k \in Nat
      /\ \A i \in 1..Len(l) : m[i] = l[i]
      /\ m[k] = row
  BY LogAppend
<1> HIDE DEF m
<1>2. /\ Seqs(l) = 1..Len(l) /\ Seqs(m) = 1..k
      /\ \A i \in 1..k : i \in 1..Len(l) \/ i = k
  BY <1>1 DEF Seqs
<1>3. S \subseteq 1..Len(l) /\ T \subseteq 1..k /\ S \subseteq T /\ T \subseteq S \cup {k}
  BY <1>1, <1>2 DEF Upto, of_type
<1>4. k \in T => type = row.type
  BY <1>1 DEF Upto, of_type
<1>5. type = row.type => w \in S
  BY <1>2 DEF Upto, of_type
<1>6. \A i, j \in 1..Len(l) : Later(m, i, j) = Later(l, i, j)
  BY <1>1 DEF Later
<1>7. w \in 1..Len(l) /\ ~Later(m, k, w) /\ Later(m, w, k) /\ w # k
  BY <1>1, <1>2 DEF Later, of_type
<1>8. \A i \in S : Later(m, i, w) \/ i = w => Later(m, i, k)
  BY <1>1, <1>3, <1>7 DEF Later
<1>9. (S = {}) <=> (T = {})
  BY <1>3, <1>4, <1>5
<1>10. Newest(m, T) = Newest(l, S)
  <2> HIDE DEF S, T
  <2>1. ASSUME NEW i \in Newest(m, T) PROVE i \in Newest(l, S)
    <3>1. i \in T /\ \A j \in T \ {i} : Later(m, i, j)
      BY DEF Newest
    <3>2. i \in S
      <4>1. i = k => w \in T \ {i}
        BY <1>3, <1>4, <1>5, <1>7, <3>1
      <4> QED
        BY <1>3, <1>7, <3>1, <4>1
    <3> QED
      BY <1>3, <1>6, <3>1, <3>2 DEF Newest
  <2>2. ASSUME NEW i \in Newest(l, S) PROVE i \in Newest(m, T)
    <3>1. i \in S /\ \A j \in S \ {i} : Later(l, i, j)
      BY DEF Newest
    <3>2. ASSUME NEW j \in T \ {i} PROVE Later(m, i, j)
      <4>1. CASE j \in S
        BY <1>3, <1>6, <3>1, <3>2, <4>1
      <4>2. CASE j = k
        <5>1. w \in S
          BY <1>4, <1>5, <3>2, <4>2
        <5>2. Later(m, i, w) \/ i = w
          BY <1>3, <1>6, <3>1, <5>1
        <5> QED
          BY <1>8, <3>1, <4>2, <5>2
      <4> QED
        BY <1>3, <3>2, <4>1, <4>2
    <3> QED
      BY <1>3, <3>1, <3>2 DEF Newest
  <2> QED
    BY <2>1, <2>2
<1>11. latest_upto(m, type, end) = latest_upto(l, type, end)
  BY <1>9, <1>10 DEF latest_upto
<1>12. S # {} => latest_upto(l, type, end) \in S
  <2>1. S # {} => \E i \in S : \A j \in S \ {i} : Later(l, i, j)
    BY <1>1, <1>3, NewestExists
  <2> QED
    BY <2>1 DEF latest_upto, Newest
<1>13. S = {} => latest_upto(l, type, end) = 0
  BY DEF latest_upto
<1> QED
  BY <1>3, <1>11, <1>12, <1>13 DEF m

\* The running state of a report whose window already had a newer row of that type.
LEMMA LateRowKeepsState ==
    ASSUME NEW l, IsLog(l), NEW row, NEW end \in Int, NEW b \in Nat,
           \A i \in 1..Len(l) : l[i].created_at \in 0..b, row.created_at \in 0..b,
           NEW w \in of_type(l, Seqs(l), row.type),
           row.created_at < l[w].created_at, l[w].created_at <= end
    PROVE  RunningState(Append(l, row), end) = RunningState(l, end)
<1> DEFINE m == Append(l, row)
<1>1. \A type : /\ latest_upto(m, type, end) = latest_upto(l, type, end)
                /\ latest_upto(l, type, end) # 0 => latest_upto(l, type, end) \in 1..Len(l)
  BY LateRowNotLatest
<1>2. \A i \in 1..Len(l) : m[i] = l[i]
  BY LogAppend
<1> HIDE DEF m
<1>3. kill_switch_summary(m, end) = kill_switch_summary(l, end)
  BY <1>1, <1>2 DEF kill_switch_summary
<1>4. reconciliation_status(m, end) = reconciliation_status(l, end)
  BY <1>1, <1>2 DEF reconciliation_status
<1>5. position_summary(m, end) = position_summary(l, end)
  BY <1>1, <1>2 DEF position_summary
<1> QED
  BY <1>3, <1>4, <1>5 DEF RunningState, m

\* No append takes a row out of a window's count.
LEMMA CountsGrow ==
    ASSUME NEW l, IsLog(l), NEW row, NEW w, NEW type, NEW value
    PROVE  LET c == CountOf(l, in_window(l, w), type, value)
               d == CountOf(Append(l, row), in_window(Append(l, row), w), type, value)
           IN  c \in Nat /\ d \in Nat /\ c <= d
<1> DEFINE m == Append(l, row)
           S == {i \in of_type(l, in_window(l, w), type) : l[i].value = value}
           T == {i \in of_type(m, in_window(m, w), type) : m[i].value = value}
<1>1. /\ Len(l) \in Nat /\ Len(m) = Len(l) + 1 /\ \A i \in 1..Len(l) : m[i] = l[i]
  BY LogAppend
<1> HIDE DEF m
<1>2. Seqs(l) = 1..Len(l) /\ Seqs(m) = 1..(Len(l) + 1)
  BY <1>1 DEF Seqs
<1>3. S \subseteq T
  BY <1>1, <1>2 DEF of_type, in_window
<1>4. IsFiniteSet(1..(Len(l) + 1)) /\ T \subseteq 1..(Len(l) + 1)
  BY <1>1, <1>2, FS_Interval DEF of_type, in_window
<1> HIDE DEF S, T
<1>5. IsFiniteSet(T)
  BY <1>4, FS_Subset
<1>6. IsFiniteSet(S) /\ Cardinality(S) <= Cardinality(T)
  BY <1>3, <1>5, FS_Subset
<1>7. Cardinality(S) \in Nat /\ Cardinality(T) \in Nat
  BY <1>5, <1>6, FS_CardinalityType
<1> QED
  BY <1>6, <1>7 DEF CountOf, S, T, m

\* A writer that is overtaken between its clock reading and its append brings no old state
\* back into any report, and calms no notification.
THEOREM DelayedAppendKeepsStateHolds == Spec => DelayedAppendKeepsState
<1> DEFINE Kept(w) ==
             /\ RunningState(log', w[2]) = RunningState(log, w[2])
             /\ daily_severity(build_daily_report(log', w, now)) >=
                   daily_severity(build_daily_report(log, w, now))
             /\ risk_severity(build_risk_report(log', w)) =
                   risk_severity(build_risk_report(log, w))
<1>1. ASSUME Typed, [Next]_vars, NEW w \in setting.windows, Overtaken(w[2]) PROVE Kept(w)
  <2>1. /\ IsLog(log) /\ Len(log) \in Nat /\ Seqs(log) = 1..Len(log) /\ now \in Nat
        /\ \A i \in 1..Len(log) : log[i].created_at \in 0..now
    <3>1. IsLog(log) /\ now \in Nat /\ TypeInvariant
      BY <1>1 DEF Typed
    <3>2. Len(log) \in Nat /\ Seqs(log) = 1..Len(log)
      BY <3>1, LogShape
    <3> QED
      BY <3>1, <3>2 DEF TypeInvariant
  <2>2. w[2] \in Int
    BY <1>1, SettingsAssumption DEF Typed
  <2>3. PICK row : log' = Append(log, row) /\ row.created_at \in 0..now
    BY <1>1, <2>1, LogStep DEF Overtaken, Appendable
  <2>4. log'[Len(log')] = row
    BY <2>1, <2>3, LogAppend
  <2>5. PICK i \in of_type(log, Seqs(log), row.type) :
               row.created_at < log[i].created_at /\ log[i].created_at <= w[2]
    BY <1>1, <2>4 DEF Overtaken
  <2>6. RunningState(log', w[2]) = RunningState(log, w[2])
    BY <2>1, <2>2, <2>3, <2>5, LateRowKeepsState
  <2> DEFINE c(l, type, value) == CountOf(l, in_window(l, w), type, value)
  <2>7. \A type, value : /\ c(log, type, value) \in Nat /\ c(log', type, value) \in Nat
                         /\ c(log, type, value) <= c(log', type, value)
    BY <2>1, <2>3, CountsGrow
  <2>8. \A l : LET r == build_daily_report(l, w, now)
               IN  /\ r.state = RunningState(l, w[2])
                   /\ r.unresolved = c(l, "HUMAN_REQUIRED_EVENT", "unresolved")
                   /\ r.gateway_rejections = c(l, "AUDIT_ARTIFACT", "REJECT")
                   /\ r.rejects = c(l, "EXECUTION_REPORT", "REJECTED")
    BY DEF build_daily_report
  <2>9. risk_severity(build_risk_report(log', w)) = risk_severity(build_risk_report(log, w))
    BY <2>6 DEF risk_severity, build_risk_report
  <2> HIDE DEF c
  <2>10. daily_severity(build_daily_report(log', w, now)) >=
             daily_severity(build_daily_report(log, w, now))
    BY <2>6, <2>7, <2>8 DEF daily_severity
  <2> QED
    BY <2>6, <2>9, <2>10
<1>2. Typed /\ [Next]_vars =>
          [\A w \in setting.windows : Overtaken(w[2]) => Kept(w)]_vars
  BY <1>1
<1> QED
  BY <1>2, TypesHold, PTL DEF Spec, DelayedAppendKeepsState
=============================================================================
