--------------------------- MODULE LocalOperator ---------------------------
(***************************************************************************)
(* ops/paper_operator.py: `submit` and `cancel-drill` each run the paper   *)
(* cycle on the one pinned candidate with a broker of their own, and the   *)
(* drill then cancels through the control plane; `inspect` reads.  Several *)
(* terminals use the same audit database.  The candidate, its evidence and *)
(* the price are fixed, so every invocation mints the same intent and the  *)
(* same idempotency key.  A fixture or evidence that is refused ends an    *)
(* invocation before it opens the store, and `recovery` only reads: neither*)
(* is a step here.  The fakes run on the clock the intent is stamped with, *)
(* so a report is never early; the approval is stamped with the wall clock,*)
(* which may be.                                                           *)
(***************************************************************************)
EXTENDS ControlPlane

CONSTANT MaxInvocations     \* bound: invocations in a behaviour

\* One candidate is pinned, at one fixed instant, so there is one ticket; every cycle is
\* its first attempt, and every terminal builds a broker of its own.
ASSUME OperatorAssumption ==
    /\ MaxInvocations \in Nat
    /\ \E t \in Tickets : Tickets = {t}
    /\ 1 \in Attempts
    /\ \A p, q \in Procs : BrokerOf[p] \in Brokers /\ (BrokerOf[p] = BrokerOf[q] => p = q)

VARIABLES command,      \* command[p]: what terminal p runs, and how far its drill is
          shown,        \* shown[p]: the confirmation_code on p's screen, at most one
          codes,        \* every confirmation_code ever displayed
          accepted,     \* the codes that were typed back, and by which invocation
          returned,     \* the results printed: command and unresolved_open_orders
          invocations

operatorVars == <<command, shown, codes, accepted, returned, invocations>>

vars == <<log, book, placed, pc, cycleVars, granted, commandVars, operatorVars>>

\* build_armed_local_paper_broker fills, build_cancel_drill_broker leaves an order working.
DrillBroker(p) == Profile[BrokerOf[p]] = "partial"

\* The one request: the pinned candidate at the reconciled mid, in NORMAL routing.
TheBatches ==
    {<<[ticket |-> t, limit_price |-> mid, approved |-> TRUE, routable |-> TRUE]>> :
        t \in Tickets, mid \in Prices}

Init ==
    /\ log = <<>>
    /\ book = [b \in Brokers |-> [k \in Keys |-> NoOrder]]
    /\ placed = [k \in Keys |-> 0]
    /\ CycleInit /\ ControlInit
    /\ command = [p \in Procs |-> "none"]
    /\ shown = [p \in Procs |-> {}]
    /\ codes = {} /\ accepted = {} /\ returned = {} /\ invocations = 0

\* The process is gone, and with it its broker and its one-shot confirmer.
Exit(p) ==
    /\ Forget(p)
    /\ snap' = [snap EXCEPT ![p] = {}]
    /\ todo' = [todo EXCEPT ![p] = {}]
    /\ target' = [target EXCEPT ![p] = NoTarget]
    /\ audits' = [audits EXCEPT ![p] = 0]
    /\ book' = [book EXCEPT ![BrokerOf[p]] = [k \in Keys |-> NoOrder]]
    /\ command' = [command EXCEPT ![p] = "none"]
    /\ shown' = [shown EXCEPT ![p] = {}]
    /\ UNCHANGED <<log, placed, granted, codes, accepted, invocations>>

Invoke(p) ==
    /\ command[p] = "none" /\ invocations < MaxInvocations
    /\ \E batch \in TheBatches : StartCycle(p, batch, 1)
    /\ command' = [command EXCEPT ![p] = IF DrillBroker(p) THEN "cancel-drill" ELSE "submit"]
    /\ invocations' = invocations + 1
    /\ UNCHANGED <<commandVars, shown, codes, accepted, returned>>

\* inspect: the control plane's status and last decision, each with its artifact.
Inspect(p) ==
    /\ command[p] = "none" /\ invocations < MaxInvocations
    /\ ReadCommand(p)
    /\ command' = [command EXCEPT ![p] = "inspect"]
    /\ invocations' = invocations + 1
    /\ UNCHANGED <<shown, codes, accepted, returned>>

InspectDecision(p) ==
    /\ command[p] = "inspect"
    /\ ReadCommand(p)
    /\ command' = [command EXCEPT ![p] = "none"]
    /\ UNCHANGED <<shown, codes, accepted, returned, invocations>>

-----------------------------------------------------------------------------
\* Mutant: the digest alone, which is the same for every invocation.
CodeWithoutNonce(nonce, i) == <<0, i>>

\* sha256(nonce : full_digest): it tells apart nonces and complete intents.
confirmation_code(nonce, i) == <<nonce, i>>

\* A fresh nonce; the code exists from here on, and anyone may have copied it.
Display(p) ==
    LET code == confirmation_code(Cardinality(codes) + 1, CurrentIntent(p))
    IN  /\ pc[p] = "Confirm" /\ shown[p] = {}
        /\ shown' = [shown EXCEPT ![p] = {code}]
        /\ codes' = codes \cup {code}
        /\ UNCHANGED <<log, book, placed, pc, cycleVars, granted, commandVars,
                       command, accepted, returned, invocations>>

\* An empty answer defers.
AnswerEmpty(p) ==
    /\ shown[p] # {}
    /\ ConfirmDeclines(p)
    /\ UNCHANGED <<commandVars, operatorVars>>

\* Anything but the displayed code, one of another invocation included, is an error that
\* ends the invocation.
AnswerWrong(p) ==
    /\ pc[p] = "Confirm" /\ shown[p] # {}
    /\ \E typed \in codes \cup {<<>>} : typed \notin shown[p]
    /\ Exit(p)
    /\ UNCHANGED returned

AnswerCode(p) ==
    /\ \E typed \in codes \cap shown[p] :
          accepted' = accepted \cup {[code |-> typed, by |-> p, nth |-> invocations]}
    /\ \E early \in BOOLEAN :
          ConfirmAnswers(p, [intent |-> CurrentIntent(p), early |-> early])
    /\ UNCHANGED <<commandVars, command, shown, codes, returned, invocations>>

CycleRuns(p) ==
    /\ command[p] \in {"submit", "cancel-drill"}
    /\ \/ AuditRequest(p) \/ ValidateApproves(p) \/ MintTicket(p)
       \/ PersistAttempt(p) \/ PersistDuplicate(p)
       \/ SubmitRefused(p) \/ SubmitToBroker(p) \/ AuditFailure(p) \/ AppendReport(p)
    /\ UNCHANGED <<commandVars, operatorVars>>

\* The cycle returns its counts; a drill has something to cancel or fails.
CycleReturns(p) ==
    /\ command[p] \in {"submit", "cancel-drill"}
    /\ FinishCycle(p)
    /\ command' = [command EXCEPT ![p] = IF @ = "submit" THEN "done" ELSE "drill"]
    /\ UNCHANGED <<commandVars, shown, codes, accepted, returned, invocations>>

-----------------------------------------------------------------------------
\* Mutant: the counts of the cycle are not looked at.
DrillAnyway(p) == command[p] = "drill"

DrillReady(p) == command[p] = "drill" /\ tally[p]["submitted"] = 1

\* PaperOperatorDrillError: there is nothing of its own to cancel.
DrillFails(p) ==
    /\ command[p] = "drill" /\ ~DrillReady(p)
    /\ Exit(p)
    /\ UNCHANGED returned

\* A phrase other than CANCEL: the order stays on record as it is.
DrillDeclined(p) ==
    /\ DrillReady(p)
    /\ Exit(p)
    /\ UNCHANGED returned

DrillCancel(p) ==
    /\ DrillReady(p)
    /\ cancel_open_orders(p)
    /\ command' = [command EXCEPT ![p] = "cancelling"]
    /\ UNCHANGED <<shown, codes, accepted, returned, invocations>>

CancelRuns(p) ==
    /\ command[p] = "cancelling"
    /\ \/ CancelResolve(p) \/ CancelAtBroker(p) \/ CancelReport(p) \/ CancelReportRaises(p)
       \/ AuditRaises(p)
    /\ UNCHANGED operatorVars

CancelReturns(p) ==
    /\ command[p] = "cancelling"
    /\ CancelDone(p)
    /\ command' = [command EXCEPT ![p] = "cancelled"]
    /\ UNCHANGED <<shown, codes, accepted, returned, invocations>>

\* Mutant: the failed command leaves the invocation where it is.
CancelStuck(p) ==
    /\ command[p] = "cancelling" /\ RejectCommand(p)
    /\ UNCHANGED operatorVars

\* The command audits its failure and raises, or cannot even do that; the invocation ends.
CancelFails(p) ==
    /\ command[p] = "cancelling"
    /\ RejectCommand(p) \/ CommandRaises(p)
    /\ command' = [command EXCEPT ![p] = "failed"]
    /\ UNCHANGED <<shown, codes, accepted, returned, invocations>>

\* The result is printed, from the store as it is now.
Return(p) ==
    /\ command[p] \in {"done", "cancelled", "failed"}
    /\ returned' = IF command[p] = "failed" THEN returned
                   ELSE returned \cup {[command |-> command[p],
                                        submitted |-> tally[p]["submitted"],
                                        unresolved |-> unresolved_open_orders(log)]}
    /\ Exit(p)

Crash(p) ==
    /\ command[p] # "none"
    /\ Exit(p)
    /\ UNCHANGED returned

Runs(p) ==
    \/ InspectDecision(p) \/ Display(p) \/ CycleRuns(p) \/ CycleReturns(p)
    \/ DrillFails(p) \/ CancelRuns(p) \/ CancelReturns(p) \/ CancelFails(p) \/ Return(p)

Types(p) == AnswerEmpty(p) \/ AnswerWrong(p) \/ AnswerCode(p) \/ DrillDeclined(p) \/ DrillCancel(p)

\* Every invocation has ended and no more are started.
Rest ==
    /\ invocations = MaxInvocations /\ \A p \in Procs : command[p] = "none"
    /\ UNCHANGED vars

Next == (\E p \in Procs : Invoke(p) \/ Inspect(p) \/ Runs(p) \/ Types(p) \/ Crash(p)) \/ Rest

Spec == Init /\ [][Next]_vars

\* The code goes on by itself, except where it reads a line from the human.
FairSpec == Spec /\ \A p \in Procs : WF_vars(Runs(p))

-----------------------------------------------------------------------------
\* A captured or replayed confirmation fails closed (paper_operator.py:491-495): a code
\* authorises one invocation, and no more orders are ever placed than codes were typed.
ConfirmationsFresh ==
    /\ \A x, y \in accepted : x.code = y.code => x = y
    /\ \A k \in Keys : placed[k] <= Cardinality(accepted)

\* A drill that returns proves what it says (paper_operator.py:645-648): its order was
\* cancelled on record, and nothing on the store is unresolved, whatever earlier and
\* concurrent invocations left there.
DrillProof ==
    \A r \in returned : r.command = "cancelled" =>
        /\ r.unresolved = {}
        /\ \E i \in DOMAIN log : log[i].life = "CANCELLED"

\* The program waits for a line of the human's.
Asking(p) == pc[p] = "Confirm" \/ DrillReady(p)

\* An invocation never hangs: it ends, or it asks, whatever the other terminals do.
InvocationsEnd ==
    \A p \in Procs : command[p] # "none" ~> (command[p] = "none" \/ Asking(p))
=============================================================================
