---------------------------- MODULE CycleVerdicts ----------------------------
(***************************************************************************)
(* What the shadow cycle promises, with no gate, insert or process in      *)
(* sight: the requests of a cycle get their verdicts one by one in the     *)
(* order they came, a verdict once on record stays, a cycle is done only   *)
(* when every request has one, and it may fail anywhere before.            *)
(***************************************************************************)
EXTENDS Naturals, Sequences

CONSTANT Verdict(_)     \* what the pipeline decides about a request

VARIABLES session,      \* the list of cycles, each with its batch: any, and never changed
          cycles,       \* the number of the running cycle
          decided,      \* its verdicts on record, oldest first
          status

verdictVars == <<session, cycles, decided, status>>

batch == session[cycles].batch

VerdictInit == cycles = 1 /\ decided = <<>> /\ status = "running"

\* The next request in turn gets its verdict.
Decide ==
    /\ status = "running" /\ Len(decided) < Len(batch)
    /\ decided' = Append(decided, Verdict(batch[Len(decided) + 1]))
    /\ UNCHANGED <<session, cycles, status>>

Complete ==
    /\ status = "running" /\ Len(decided) = Len(batch)
    /\ status' = "done"
    /\ UNCHANGED <<session, cycles, decided>>

Abort ==
    /\ status = "running"
    /\ status' = "failed"
    /\ UNCHANGED <<session, cycles, decided>>

Start ==
    /\ status # "running" /\ cycles < Len(session)
    /\ cycles' = cycles + 1 /\ decided' = <<>> /\ status' = "running"
    /\ UNCHANGED session

VerdictNext == Decide \/ Complete \/ Abort \/ Start

VerdictSpec == VerdictInit /\ [][VerdictNext]_verdictVars

-----------------------------------------------------------------------------
\* The promise: the verdicts on record are those of the first requests, each its own, and
\* a cycle that is done has one for every request.
InTurn ==
    /\ Len(decided) <= Len(batch)
    /\ \A k \in 1..Len(decided) : decided[k] = Verdict(batch[k])
    /\ status = "done" => Len(decided) = Len(batch)
=============================================================================
