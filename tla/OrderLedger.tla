----------------------------- MODULE OrderLedger -----------------------------
(***************************************************************************)
(* What the paper submit path promises, with no process, store row or      *)
(* broker call in sight: for every idempotency key an attempt is on record *)
(* before an order can exist, an order is placed at most once, and the     *)
(* record is closed only when no broker can still execute the order.       *)
(***************************************************************************)
EXTENDS Naturals

CONSTANT Keys       \* idempotency keys

VARIABLES ledger,   \* ledger[k]: what the durable record says about k
          placed,   \* placed[k]: orders ever executed for k
          exposure  \* the keys with an order some broker may still execute

ledgerVars == <<ledger, placed, exposure>>

Standing == {"none", "attempted", "open", "closed"}

LedgerInit ==
    /\ ledger = [k \in Keys |-> "none"]
    /\ placed = [k \in Keys |-> 0]
    /\ exposure = {}

\* The decision to submit becomes durable.
Attempt(k) ==
    /\ ledger[k] = "none"
    /\ ledger' = [ledger EXCEPT ![k] = "attempted"]
    /\ UNCHANGED <<placed, exposure>>

\* A broker takes the order: once, and only for a recorded attempt.
Place(k) ==
    /\ ledger[k] = "attempted" /\ placed[k] = 0
    /\ placed' = [placed EXCEPT ![k] = 1]
    /\ exposure' \in {exposure, exposure \cup {k}}
    /\ UNCHANGED ledger

\* The broker's answer is recorded, as open or as closed.
Acknowledge(k) ==
    /\ ledger[k] = "attempted" /\ placed[k] = 1
    /\ \/ ledger' = [ledger EXCEPT ![k] = "open"]
       \/ k \notin exposure /\ ledger' = [ledger EXCEPT ![k] = "closed"]
    /\ UNCHANGED <<placed, exposure>>

\* The record of an open order is closed: only once no broker can execute it any more.
Close(k) ==
    /\ ledger[k] = "open" /\ k \notin exposure
    /\ ledger' = [ledger EXCEPT ![k] = "closed"]
    /\ UNCHANGED <<placed, exposure>>

\* Orders stop being executable: filled, cancelled, or gone with the process.
Retire ==
    /\ exposure' \in SUBSET exposure
    /\ UNCHANGED <<ledger, placed>>

LedgerNext ==
    \/ \E k \in Keys : Attempt(k) \/ Place(k) \/ Acknowledge(k) \/ Close(k)
    \/ Retire

LedgerSpec == LedgerInit /\ [][LedgerNext]_ledgerVars

-----------------------------------------------------------------------------
\* The promise: an executable order is on record and not closed, it was placed exactly
\* once, and nothing is ever placed twice or without a recorded attempt.
LedgerSafe ==
    /\ ledger \in [Keys -> Standing]
    /\ placed \in [Keys -> {0, 1}]
    /\ exposure \subseteq {k \in Keys : ledger[k] \in {"attempted", "open"} /\ placed[k] = 1}
    /\ \A k \in Keys : placed[k] = 1 => ledger[k] # "none"
=============================================================================
