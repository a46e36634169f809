----------------------------- MODULE PaperBroker -----------------------------
(***************************************************************************)
(* The broker behind a process (brokers/).  LocalPaperBroker is the policy *)
(* gate; behind it is one BrokerAdapter.  The fakes keep their orders in   *)
(* the memory of the process.  A "remote" adapter is any other             *)
(* implementation of the BrokerAdapter interface, as the paper cycle and   *)
(* the control plane are written to meet it: it keeps its orders across a  *)
(* crash of the process, is shared by the processes that reach it, fills   *)
(* orders on its own, and may raise after having done what it was asked.   *)
(***************************************************************************)
EXTENDS OrderIntent

CONSTANTS Brokers,              \* broker adapters
          Profile,                \* Profile[b]: which adapter b is
          NoOrder,                \* no order under this key
          NoToken,                \* no PaperSubmitApproval was handed over
          PaperConfig             \* the PaperBrokerConfig of the deployment

Fakes == {"fill", "reject", "partial", "disconnect", "slow", "dupack"}

ASSUME BrokerAssumption == Profile \in [Brokers -> Fakes \cup {"remote"}]

ASSUME PaperConfigAssumption ==
    /\ PaperConfig.submission_enabled \in BOOLEAN
    /\ PaperConfig.paper_submit_enabled \in BOOLEAN
    /\ PaperConfig.paper_max_contracts \in Nat \ {0}
    /\ PaperConfig.paper_limit_only \in BOOLEAN
    /\ PaperConfig.paper_require_human_confirm \in BOOLEAN

VARIABLES book,     \* book[b][k]: the order broker b holds under key k
          placed    \* placed[k]: how many orders the adapters ever took on for k

Order == [intent : Intents, life : OrderLifecycleState, filled : Nat]

\* A PaperSubmitApproval: the complete intent it was made for (its digest), and whether
\* approved_at precedes that intent's submitted_at.
Tokens == [intent : Intents, early : BOOLEAN]

OpenOrders(b) ==
    {k \in Keys : book[b][k] # NoOrder /\ book[b][k].life \in NON_TERMINAL_LIFECYCLE}

-----------------------------------------------------------------------------
paper_submission_armed ==
    PaperConfig.submission_enabled /\ PaperConfig.paper_submit_enabled

\* Mutant: no comparison of the full-intent digest.
ConfirmationWithoutDigest(intent, token) ==
    /\ token # NoToken
    /\ token.intent.ticket = intent.ticket
    /\ KeyOf(token.intent) = KeyOf(intent)
    /\ ~token.early

\* validate_human_confirmation: ticket hash, idempotency key, time, full digest.
validate_human_confirmation(intent, token) ==
    /\ token # NoToken
    /\ token.intent.ticket = intent.ticket
    /\ KeyOf(token.intent) = KeyOf(intent)
    /\ ~token.early
    /\ token.intent = intent

validate_submit(intent, token) ==
    /\ paper_submission_armed
    /\ Underlying[intent.ticket] \in PaperConfig.paper_allowed_underlyings
    /\ Requested(intent) <= PaperConfig.paper_max_contracts
    /\ PaperConfig.paper_limit_only => OrderType[intent.ticket] = "LIMIT"
    /\ PaperConfig.paper_require_human_confirm =>
           validate_human_confirmation(intent, token)

\* _simulate of the fakes: the order it creates, or NoOrder when it raises a BrokerError.
simulate(f, intent) ==
    CASE f \in {"fill", "dupack"} ->
           [intent |-> intent, life |-> "FILLED", filled |-> Requested(intent)]
      [] f = "partial" /\ Requested(intent) <= 1 ->
           [intent |-> intent, life |-> "WORKING", filled |-> 0]
      [] f = "partial" /\ Requested(intent) > 1 ->
           [intent |-> intent, life |-> "PARTIAL_FILL", filled |-> Requested(intent) - 1]
      [] OTHER -> NoOrder

\* What a remote adapter may do with a new intent: work it, reject it, fill it, and in
\* each case answer or raise; or raise with nothing done.
RemoteSubmit(intent) ==
    [reply : {"ack", "error"},
     order : {[intent |-> intent, life |-> "WORKING", filled |-> 0],
              [intent |-> intent, life |-> "REJECTED", filled |-> 0],
              [intent |-> intent, life |-> "FILLED", filled |-> Requested(intent)]}]
    \cup {[reply |-> "error", order |-> NoOrder]}

\* The outcomes of the adapter's submit_order: the order it now holds, and whether the
\* caller got it back ("ack") or a BrokerError.  A key it knows gets the stored order.
SubmitOutcomes(b, intent) ==
    LET known == book[b][KeyOf(intent)]
        new == simulate(Profile[b], intent)
    IN  IF known # NoOrder THEN {[reply |-> "ack", order |-> known]}
        ELSE IF Profile[b] = "remote" THEN RemoteSubmit(intent)
        ELSE {[reply |-> IF new = NoOrder THEN "error" ELSE "ack", order |-> new]}

submit_order(b, intent, outcome) ==
    LET k == KeyOf(intent)
    IN  /\ book' = [book EXCEPT ![b][k] = outcome.order]
        /\ placed' = [placed EXCEPT ![k] =
               IF book[b][k] = NoOrder /\ outcome.order # NoOrder THEN @ + 1 ELSE @]

\* What a remote adapter may do with a cancel of the open order o: cancel it and raise
\* all the same, raise with nothing done, or answer that the cancel is still pending.
RemoteCancel(o) ==
    {[reply |-> "error", order |-> [o EXCEPT !.life = "CANCELLED"]],
     [reply |-> "error", order |-> o], [reply |-> "ack", order |-> o]}

\* The outcomes of cancel_order: the order afterwards, and whether the caller got it back
\* ("ack") or an exception: an unknown or terminal order is not cancellable.
CancelOutcomes(b, k) ==
    LET o == book[b][k]
    IN  IF k \notin OpenOrders(b) THEN {[reply |-> "error", order |-> o]}
        ELSE {[reply |-> "ack", order |-> [o EXCEPT !.life = "CANCELLED"]]}
             \cup (IF Profile[b] = "remote" THEN RemoteCancel(o) ELSE {})

cancel_order(b, k, outcome) == book' = [book EXCEPT ![b][k] = outcome.order]

\* A remote adapter fills one more contract of an open order on its own.
RemoteFill(b, k) ==
    LET o == book[b][k]
    IN  /\ Profile[b] = "remote"
        /\ k \in OpenOrders(b)
        /\ o.filled < Requested(o.intent)
        /\ book' = [book EXCEPT ![b][k] =
               [intent |-> o.intent,
                life |-> IF o.filled + 1 = Requested(o.intent) THEN "FILLED" ELSE "PARTIAL_FILL",
                filled |-> o.filled + 1]]
        /\ UNCHANGED placed
=============================================================================
