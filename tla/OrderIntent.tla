----------------------------- MODULE OrderIntent -----------------------------
(***************************************************************************)
(* The values that travel through the paper submit path: the routed        *)
(* OrderTicket, the BrokerSubmitIntent minted from it, and the order       *)
(* lifecycle.  A ticket is a model value; what the code reads off a ticket *)
(* (order type, contracts, underlying) is a function of it, because the    *)
(* ticket is frozen and its SHA-256 identifies its content.                *)
(***************************************************************************)
EXTENDS Naturals, Sequences, FiniteSets

CONSTANTS Tickets,      \* the distinct OrderTickets (one per order_ticket_hash)
          OrderType,      \* OrderType[t]: "LIMIT" or "MARKET"
          Contracts,      \* Contracts[t]: contracts of the short leg
          Underlying,     \* Underlying[t]: the candidate's underlying
          Attempts,       \* the attempt_counter values a caller passes
          Prices,         \* the limit prices a caller supplies
          NoPrice         \* limit_price is None

ASSUME TicketAssumption ==
    /\ OrderType \in [Tickets -> {"LIMIT", "MARKET"}]
    /\ Contracts \in [Tickets -> Nat \ {0}]
    /\ DOMAIN Underlying = Tickets

ASSUME AttemptAssumption == Attempts \subseteq Nat \ {0} /\ Attempts # {}

ASSUME PriceAssumption == NoPrice \notin Prices

\* A BrokerSubmitIntent, in SubmitMode.PAPER: the only mode the paper cycle passes.
Intents == [ticket : Tickets, attempt : Attempts, price : Prices \cup {NoPrice}]

Keys == Tickets \X Attempts

\* idempotency_key = f"{order_ticket_hash}:{attempt_counter}".  The limit price is
\* not part of the key: two differently priced intents can share one.
KeyOf(intent) == <<intent.ticket, intent.attempt>>

Requested(intent) == Contracts[intent.ticket]

\* mint_broker_submit_intent as run_paper_cycle calls it: a MARKET ticket drops the
\* caller's price, and as_of = ticket.created_at, so the ticket is never stale here.
mint_broker_submit_intent(ticket, attempt, limit_price) ==
    [ticket  |-> ticket,
     attempt |-> attempt,
     price   |-> IF OrderType[ticket] = "LIMIT" THEN limit_price ELSE NoPrice]

-----------------------------------------------------------------------------
NON_TERMINAL_LIFECYCLE == {"PENDING_SUBMIT", "SUBMITTED", "WORKING", "PARTIAL_FILL"}

OrderLifecycleState ==
    NON_TERMINAL_LIFECYCLE \cup {"FILLED", "CANCELLED", "REJECTED", "EXPIRED"}

\* ExecutionReport._coherent on the counts.  Its timestamp checks can fail only for a
\* report that carries a fill or completion time (see ReportTimed).
ReportCoherent(life, filled, requested) ==
    /\ filled <= requested
    /\ life = "FILLED" => filled = requested

\* An order still WORKING with nothing filled has neither fill_timestamp nor
\* completed_at, so no timestamp of its report can precede submitted_at.
ReportTimed(life, filled) == filled > 0 \/ life \notin NON_TERMINAL_LIFECYCLE
=============================================================================
