--------------------------- MODULE MCPaperTrading ---------------------------
(* Small deployments of PaperTrading for TLC. *)
EXTENDS PaperTradingClaims, TLC

CONSTANTS p1, p2, p3, t1, t2, t3, b1, b2, c10, c20

ProcSymmetry == Permutations(Procs)
LimitOnly == [t \in Tickets |-> "LIMIT"]
OneContract == [t \in Tickets |-> 1]
TwoContracts == [t \in Tickets |-> 2]
Xsp == [t \in Tickets |-> "XSP"]

Req(t, price, approved, routable) ==
    [ticket |-> t, limit_price |-> price, approved |-> approved, routable |-> routable]

Good(t) == Req(t, c10, TRUE, TRUE)
Repriced(t) == Req(t, c20, TRUE, TRUE)

\* ---- two processes, each with its own in-memory broker, over one store, beside the
\* ---- `python -m ops` command line, which has none ----
OwnBrokers ==
    [p \in Procs |-> CASE p = p1 -> b1 [] p = p2 -> b2 [] OTHER -> NoBroker]
FillAndPartial == [b \in Brokers |-> IF b = b1 THEN "fill" ELSE "partial"]
RetryBatches == {<<Good(t1)>>, <<Repriced(t1)>>}

\* ---- two processes that reach one remote adapter ----
SharedBroker == [p \in Procs |-> b1]
Remote == [b \in Brokers |-> "remote"]
CancelBatches == {<<Good(t1)>>}

\* ---- one process, and every way a work item can end ----
ThirdMarket == [t \in Tickets |-> IF t = t3 THEN "MARKET" ELSE "LIMIT"]
ThirdBig == [t \in Tickets |-> IF t = t3 THEN 3 ELSE 2]
MixedBatches ==
    {<<>>, <<Good(t1), Good(t2)>>, <<Good(t1), Good(t3)>>, <<Good(t1), Repriced(t1)>>,
     <<Req(t1, NoPrice, TRUE, TRUE), Req(t1, c10, FALSE, TRUE)>>,
     <<Req(t1, c10, TRUE, FALSE), Good(t1)>>}

\* ---- one process and an order that stays open ----
OneFake == [p \in Procs |-> b1]
PartialOnly == [b \in Brokers |-> "partial"]

Config(max) ==
    [submission_enabled |-> TRUE, paper_submit_enabled |-> TRUE,
     paper_max_contracts |-> max, paper_allowed_underlyings |-> {"XSP"},
     paper_limit_only |-> TRUE, paper_require_human_confirm |-> TRUE]
ArmedOne == Config(1)
ArmedTwo == Config(2)
=============================================================================
