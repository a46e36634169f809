----------------------------- MODULE MCOperator -----------------------------
(* Terminals of the local paper operator: one submits, the others drill. *)
EXTENDS LocalOperator

CONSTANTS p1, p2, t1, b1, b2, mid

LimitOnly == [t \in Tickets |-> "LIMIT"]
OneContract == [t \in Tickets |-> 1]
Xsp == [t \in Tickets |-> "XSP"]
OwnBrokers == [p \in Procs |-> IF p = p1 THEN b1 ELSE b2]
FillAndPartial == [b \in Brokers |-> IF b = b1 THEN "fill" ELSE "partial"]
OperatorConfig ==
    [submission_enabled |-> TRUE, paper_submit_enabled |-> TRUE, paper_max_contracts |-> 1,
     paper_allowed_underlyings |-> {"XSP"}, paper_limit_only |-> TRUE,
     paper_require_human_confirm |-> TRUE]
=============================================================================
