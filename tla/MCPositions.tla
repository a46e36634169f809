---------------------------- MODULE MCPositions ----------------------------
(* Small books for PositionReconciliation: every tuple of a few legs. *)
EXTENDS PositionReconciliation, TLC

Leg(type, strike, places, side, n) ==
    [underlying |-> "XSP", option_symbol |-> ToString(strike), expiration_date |-> 1,
     option_type |-> type, strike |-> strike, places |-> places, side |-> side,
     contracts |-> n]

UpTo(S, n) == UNION {[1..k -> S] : k \in 0..n}

\* Four lots over three strikes, one or two contracts each: enough for a short that is
\* covered by two longs, and for two shorts that compete for one.
Puts == {Leg("PUT", k, 0, s, n) : k \in 1..3, s \in {"SHORT", "LONG"}, n \in 1..2}
Books == UpTo(Puts, 4) \cup
         {<<[Leg("CALL", 2, 0, "SHORT", 2) EXCEPT !.underlying = u], Leg("CALL", k, 0, "LONG", n),
            Leg(t, 1, 0, "LONG", n), [Leg("PUT", 3, 0, "SHORT", 1) EXCEPT !.expiration_date = d]>> :
            u \in {"XSP", "SPX"}, k \in 1..3, n \in 1..2, t \in {"PUT", "CALL"}, d \in 1..2}
BookReports == {[reported_at |-> 1, legs |-> b] : b \in Books}

\* Pairs of books: two lots of one contract, a spread, its legs in the other order, and the
\* same strike written with a decimal place.
Lots == {Leg("PUT", 2, p, "SHORT", n) : p \in 0..1, n \in 1..2} \cup
        {Leg("PUT", 1, 0, "LONG", n) : n \in 1..2} \cup {Leg("PUT", 3, 0, "LONG", 1)}
PairReports == {[reported_at |-> 1, legs |-> b] : b \in UpTo(Lots, 2)} \cup
               {[reported_at |-> 2, legs |-> <<>>]}
PairLedgers == {[as_of |-> 1, legs |-> b, execution_report_ids |-> x] :
                  b \in UpTo(Lots, 2), x \in {<<>>, <<"k1">>, <<"k2", "k1">>}}

\* At one desk only broker reports of any size, at the other both sides of a comparison.
MCDesks == {"books", "pairs"}
MCBrokerReports == [d \in MCDesks |-> IF d = "books" THEN BookReports ELSE PairReports]
MCLedgers == [d \in MCDesks |-> IF d = "books" THEN {} ELSE PairLedgers]
MCSupplied == {<<>>, <<"k1">>, <<"k1", "k1">>, <<"k1", "k2">>}
=============================================================================
