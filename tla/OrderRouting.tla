---------------------------- MODULE OrderRouting ----------------------------
(***************************************************************************)
(* gateway/order_routing.py and schemas/order_ticket.py: from a validated  *)
(* candidate and a routing state to an OrderTicket, or to the exception    *)
(* that stands in its place.                                               *)
(***************************************************************************)
EXTENDS Gateway, Sequences

EmergencyState == {"NORMAL", "BROKEN_SPREAD", "EMERGENCY_RISK_REDUCTION", "FORCED_LIQUIDATION"}

RouteModeForState(state) ==
    IF state = "EMERGENCY_RISK_REDUCTION" THEN "EMERGENCY" ELSE state

RoutingStates ==
    [route_mode : {RouteModeForState(s) : s \in EmergencyState},
     policy_state : EmergencyState,
     broker_native_combo_available : BOOLEAN,
     deterministic_market_order_allowed : BOOLEAN,
     requested_order_type : {"NONE", "LIMIT", "MARKET"}]

\* OrderRoutingState._mode_matches_policy_state.
RoutingValid(s) ==
    /\ s.route_mode = RouteModeForState(s.policy_state)
    /\ s.route_mode = "NORMAL" => ~s.deterministic_market_order_allowed

market_orders_allowed(state) == state # "NORMAL"

allowed_order_types(state) == IF state = "NORMAL" THEN {"LIMIT"} ELSE {"LIMIT", "MARKET"}

\* Mutant: what the caller asked for is what it gets.
ResolveRequested(s) ==
    IF s.requested_order_type = "LIMIT" \/ ~market_orders_allowed(s.policy_state)
    THEN "LIMIT" ELSE "MARKET"

resolve_order_type(s) ==
    IF /\ s.route_mode # "NORMAL"
       /\ s.deterministic_market_order_allowed
       /\ market_orders_allowed(s.policy_state)
    THEN "MARKET" ELSE "LIMIT"

\* decide_order_route: a MARKET request is refused, whatever the state.
decide_order_route(s) ==
    LET type == resolve_order_type(s)
        ok == /\ s.requested_order_type # "MARKET"
              /\ type \in allowed_order_types(s.policy_state)
    IN  [approved |-> ok,
         order_type |-> IF ok THEN type ELSE "NONE",
         route_mode |-> s.route_mode,
         combo_preferred |-> s.broker_native_combo_available,
         broker_native_combo_required |-> ok /\ s.broker_native_combo_available,
         reason_codes |-> IF ok THEN {} ELSE {"BROKEN_SPREAD_STATE"}]

\* _ordered_legs; the index is the leg's sequence number.
ordered_legs(candidate) ==
    <<[role |-> "LONG_PROTECTIVE", source_leg |-> candidate.long_leg],
      [role |-> "SHORT_RISK", source_leg |-> candidate.short_leg]>>

\* OrderRouteDecision._approved_shape.
DecisionValid(d) ==
    /\ d.broker_native_combo_required => d.combo_preferred
    /\ IF d.approved THEN d.order_type # "NONE" /\ d.reason_codes = {}
                     ELSE d.order_type = "NONE" /\ d.reason_codes # {}

Ticket(candidate, s) ==
    [candidate |-> candidate, order_type |-> decide_order_route(s).order_type,
     policy_state |-> s.policy_state, legs |-> ordered_legs(candidate)]

\* OrderLeg._role_matches_source_leg and OrderTicket._order_type_permitted.
TicketValid(t) ==
    /\ t.order_type \in allowed_order_types(t.policy_state)
    /\ \A i \in DOMAIN t.legs :
           t.legs[i].source_leg.side =
               IF t.legs[i].role = "LONG_PROTECTIVE" THEN "LONG" ELSE "SHORT"
    /\ Len(t.legs) > 0 /\ t.legs[1].role = "LONG_PROTECTIVE"
    /\ \A role \in {"LONG_PROTECTIVE", "SHORT_RISK"} :
           Cardinality({i \in DOMAIN t.legs : t.legs[i].role = role}) = 1

\* mint_order_ticket returns Ticket(candidate, s) when this holds, and raises otherwise.
mint_order_ticket(candidate, s) ==
    /\ DecisionValid(decide_order_route(s))
    /\ decide_order_route(s).approved
    /\ TicketValid(Ticket(candidate, s))
=============================================================================
