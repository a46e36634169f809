---------------------------- MODULE ShadowClaims ----------------------------
(***************************************************************************)
(* What a comment says of the gateway and the code does not do, refuted by *)
(* a run of its own.                                                       *)
(***************************************************************************)
EXTENDS ShadowCycle

\* "The Gateway uses the DERIVED dte for all risk logic" (gates.py:110): a spread that
\* expires today is approved only within the 0-DTE caps.  ConcentrationSnapshot goes by
\* its own is_zero_dte flag.
ZeroDteCapsApplied ==
    \A r \in ApprovedRequests : derived_dte(r) = 0 => ZeroDteCapsHold(r.concentration)
=============================================================================
