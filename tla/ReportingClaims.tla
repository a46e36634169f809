-------------------------- MODULE ReportingClaims --------------------------
(***************************************************************************)
(* What a comment of the relay says of its switch view, and two operator   *)
(* processes over one store refute in a run of its own.                    *)
(***************************************************************************)
EXTENDS Reporting

\* "kill-switch state is projected from persisted payload scalars exactly like
\* ``reports._store_reads`` does" (agent_os_relay.py:17).  The relay, like the control
\* plane, takes the row with the highest seq; the report takes the latest created_at.
SwitchViewsAgree == kill_switch_view(log) = kill_switch_summary(log, now)
=============================================================================
