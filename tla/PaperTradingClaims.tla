------------------------- MODULE PaperTradingClaims -------------------------
(***************************************************************************)
(* What a comment says of the kill switch and the code does not do, stated *)
(* as the text states it and refuted by a run of its own.                  *)
(***************************************************************************)
EXTENDS PaperTrading

\* "True when new entries are halted" (schemas/kill_switch_state.py:42): while the latest
\* switch is a halt no submit attempt is persisted.  run_paper_cycle never reads it.
HaltBlocksNewEntries ==
    [][Halted(log) =>
          \A k \in Keys : SubmitsOf(log, k) = {} => SubmitsOf(log, k)' = {}]_vars
=============================================================================
