SPECIFICATION FairSpec
CONSTANTS
  DstStart <- MCDstStart
  DstEnd <- MCDstEnd
  Sessions <- MCSessions
INVARIANTS TypeOK OutcomeFollows HeartbeatTruthful ApprovedIsTradable ExpiresAsClaimed NoInternalContradiction ArmedMeansPaper
PROPERTIES TicketSafe ImplementsVerdicts CycleEnds
