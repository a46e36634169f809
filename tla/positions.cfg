SPECIFICATION Spec
CONSTANTS
  Desks <- MCDesks
  BrokerReports <- MCBrokerReports
  Ledgers <- MCLedgers
  SuppliedReports <- MCSupplied
  Times = {1}
INVARIANTS ProtectionExact VerdictExact
CHECK_DEADLOCK FALSE
