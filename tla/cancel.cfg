SPECIFICATION Spec
CONSTANTS
  p1 = p1
  p2 = p2
  p3 = p3
  t1 = t1
  t2 = t2
  t3 = t3
  b1 = b1
  b2 = b2
  c10 = c10
  c20 = c20
  Tickets = {t1}
  OrderType <- LimitOnly
  Contracts <- TwoContracts
  Underlying <- Xsp
  Attempts = {1}
  Prices = {c10}
  NoPrice = NoPrice
  NoKey = NoKey
  Brokers = {b1}
  Profile <- Remote
  NoOrder = NoOrder
  NoToken = NoToken
  PaperConfig <- ArmedTwo
  Procs = {p1, p2}
  BrokerOf <- SharedBroker
  NoBroker = NoBroker
  Batches <- CancelBatches
  NoIntent = NoIntent
  NoFill = NoFill
  AppArmed = TRUE
  Cli = {}
  PaperMode = {p1, p2}
  NoTarget = NoTarget
  Menu = {"cycle", "cancel"}
  MaxJobs = 3
  MaxCrashes = 0
  MaxRemoteFills = 1
INVARIANTS EvidencePreserved
PROPERTIES TerminalIsFinal
SYMMETRY ProcSymmetry
