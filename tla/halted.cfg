SPECIFICATION Spec
CONSTANTS
  p1 = p1
  p2 = p2
  p3 = p3
  t1 = t1
  t2 = t2
  t3 = t3
  b1 = b1
  b2 = b2
  c10 = c10
  c20 = c20
  Tickets = {t1}
  OrderType <- LimitOnly
  Contracts <- OneContract
  Underlying <- Xsp
  Attempts = {1}
  Prices = {c10}
  NoPrice = NoPrice
  NoKey = NoKey
  Brokers = {b1}
  Profile <- PartialOnly
  NoOrder = NoOrder
  NoToken = NoToken
  PaperConfig <- ArmedOne
  Procs = {p1}
  BrokerOf <- OneFake
  NoBroker = NoBroker
  Batches <- CancelBatches
  NoIntent = NoIntent
  NoFill = NoFill
  AppArmed = TRUE
  Cli = {}
  PaperMode = {p1}
  NoTarget = NoTarget
  Menu = {"cycle", "halt"}
  MaxJobs = 2
  MaxCrashes = 0
  MaxRemoteFills = 0
PROPERTIES HaltBlocksNewEntries
