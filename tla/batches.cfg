SPECIFICATION Spec
CONSTANTS
  p1 = p1
  p2 = p2
  p3 = p3
  t1 = t1
  t2 = t2
  t3 = t3
  b1 = b1
  b2 = b2
  c10 = c10
  c20 = c20
  Tickets = {t1, t2, t3}
  OrderType <- ThirdMarket
  Contracts <- ThirdBig
  Underlying <- Xsp
  Attempts = {1}
  Prices = {c10, c20}
  NoPrice = NoPrice
  NoKey = NoKey
  Brokers = {b1}
  Profile <- Remote
  NoOrder = NoOrder
  NoToken = NoToken
  PaperConfig <- ArmedTwo
  Procs = {p1}
  BrokerOf <- SharedBroker
  NoBroker = NoBroker
  Batches <- MixedBatches
  NoIntent = NoIntent
  NoFill = NoFill
  AppArmed = TRUE
  Cli = {}
  PaperMode = {p1}
  NoTarget = NoTarget
  Menu = {"cycle", "read", "export", "halt", "cancel", "flatten"}
  MaxJobs = 2
  MaxCrashes = 1
  MaxRemoteFills = 1
PROPERTIES CommandAudited
INVARIANTS TypeOK FailureSurfaced
