SPECIFICATION Spec
CONSTANTS
  p1 = p1
  p2 = p2
  p3 = p3
  t1 = t1
  t2 = t2
  t3 = t3
  b1 = b1
  b2 = b2
  c10 = c10
  c20 = c20
  Tickets = {t1}
  OrderType <- LimitOnly
  Contracts <- OneContract
  Underlying <- Xsp
  Attempts = {1}
  Prices = {c10, c20}
  NoPrice = NoPrice
  NoKey = NoKey
  Brokers = {b1, b2}
  Profile <- FillAndPartial
  NoOrder = NoOrder
  NoToken = NoToken
  PaperConfig <- ArmedOne
  Procs = {p1, p2, p3}
  BrokerOf <- OwnBrokers
  NoBroker = NoBroker
  Batches <- RetryBatches
  NoIntent = NoIntent
  NoFill = NoFill
  AppArmed = TRUE
  Cli = {p3}
  PaperMode = {p1, p2}
  NoTarget = NoTarget
  Menu = {"cycle", "read", "export", "unauthorized", "halt", "resume", "cancel", "flatten"}
  MaxJobs = 2
  MaxCrashes = 1
  MaxRemoteFills = 0
INVARIANTS AtMostOnce PlacedAsConfirmed SwitchAudited
