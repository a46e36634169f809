SPECIFICATION FairSpec
CONSTANTS
  p1 = p1
  p2 = p2
  t1 = t1
  b1 = b1
  b2 = b2
  mid = mid
  Tickets = {t1}
  OrderType <- LimitOnly
  Contracts <- OneContract
  Underlying <- Xsp
  Attempts = {1}
  Prices = {mid}
  NoPrice = NoPrice
  NoKey = NoKey
  Brokers = {b1, b2}
  Profile <- FillAndPartial
  NoOrder = NoOrder
  NoToken = NoToken
  PaperConfig <- OperatorConfig
  Procs = {p1, p2}
  BrokerOf <- OwnBrokers
  NoBroker = NoBroker
  Batches = {}
  NoIntent = NoIntent
  NoFill = NoFill
  AppArmed = TRUE
  Cli = {}
  PaperMode = {p1, p2}
  NoTarget = NoTarget
  Menu = {}
  MaxInvocations = 2
INVARIANTS ConfirmationsFresh DrillProof
PROPERTIES ImplementsLedger InvocationsEnd
