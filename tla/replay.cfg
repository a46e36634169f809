SPECIFICATION FairSpec
CONSTANTS
  DstStart <- MCDstStart
  DstEnd <- MCDstEnd
  Tickets <- MCTickets
  OrderType <- MCOrderType
  Contracts <- MCContracts
  Underlying <- MCUnderlying
  Attempts = {1}
  Prices = {50}
  NoPrice = NoPrice
  NoKey = NoKey
  NoOrder = NoOrder
  NoToken = NoToken
  Brokers = {"fill", "reject", "partial", "disconnect", "slow", "dupack", "remote"}
  Profile <- MCProfile
  PaperConfig <- MCPaperConfig
  Sessions <- MCSessions
INVARIANTS TypeOK OutcomeEvidenced UnresolvedAgrees PrefilterAgrees AtMostOneOrder DrawdownIsWorstFall
PROPERTIES SuiteEnds
