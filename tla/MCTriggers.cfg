SPECIFICATION TSpec
CONSTANTS
  SCALE = 2
  BPS = 8
  Users = {1, 2}
  FEE = FEE
  CLEARING = CLEARING
  NoOrder = NoOrder
  NoGroup = NoGroup
  Groups = {"g"}
  TickSize = 1
  LotSize = 1
  MinNotional = 0
  MakerFeeBps = 1
  TakerFeeBps = 1
  MaxLeverage = 4
  Tiers <- MCTiers
  TopRate = 1
  AdlModes = {FALSE}
  Requests <- MCRequests
  Conditionals <- MCConditionals
  Amendments <- MCAmendments
  Marks = {7, 13}
  Rates = {}
  Leverages = {2}
  Transfers = {}
  Starts <- MCStarts
  MaxOrders = 5
  MaxMarks = 2
  MaxFundings = 0
  MaxSupply = 0
INVARIANTS
  OcoIndexExact
  NoTriggerMissed
PROPERTIES
  LosersOut
  StopsOnlyTighten
