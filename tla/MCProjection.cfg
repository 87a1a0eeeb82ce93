SPECIFICATION PSpec
CONSTANTS
  SCALE = 2
  BPS = 8
  Users = {1, 2}
  FEE = FEE
  CLEARING = CLEARING
  NoOrder = NoOrder
  NoGroup = NoGroup
  Groups = {}
  TickSize = 1
  LotSize = 1
  MinNotional = 0
  MakerFeeBps = 1
  TakerFeeBps = 1
  MaxLeverage = 4
  Tiers <- MCTiers
  TopRate = 1
  AdlModes = {TRUE, FALSE}
  Requests <- MCRequests
  Amendments <- MCAmendments
  Marks = {4, 13}
  Rates <- MCRates
  Leverages = {4}
  Transfers <- MCTransfers
  Starts <- MCStarts
  MaxOrders = 4
  MaxMarks = 1
  MaxFundings = 1
  MaxSupply = 30
INVARIANTS
  TypeOK
  PerpConservation
  Solvent
  ReduceOnlyBudget
  FokFillsCompletely
  RestoreIsEngine
  StreamSound
PROPERTIES
  FundingNets
