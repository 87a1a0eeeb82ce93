SPECIFICATION BSpec
CONSTANTS
  SCALE = 2
  BPS = 8
  Users = {1, 2, 3}
  FEE = FEE
  CLEARING = CLEARING
  NoOrder = NoOrder
  NoGroup = NoGroup
  Groups = {"br"}
  TickSize = 1
  LotSize = 1
  MinNotional = 0
  MakerFeeBps = 1
  TakerFeeBps = 1
  MaxLeverage = 4
  Tiers <- MCTiers
  TopRate = 1
  AdlModes = {FALSE}
  Requests <- MCRequests
  Conditionals = {}
  Brackets <- MCBrackets
  Amendments <- MCAmendments
  Marks = {7}
  Rates = {}
  Leverages = {2}
  Transfers = {}
  Starts <- MCStarts
  MaxOrders = 7
  MaxMarks = 1
  MaxFundings = 0
  MaxSupply = 0
INVARIANTS
  BracketContained
