SPECIFICATION Spec
CONSTANTS
  SCALE = 2
  BPS = 8
  Users <- MCUsers
  FEE = "fee"
  NoOrder = NoOrder
  NoCid = NoCid
  TickSize = 1
  LotSize = 1
  MinNotional = 0
  MakerFeeBps = 1
  TakerFeeBps = 2
  Requests <- MCRequests
  Amendments <- MCAmendments
  Transfers <- MCTransfers
  StartBalance <- MCStartBalance
  MaxOrders = 4
  MaxSupply = 6
INVARIANTS
  TypeOK
  Conservation
  LocksBacked
  BookInOrder
  Uncrossed
  RestoreExact
  FeeFloor
PROPERTIES
  AmendKeepsOrder
  MatchingEnds
