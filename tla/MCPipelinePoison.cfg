SPECIFICATION Spec
CONSTANTS
  Orders = {o1, o2}
  Faucets = {f1, f2}
  Leverages = {l1}
  DefaultLeverage = 1
  LeverageAsked <- MCLeverageAsked
  NoTask = NoTask
  MaxFailures = 1
  MaxCrashes = 1
INVARIANT
  NoOpOnDivergedEngine
