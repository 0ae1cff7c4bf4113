CONSTANTS
  almond = almond
  cashew = cashew
  Classes <- TwoClasses
  Priority <- RankBoth
  MaxDetectMisses = 2
  MaxGraspFailures = 1
  Orders <- MixedOrders
  Tables <- MixedTables
  VerificationEnabled = TRUE
  MaxRounds = 1
  ClusterEnabled = TRUE
  MaxPushes = 1
  Blind = 0
  DbMayFail = FALSE
SPECIFICATION Spec
PROPERTIES CycleEnds FulfilsOrders
