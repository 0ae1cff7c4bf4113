CONSTANTS
  almond = almond
  cashew = cashew
  Classes <- OneClass
  Priority <- RankOne
  MaxDetectMisses = 2
  MaxGraspFailures = 2
  Orders <- SmallOrders
  Tables <- SmallTables
  VerificationEnabled = TRUE
  MaxRounds = 2
  ClusterEnabled = TRUE
  MaxPushes = 2
  Blind = 0
  DbMayFail = FALSE
SPECIFICATION TrailSpec
INVARIANTS TypeOK NoOverPick VerifiedSuccess DeliveredIsDeducted SkippedForCause
