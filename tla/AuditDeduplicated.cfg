SPECIFICATION Spec
CONSTANTS
  NotANumber = NotANumber
  NoId = NoId
  None = None
  ValidNuts = {"almond", "cashew"}
  Flows = {1, 2}
  Wish <- Wishes
  MaxBacklog = 1
  MaxLost = 0
  Workers = {1, 2}
  ByHand = {None}
  MayStop = FALSE
  MayRestart = FALSE
INVARIANTS Deduplicated
CHECK_DEADLOCK FALSE
