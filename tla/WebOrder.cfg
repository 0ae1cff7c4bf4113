SPECIFICATION Spec
CONSTANTS
  NotANumber = NotANumber
  NoId = NoId
  None = None
  ValidNuts = {"almond", "cashew"}
  Flows = {1, 2}
  Wish <- Wishes
  MaxBacklog = 1
  MaxLost = 1
  Workers = {1}
  ByHand = {}
  MayStop = TRUE
  MayRestart = TRUE
INVARIANTS ServedOnce DoneIsOwn NothingLeftOver
PROPERTIES ServedAsShown
CHECK_DEADLOCK FALSE
