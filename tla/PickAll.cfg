SPECIFICATION Spec
CONSTANTS
  almond = almond
  cashew = cashew
  peanut = peanut
  None = None
  Malformed = Malformed
  CLASSES <- Both
  Requests <- SomeRequests
  Tables <- SomeTables
  Max_picks = 4
  Max_failures = 2
  Unlimited = 9
INVARIANTS QuotaKept Balanced ExitTells
PROPERTIES Finishes
CHECK_DEADLOCK FALSE
