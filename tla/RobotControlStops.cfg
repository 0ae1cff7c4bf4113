SPECIFICATION Spec
CONSTANTS
  first = first
  second = second
  Goals = {first, second}
  PushGoals = {second}
  NoGoal = nobody
  Stopper = stopper
  Beacon = beacon
  PreGrasp = FALSE
  Silent = TRUE
  PlaceRow = {second}
  Cancellable = {first}
  MaxStops = 1
  MaxHomes = 0
INVARIANTS TypeOK Exclusive ReadyIsOwned StopIsHeeded
