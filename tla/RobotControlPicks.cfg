SPECIFICATION Spec
CONSTANTS
  first = first
  second = second
  Goals = {first, second}
  PushGoals = {}
  NoGoal = nobody
  Stopper = stopper
  Beacon = beacon
  PreGrasp = TRUE
  Silent = TRUE
  PlaceRow = {first}
  Cancellable = {}
  MaxStops = 0
  MaxHomes = 1
INVARIANTS ReadyMeansOpened
PROPERTIES Answered BeaconDrops
