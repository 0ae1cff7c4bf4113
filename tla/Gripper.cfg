SPECIFICATION Spec
CONSTANTS
  None = None
  PreWidths = {0, 2, 5}
  Max_width = 3
  Mock_closed = 3
  Start_window = 6
  Timeout = 12
  Lag = 1
  MaxMove = 3
  MaxLate = 1
INVARIANTS GripTellsHeld
PROPERTIES WaitEnds
