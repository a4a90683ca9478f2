SPECIFICATION Spec
CONSTANTS
  FirstYear = 2020
  LastYear = 2419
INVARIANT MovableFeastsAreRight
CHECK_DEADLOCK FALSE
