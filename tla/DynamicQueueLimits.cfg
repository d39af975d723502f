SPECIFICATION Spec
CONSTANTS
  Mod = 64
  Sizes = {1, 3}
  MinLimit = 0
  MaxLimit = 3
  MaxQueue = 5
  FirstAdj = {0, 2, 35, 60}
INVARIANTS LimitsPromise InFlightConsistent
