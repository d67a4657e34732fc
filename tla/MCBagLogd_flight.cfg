SPECIFICATION Spec
CONSTANTS
  Configs <- OnlyYaml
  Limit = 1
  Capacity = 3
  SliceMax = 2
  MaxOthers = 1
  MaxTime = 2
  ClockSteps <- None
  MaxSteps = 0
  MaxFlights = 1
  MaxCuts = 1
PROPERTY FlightKept
