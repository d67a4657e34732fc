SPECIFICATION FairSpec
CONSTANTS
  Configs <- OneOff
  Limit = 1
  Capacity = 3
  SliceMax = 2
  MaxOthers = 1
  MaxTime = 2
  ClockSteps <- Forward
  MaxSteps = 1
  MaxFlights = 2
  MaxCuts = 1
INVARIANTS NeverIdle SlicesEnd QuietWhenDisarmed
PROPERTIES SlicesKept Recovers
