SPECIFICATION MCSpec
CONSTANTS
  WindowSize = 3
  Threshold = 8
  Timeout = 2
  Grace = 2
  RttMax = 3
  Period = 1
  Gain = 4
  MaxStep = 1
  LostLimit = 3
  TrimFrom = 10
  SlewRate = 1
  Errors = {12}
  FcuJumps <- SomeJumps
  Rtts = {2, 3}
  MaxFlight = 1
  MaxJumps = 1
  AgeCap = 3
  MayFail = FALSE
  Never = Never
INVARIANT LoopStable
PROPERTIES StepsImprove ClockKept
