SPECIFICATION Spec
SYMMETRY PidSymmetry
CONSTANTS
  Procs <- OdinProcs
  Rank <- OdinRank
  Odin = "odin1_driver"
  Deps <- OdinNone
  WaitFor <- OdinNone
  AutoRestart <- OdinAuto
  StopTimeout <- OdinStop
  GracefulTimeout = 2
  InitialBackoff = 1
  MaxBackoff = 2
  MinUptimeReset = 2
  OdinTimeout = 1
  OdinMaxFails = 1
  OdinResetUptime = 2
  Pids = {x1, x2}
  NoPid = NoPid
  AgeCap = 2
  Jumps <- ClockSteps
  MaxJumps = 1
  MaxCrashes = 1
  Requests = {"start", "stop", "restart", "all", "shutdown"}
  ForkMayFail = TRUE
  StartWhileStopping = FALSE
INVARIANT GivenUpIsDown
PROPERTIES GiveUpSticks PromisesKept
