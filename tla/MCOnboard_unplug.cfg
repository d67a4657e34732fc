SPECIFICATION MCSpec
CONSTANTS
  Procs <- TwoProcs
  Rank <- TwoRank
  Odin = "odin1_driver"
  Deps <- TwoDeps
  WaitFor <- TwoDeps
  AutoRestart <- TwoAuto
  StopTimeout <- TwoStop
  GracefulTimeout = 2
  InitialBackoff = 1
  MaxBackoff = 2
  MinUptimeReset = 2
  OdinTimeout = 1
  OdinMaxFails = 1
  OdinResetUptime = 2
  Pids = {x1, x2, x3}
  NoPid = NoPid
  AgeCap = 2
  Jumps = {}
  MaxJumps = 0
  MaxCrashes = 2
  Requests = {}
  ForkMayFail = FALSE
  StartWhileStopping = FALSE
  Parts = {"threads"}
  IMU_QUEUE_MAX_SIZE = 2
  MaxSessions = 2
  MaxKills = 1
  cov_degrade_bound = 1
  reset_cooldown = 2
  Suppression = 1
  StampAges <- MCStampAges
  AgeLimit = 3
  CountCap = 2
  Steps <- MCSteps
  MaxSteps = 1
PROPERTY UnplugEnds
CHECK_DEADLOCK FALSE
