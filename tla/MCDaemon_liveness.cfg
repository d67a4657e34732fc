SPECIFICATION FairSpec
CONSTANTS
  Procs <- OdinProcs
  Rank <- OdinRank
  Odin = "odin1_driver"
  Deps <- OdinNone
  WaitFor <- OdinNone
  AutoRestart <- OdinAuto
  StopTimeout <- OdinStop
  GracefulTimeout = 1
  InitialBackoff = 1
  MaxBackoff = 1
  MinUptimeReset = 1
  OdinTimeout = 1
  OdinMaxFails = 1
  OdinResetUptime = 2
  Pids = {x1, x2}
  NoPid = NoPid
  AgeCap = 2
  Jumps <- BackwardStep
  MaxJumps = 1
  MaxCrashes = 0
  Requests = {"start", "stop", "restart", "shutdown"}
  ForkMayFail = FALSE
  StartWhileStopping = FALSE
PROPERTY AskedEnds
