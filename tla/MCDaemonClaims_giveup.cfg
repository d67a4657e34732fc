SPECIFICATION Spec
CONSTANTS
  Procs <- OdinProcs
  Rank <- OdinRank
  Odin = "odin1_driver"
  Deps <- OdinNone
  WaitFor <- OdinNone
  AutoRestart <- OdinAuto
  StopTimeout <- OdinStop
  GracefulTimeout = 2
  InitialBackoff = 1
  MaxBackoff = 2
  MinUptimeReset = 2
  OdinTimeout = 1
  OdinMaxFails = 1
  OdinResetUptime = 2
  Pids = {x1, x2, x3}
  NoPid = NoPid
  AgeCap = 2
  Jumps = {}
  MaxJumps = 0
  MaxCrashes = 0
  Requests = {}
  ForkMayFail = FALSE
  StartWhileStopping = FALSE
INVARIANT GiveUpKeepsDaemon
